----------------------------- MODULE BookingSaga -----------------------------
(***************************************************************************)
(* Paying for a booking: the saga between venue-booking-service, which     *)
(* owns the booking, and finance-service, which owns the money.            *)
(*                                                                         *)
(* A booking is paid from the balance or by a bank transfer that SePay     *)
(* reports.  Finance asks venue whether the booking is still payable and,  *)
(* in a transaction of its own, takes the payment and publishes            *)
(* PaymentCompleted.  Venue answers BookingConfirmed or PaymentTooLate,    *)
(* and BookingCancelled when a confirmed booking is cancelled; finance     *)
(* records the revenue, credits the late payment, or refunds.              *)
(*                                                                         *)
(* An event written to an outbox is in the set sent for ever: it may be    *)
(* delivered late, in any order and again.  A consumer that fails asks for *)
(* one redelivery; after that the event is given up.                       *)
(*                                                                         *)
(* The bookings of the module are of one provider and one price, each of   *)
(* one player, and start held.  The schedule of the court is the subject   *)
(* of module CourtSchedule; bookings of matches and operational shutdowns  *)
(* are left out.                                                           *)
(***************************************************************************)
EXTENDS Integers, FiniteSets, FiniteSetsExt

CONSTANTS
  Bookings,         \* marketplace bookings of the provider
  Intents,          \* ids of SePay payment intents
  Transfers,        \* bank transfers, named by their externalRef
  NoIntent,         \* an intent that was not created
  NoTransfer,       \* a transfer that was not made
  NoRevenue,        \* a booking without a row in booking_revenues
  Price,            \* priceSnapshot of every booking
  Amounts,          \* amounts of bank transfers
  PartialRefunds,   \* amounts an administrator may grant in a dispute
  InOrder,          \* is BookingConfirmed handled before BookingCancelled?
  BeforeEnd         \* are the events of a booking handled before it ends?

ASSUME FiniteAssumption == IsFiniteSet(Bookings) /\ IsFiniteSet(Transfers)
ASSUME PriceAssumption == Price \in Nat \ {0}
ASSUME AmountsAssumption == Amounts \subseteq Nat /\ PartialRefunds \subseteq Nat
ASSUME SourcesAssumption == Bookings \cap Transfers = {}
ASSUME FlagAssumption == InOrder \in BOOLEAN /\ BeforeEnd \in BOOLEAN

VARIABLES
  status,       \* venue: bookings.status, "deleted" when the row is gone
  lapsed,       \* venue: is holdExpiresAt in the past?
  phase,        \* where the clock stands between the slot and its release
  venueDone,    \* venue: PaymentCompleted events in processed_events
  confirming,   \* venue: payments whose handler has found the booking payable
  healing,      \* venue: bookings a request has found expired and will cancel
  intent,       \* finance: payment_intents
  transfer,     \* the bank: transfers made by the player
  receipt,      \* finance: sepay_events, by what became of the transfer
  asked,        \* finance: payments that know the answer of venue
  balancePaid,  \* finance: bookings with a payment entry in the ledger
  credited,     \* finance: topups of the player's wallet, by booking
  refunds,      \* finance: refunds to the player's wallet, by booking
  cancelRefund, \* finance: bookings with a refund entry of refType booking
  revenue,      \* finance: booking_revenues
  dispute,      \* finance: disputes
  pending,      \* finance: business wallet, pending
  available,    \* finance: business wallet, available
  platform,     \* finance: platform wallet
  sent,         \* events written to an outbox
  financeDone,  \* finance: processed_events
  retried,      \* finance: events that failed once
  quarantined   \* finance: events given up; quarantined_events, if that write succeeds

readVars == <<confirming, healing>>
bookingVars == <<status, lapsed, phase, venueDone, readVars>>
paymentVars == <<intent, transfer, receipt, asked, balancePaid>>
moneyVars == <<credited, refunds, cancelRefund, revenue, dispute,
               pending, available, platform>>
eventVars == <<sent, financeDone, retried, quarantined>>
vars == <<bookingVars, paymentVars, moneyVars, eventVars>>

-----------------------------------------------------------------------------
(* Money *)

\* COMMISSION_RATE_PERCENT is 10 and BigInt division truncates
Commission(amount) == (amount * 10) \div 100

\* refundGross of a cancellation, truncated in the same way
RefundOf(percent) == (Price * percent) \div 100

\* the tiers of CANCELLATION_POLICY
RefundPercents == {100, 50, 0}

-----------------------------------------------------------------------------
(* Events and payments *)

\* A payment is the transfer it came with, or the booking itself when it was
\* paid from the balance (ledger_payment_once allows one such payment).
Sources == Bookings \cup Transfers

BookingOf(s) == IF s \in Bookings THEN s ELSE intent[transfer[s].intent].booking

Event(type, of, percent) == [type |-> type, of |-> of, percent |-> percent]

PaymentCompleted(s) == Event("PaymentCompleted", s, 0)
PaymentTooLate(s) == Event("PaymentTooLate", s, 0)
BookingConfirmed(b) == Event("BookingConfirmed", b, 0)
BookingCancelled(b, percent) == Event("BookingCancelled", b, percent)

Events ==
  [type : {"PaymentCompleted", "PaymentTooLate"}, of : Sources, percent : {0}]
    \cup [type : {"BookingConfirmed"}, of : Bookings, percent : {0}]
    \cup [type : {"BookingCancelled"}, of : Bookings, percent : RefundPercents]

\* events finance may be given: sent, not acknowledged, not set aside
Deliverable(e) == e \in sent \ (financeDone \cup quarantined)

\* the payments that were taken for b
PaymentsOf(b) ==
  {s \in Sources : PaymentCompleted(s) \in sent /\ BookingOf(s) = b}

Undelivered(b) ==
  \/ PaymentsOf(b) \ venueDone # {}
  \/ Deliverable(BookingConfirmed(b))
  \/ \E p \in RefundPercents : Deliverable(BookingCancelled(b, p))

Done(e) == financeDone' = financeDone \cup {e}

\* onMessage of finance: the first failure is requeued, with the second one the
\* event is given up, and quarantineFailedEvent tries to keep a copy.
Fail(e) ==
  /\ IF e \in retried
     THEN quarantined' = quarantined \cup {e} /\ UNCHANGED retried
     ELSE retried' = retried \cup {e} /\ UNCHANGED quarantined
  /\ UNCHANGED <<bookingVars, paymentVars, moneyVars, sent, financeDone>>

-----------------------------------------------------------------------------
(* Types *)

Intent == [booking : Bookings, status : {"pending", "completed", "failed"}]

Transfer == [intent : Intents, amount : Amounts]

Revenue == [net : Int, commission : Int, cancelled : BOOLEAN, released : BOOLEAN]

\* A missing row is not mistaken for a row.
ASSUME RowAssumption ==
  NoIntent \notin Intent /\ NoTransfer \notin Transfer /\ NoRevenue \notin Revenue

TypeOK ==
  /\ status \in [Bookings ->
       {"held", "confirmed", "cancelled", "completed", "deleted"}]
  /\ lapsed \in [Bookings -> BOOLEAN]
  /\ phase \in [Bookings -> {"before", "started", "ended", "mature"}]
  /\ venueDone \subseteq Sources
  /\ confirming \subseteq Sources /\ healing \subseteq Bookings
  /\ intent \in [Intents -> Intent \cup {NoIntent}]
  /\ transfer \in [Transfers -> Transfer \cup {NoTransfer}]
  /\ receipt \in [Transfers ->
       {"none", "unmatched", "late", "booking", "partial"}]
  /\ asked \subseteq Sources \X BOOLEAN
  /\ balancePaid \subseteq Bookings
  /\ credited \in [Bookings -> Nat]
  /\ refunds \in [Bookings -> Nat]
  /\ cancelRefund \subseteq Bookings
  /\ revenue \in [Bookings -> Revenue \cup {NoRevenue}]
  /\ dispute \in [Bookings -> {"none", "open", "resolved"}]
  /\ pending \in Nat
  /\ available \in Nat
  /\ platform \in Nat
  /\ sent \subseteq Events
  /\ financeDone \subseteq sent
  /\ retried \subseteq sent
  /\ quarantined \subseteq sent

Init ==
  /\ status = [b \in Bookings |-> "held"]
  /\ lapsed = [b \in Bookings |-> FALSE]
  /\ phase = [b \in Bookings |-> "before"]
  /\ venueDone = {}
  /\ confirming = {} /\ healing = {}
  /\ intent = [i \in Intents |-> NoIntent]
  /\ transfer = [t \in Transfers |-> NoTransfer]
  /\ receipt = [t \in Transfers |-> "none"]
  /\ asked = {}
  /\ balancePaid = {}
  /\ credited = [b \in Bookings |-> 0]
  /\ refunds = [b \in Bookings |-> 0]
  /\ cancelRefund = {}
  /\ revenue = [b \in Bookings |-> NoRevenue]
  /\ dispute = [b \in Bookings |-> "none"]
  /\ pending = 0
  /\ available = 0
  /\ platform = 0
  /\ sent = {}
  /\ financeDone = {}
  /\ retried = {}
  /\ quarantined = {}

-----------------------------------------------------------------------------
(* Venue: the booking *)

Payable(b) == status[b] = "held" /\ ~lapsed[b]

\* the hold of a booking expires
Lapse(b) ==
  /\ ~lapsed[b]
  /\ lapsed' = [lapsed EXCEPT ![b] = TRUE]
  /\ UNCHANGED <<status, phase, venueDone, readVars, paymentVars, moneyVars, eventVars>>

\* the clock passes startAt, endAt and then releaseAt, a day after endAt
Advance(b) ==
  /\ phase[b] # "mature"
  /\ phase[b] = "started" /\ BeforeEnd => ~Undelivered(b)
  /\ phase' = [phase EXCEPT ![b] = CASE @ = "before" -> "started"
                                     [] @ = "started" -> "ended"
                                     [] OTHER -> "mature"]
  /\ UNCHANGED <<status, lapsed, venueDone, readVars, paymentVars, moneyVars, eventVars>>

\* reapExpiredHeldBookings
ReapExpiredBooking(b) ==
  /\ status[b] = "held" /\ lapsed[b]
  /\ status' = [status EXCEPT ![b] = "cancelled"]
  /\ UNCHANGED <<lapsed, phase, venueDone, readVars, paymentVars, moneyVars, eventVars>>

\* completeEndedBookings
CompleteBooking(b) ==
  /\ status[b] = "confirmed" /\ phase[b] \in {"ended", "mature"}
  /\ status' = [status EXCEPT ![b] = "completed"]
  /\ UNCHANGED <<lapsed, phase, venueDone, readVars, paymentVars, moneyVars, eventVars>>

\* handlePaymentCompleted has the advisory lock of the booking, as cancelling
\* a held booking does, from its first read to its commit.
Locked(b) == \E s \in confirming : BookingOf(s) = b

\* cancelBookingByPlayer on a held booking deletes the row
LeaveCheckout(b) ==
  /\ status[b] = "held" /\ ~Locked(b)
  /\ status' = [status EXCEPT ![b] = "deleted"]
  /\ UNCHANGED <<lapsed, phase, venueDone, readVars, paymentVars, moneyVars, eventVars>>

\* cancelBookingByPlayer on a confirmed booking, with the tier that applies,
\* and cancelBookingWithReason for the provider and the platform, with 100
CancelBooking(b, percent) ==
  /\ status[b] = "confirmed" /\ phase[b] = "before"
  /\ status' = [status EXCEPT ![b] = "cancelled"]
  /\ sent' = sent \cup {BookingCancelled(b, percent)}
  /\ UNCHANGED <<lapsed, phase, venueDone, readVars, paymentVars, moneyVars,
                 financeDone, retried, quarantined>>

\* handlePaymentCompleted reads the booking and the clock, and will confirm
ReadPayableBooking(s) ==
  /\ Payable(BookingOf(s)) /\ ~Locked(BookingOf(s))
  /\ confirming' = confirming \cup {s}
  /\ UNCHANGED <<status, lapsed, phase, venueDone, healing, paymentVars,
                 moneyVars, eventVars>>

\* it writes by id, whatever the status and the time are by then
ConfirmBooking(s) ==
  /\ s \in confirming /\ confirming' = confirming \ {s}
  /\ venueDone' = venueDone \cup {s}
  /\ status' = [status EXCEPT ![BookingOf(s)] = "confirmed"]
  /\ sent' = sent \cup {BookingConfirmed(BookingOf(s))}
  /\ UNCHANGED <<lapsed, phase, healing, paymentVars, moneyVars, financeDone,
                 retried, quarantined>>

\* the player has left the checkout: there is no booking, and no answer
FindNoBooking(s) ==
  /\ status[BookingOf(s)] = "deleted" /\ ~Locked(BookingOf(s))
  /\ venueDone' = venueDone \cup {s}
  /\ UNCHANGED <<status, lapsed, phase, readVars, paymentVars, moneyVars,
                 eventVars>>

CancelHeld(b) == status' = [status EXCEPT ![b] = IF @ = "held" THEN "cancelled" ELSE @]

\* Mutant: a late payment cancels the booking and is not reported.
RefusePaymentSilently(s) ==
  /\ status[BookingOf(s)] # "deleted" /\ ~Payable(BookingOf(s)) /\ ~Locked(BookingOf(s))
  /\ venueDone' = venueDone \cup {s}
  /\ CancelHeld(BookingOf(s))
  /\ UNCHANGED <<lapsed, phase, readVars, paymentVars, moneyVars, eventVars>>

\* the payment is too late
RefusePayment(s) ==
  /\ status[BookingOf(s)] # "deleted" /\ ~Payable(BookingOf(s)) /\ ~Locked(BookingOf(s))
  /\ venueDone' = venueDone \cup {s}
  /\ CancelHeld(BookingOf(s))
  /\ sent' = sent \cup {PaymentTooLate(s)}
  /\ UNCHANGED <<lapsed, phase, readVars, paymentVars, moneyVars, financeDone,
                 retried, quarantined>>

\* the event is delivered until processed_events has a row for it
HandlePaymentCompleted(s) ==
  /\ PaymentCompleted(s) \in sent /\ s \notin venueDone
  /\ \/ ReadPayableBooking(s) \/ ConfirmBooking(s)
     \/ FindNoBooking(s) \/ RefusePayment(s)

Expired(b) == status[b] = "held" /\ lapsed[b]

\* First half of getPaymentStatus and getMatchContext, for any request about b:
\* the booking is read.
ReadExpiredBooking(b) ==
  /\ Expired(b)
  /\ healing' = healing \cup {b}
  /\ UNCHANGED <<status, lapsed, phase, venueDone, confirming, paymentVars,
                 moneyVars, eventVars>>

\* Second half: update by id, with no condition on the status.  The update of
\* a row that is gone fails, and with it the request.
HealBooking(b) ==
  /\ b \in healing /\ healing' = healing \ {b}
  /\ status' = [status EXCEPT ![b] = IF @ = "deleted" THEN @ ELSE "cancelled"]
  /\ UNCHANGED <<lapsed, phase, venueDone, confirming, paymentVars, moneyVars,
                 eventVars>>

-----------------------------------------------------------------------------
(* Finance: taking a payment *)

\* payBookingWithBalance asks venue; an answer other than payable ends it
AskForBalancePayment(b) ==
  /\ Payable(b)
  /\ asked' = asked \cup {<<b, TRUE>>}
  /\ UNCHANGED <<bookingVars, intent, transfer, receipt, balancePaid,
                 moneyVars, eventVars>>

\* the transaction of payBookingWithBalance; ledger_payment_once refuses a
\* second payment entry for the booking
PayWithBalance(b) ==
  /\ <<b, TRUE>> \in asked
  /\ asked' = asked \ {<<b, TRUE>>}
  /\ IF b \in balancePaid
     THEN UNCHANGED <<balancePaid, sent>>
     ELSE /\ balancePaid' = balancePaid \cup {b}
          /\ sent' = sent \cup {PaymentCompleted(b)}
  /\ UNCHANGED <<bookingVars, intent, transfer, receipt,
                 moneyVars, financeDone, retried, quarantined>>

\* createBookingSepayIntent.  It also asks venue first, but nothing that
\* happens in between changes what an intent is good for.
CreateIntent(i, b) ==
  /\ intent[i] = NoIntent
  /\ Payable(b)
  /\ intent' = [intent EXCEPT ![i] = [booking |-> b, status |-> "pending"]]
  /\ UNCHANGED <<bookingVars, transfer, receipt, asked, balancePaid,
                 moneyVars, eventVars>>

\* The player transfers an amount with the code of an intent, at any time.
MakeTransfer(t, i, amount) ==
  /\ transfer[t] = NoTransfer /\ intent[i] # NoIntent
  /\ transfer' = [transfer EXCEPT ![t] = [intent |-> i, amount |-> amount]]
  /\ UNCHANGED <<bookingVars, intent, receipt, asked, balancePaid,
                 moneyVars, eventVars>>

\* a transfer SePay has reported and finance has no sepay_events row for
Unrecorded(t) == transfer[t] # NoTransfer /\ receipt[t] = "none"

IntentPending(t) == intent[transfer[t].intent].status = "pending"

\* handleIncomingTransfer asks venue (getPaymentStatus).  An expired booking is
\* cancelled first, and the answer is that of the booking as it is then.  No
\* row, no answer: the webhook fails.
AskForTransfer(t) ==
  /\ Unrecorded(t) /\ IntentPending(t)
  /\ status[BookingOf(t)] # "deleted"
  /\ \/ ReadExpiredBooking(BookingOf(t))
     \/ /\ ~Expired(BookingOf(t))
        /\ asked' = asked \cup {<<t, Payable(BookingOf(t))>>}
        /\ UNCHANGED <<bookingVars, intent, transfer, receipt, balancePaid,
                       moneyVars, eventVars>>

Record(t, kind) == receipt' = [receipt EXCEPT ![t] = kind]

Credit(b, amount) == credited' = [credited EXCEPT ![b] = @ + amount]

SetIntent(t, result) ==
  intent' = [intent EXCEPT ![transfer[t].intent].status = result]

\* An intent that is no longer pending, when it is first read or under the
\* lock of lockPendingIntent: the transfer waits for a manual match.
RecordUnmatched(t) ==
  /\ Unrecorded(t) /\ ~IntentPending(t)
  /\ Record(t, "unmatched")
  /\ asked' = asked \ ({t} \X BOOLEAN)
  /\ UNCHANGED <<bookingVars, intent, transfer, balancePaid, moneyVars,
                 eventVars>>

\* the sepay_events row exists by the time lockPendingIntent looks
IgnoreRecordedTransfer(t) ==
  /\ receipt[t] # "none"
  /\ asked \cap ({t} \X BOOLEAN) # {}
  /\ asked' = asked \ ({t} \X BOOLEAN)
  /\ UNCHANGED <<bookingVars, intent, transfer, receipt, balancePaid,
                 moneyVars, eventVars>>

\* not payable: the whole amount becomes balance
CreditLateTransfer(t) ==
  /\ <<t, FALSE>> \in asked
  /\ Unrecorded(t) /\ IntentPending(t)
  /\ Record(t, "late") /\ SetIntent(t, "failed")
  /\ Credit(BookingOf(t), transfer[t].amount)
  /\ asked' = asked \ {<<t, FALSE>>}
  /\ UNCHANGED <<bookingVars, transfer, balancePaid, refunds, cancelRefund,
                 revenue, dispute, pending, available, platform, eventVars>>

\* sepay_allocations is unique in (kind, refId): one transfer pays for b
BookingAllocated(b) ==
  \E t \in Transfers : receipt[t] = "booking" /\ BookingOf(t) = b

\* payable and enough: the booking is paid, the excess becomes balance
AcceptTransfer(t) ==
  /\ <<t, TRUE>> \in asked
  /\ Unrecorded(t) /\ IntentPending(t) /\ transfer[t].amount >= Price
  /\ ~BookingAllocated(BookingOf(t))
  /\ Record(t, "booking") /\ SetIntent(t, "completed")
  /\ Credit(BookingOf(t), transfer[t].amount - Price)
  /\ sent' = sent \cup {PaymentCompleted(t)}
  /\ asked' = asked \ {<<t, TRUE>>}
  /\ UNCHANGED <<bookingVars, transfer, balancePaid, refunds, cancelRefund,
                 revenue, dispute, pending, available, platform, financeDone,
                 retried, quarantined>>

\* another transfer has paid for the booking, and the transaction is aborted:
\* the webhook fails, and asks again when SePay repeats it
AllocationRefused(t) ==
  /\ <<t, TRUE>> \in asked
  /\ Unrecorded(t) /\ IntentPending(t) /\ transfer[t].amount >= Price
  /\ BookingAllocated(BookingOf(t))
  /\ asked' = asked \ {<<t, TRUE>>}
  /\ UNCHANGED <<bookingVars, intent, transfer, receipt, balancePaid,
                 moneyVars, eventVars>>

\* payable and short: the amount becomes balance, the intent stays pending
CreditPartialTransfer(t) ==
  /\ <<t, TRUE>> \in asked
  /\ Unrecorded(t) /\ IntentPending(t) /\ transfer[t].amount < Price
  /\ Record(t, "partial")
  /\ Credit(BookingOf(t), transfer[t].amount)
  /\ asked' = asked \ {<<t, TRUE>>}
  /\ UNCHANGED <<bookingVars, intent, transfer, balancePaid, refunds,
                 cancelRefund, revenue, dispute, pending, available, platform,
                 eventVars>>

-----------------------------------------------------------------------------
(* Finance: events of venue *)

NewRevenue == [net |-> Price - Commission(Price), commission |-> Commission(Price),
               cancelled |-> FALSE, released |-> FALSE]

\* Mutant: a redelivered BookingConfirmed adds its revenue to the wallets again.
RecordRevenueAgain(b) ==
  /\ BookingConfirmed(b) \in sent
  /\ pending <= Price
  /\ revenue' = [revenue EXCEPT ![b] = NewRevenue]
  /\ pending' = pending + NewRevenue.net
  /\ platform' = platform + NewRevenue.commission
  /\ Done(BookingConfirmed(b))
  /\ UNCHANGED <<bookingVars, paymentVars, credited, refunds, cancelRefund,
                 dispute, available, sent, retried, quarantined>>

\* recordBookingRevenue; the row of booking_revenues makes it idempotent
RecordBookingRevenue(b) ==
  /\ Deliverable(BookingConfirmed(b))
  /\ IF revenue[b] = NoRevenue
     THEN /\ revenue' = [revenue EXCEPT ![b] = NewRevenue]
          /\ pending' = pending + NewRevenue.net
          /\ platform' = platform + NewRevenue.commission
     ELSE UNCHANGED <<revenue, pending, platform>>
  /\ Done(BookingConfirmed(b))
  /\ UNCHANGED <<bookingVars, paymentVars, credited, refunds, cancelRefund,
                 dispute, available, sent, retried, quarantined>>

\* creditLatePayment: the price of the booking becomes balance
CreditLatePayment(s) ==
  /\ Deliverable(PaymentTooLate(s))
  /\ Credit(BookingOf(s), Price)
  /\ Done(PaymentTooLate(s))
  /\ UNCHANGED <<bookingVars, paymentVars, refunds, cancelRefund, revenue,
                 dispute, pending, available, platform, sent, retried,
                 quarantined>>

\* the player has paid for b: a payment entry, or a completed intent
PaidByIntent(b) ==
  \E i \in Intents : /\ intent[i] # NoIntent
                     /\ intent[i].booking = b /\ intent[i].status = "completed"

\* Mutant: only a payment entry in the ledger counts.
PaidFromBalance(b) == b \in balancePaid

Paid(b) == b \in balancePaid \/ PaidByIntent(b)

\* BookingCancelled as it is delivered: in order, if the bus keeps the order
CancelDelivered(b, percent) ==
  /\ Deliverable(BookingCancelled(b, percent))
  /\ InOrder => BookingConfirmed(b) \in financeDone

\* the checks of refundCancelledBooking that throw
RefundPossible(b, amount) ==
  /\ revenue[b] # NoRevenue
  /\ Paid(b)
  /\ pending >= amount - Commission(amount)
  /\ platform >= Commission(amount)

\* Mutant: the commission stays with the platform.
RefundWithoutCommission(b, percent) ==
  LET amount == RefundOf(percent) IN
  /\ CancelDelivered(b, percent)
  /\ amount > 0
  /\ b \notin cancelRefund /\ RefundPossible(b, amount)
  /\ refunds' = [refunds EXCEPT ![b] = @ + amount]
  /\ cancelRefund' = cancelRefund \cup {b}
  /\ pending' = pending - (amount - Commission(amount))
  /\ revenue' = [revenue EXCEPT ![b].net = @ - (amount - Commission(amount)),
                                ![b].cancelled = TRUE]
  /\ Done(BookingCancelled(b, percent))
  /\ UNCHANGED <<bookingVars, paymentVars, credited, dispute, available,
                 platform, sent, retried, quarantined>>

\* refundCancelledBooking: the refund, the revenue and the commission together
RefundCancelledBooking(b, percent) ==
  LET amount == RefundOf(percent) IN
  /\ CancelDelivered(b, percent)
  /\ amount > 0
  /\ b \notin cancelRefund /\ RefundPossible(b, amount)
  /\ refunds' = [refunds EXCEPT ![b] = @ + amount]
  /\ cancelRefund' = cancelRefund \cup {b}
  /\ pending' = pending - (amount - Commission(amount))
  /\ platform' = platform - Commission(amount)
  /\ revenue' = [revenue EXCEPT ![b].net = @ - (amount - Commission(amount)),
                                ![b].commission = @ - Commission(amount),
                                ![b].cancelled = TRUE]
  /\ Done(BookingCancelled(b, percent))
  /\ UNCHANGED <<bookingVars, paymentVars, credited, dispute, available,
                 sent, retried, quarantined>>

\* refundCancelledBooking with nothing to refund only marks the revenue row,
\* if there is one.
CloseCancelledBooking(b, percent) ==
  /\ CancelDelivered(b, percent)
  /\ RefundOf(percent) = 0
  /\ revenue' = IF revenue[b] = NoRevenue THEN revenue
                ELSE [revenue EXCEPT ![b].cancelled = TRUE]
  /\ Done(BookingCancelled(b, percent))
  /\ UNCHANGED <<bookingVars, paymentVars, credited, refunds, cancelRefund,
                 dispute, pending, available, platform, sent, retried,
                 quarantined>>

\* refundCancelledBooking throws, and onMessage catches
RefundFails(b, percent) ==
  /\ CancelDelivered(b, percent)
  /\ RefundOf(percent) > 0
  /\ b \notin cancelRefund /\ ~RefundPossible(b, RefundOf(percent))
  /\ Fail(BookingCancelled(b, percent))

-----------------------------------------------------------------------------
(* Finance: release and disputes *)

\* Mutant: an open dispute does not hold the revenue back.
ReleaseDespiteDispute(b) ==
  /\ revenue[b] # NoRevenue
  /\ ~revenue[b].released /\ ~revenue[b].cancelled
  /\ phase[b] = "mature" /\ pending >= revenue[b].net
  /\ pending' = pending - revenue[b].net
  /\ available' = available + revenue[b].net
  /\ revenue' = [revenue EXCEPT ![b].released = TRUE]
  /\ UNCHANGED <<bookingVars, paymentVars, credited, refunds, cancelRefund,
                 dispute, platform, eventVars>>

\* Mutant: the pending partition must exceed the revenue that is released.
ReleaseOfLastNever(b) ==
  /\ revenue[b] # NoRevenue
  /\ ~revenue[b].released /\ ~revenue[b].cancelled
  /\ dispute[b] # "open"
  /\ phase[b] = "mature" /\ pending > revenue[b].net
  /\ pending' = pending - revenue[b].net
  /\ available' = available + revenue[b].net
  /\ revenue' = [revenue EXCEPT ![b].released = TRUE]
  /\ UNCHANGED <<bookingVars, paymentVars, credited, refunds, cancelRefund,
                 dispute, platform, eventVars>>

\* Mutant: the mark of a cancellation is not looked at.
ReleaseCancelled(b) ==
  /\ revenue[b] # NoRevenue
  /\ ~revenue[b].released
  /\ dispute[b] # "open"
  /\ phase[b] = "mature" /\ pending >= revenue[b].net
  /\ pending' = pending - revenue[b].net
  /\ available' = available + revenue[b].net
  /\ revenue' = [revenue EXCEPT ![b].released = TRUE]
  /\ UNCHANGED <<bookingVars, paymentVars, credited, refunds, cancelRefund,
                 dispute, platform, eventVars>>

\* releaseBookingRevenue, which throws when pending is too small
ReleaseBookingRevenue(b) ==
  /\ revenue[b] # NoRevenue
  /\ ~revenue[b].released /\ ~revenue[b].cancelled
  /\ dispute[b] # "open"
  /\ phase[b] = "mature" /\ pending >= revenue[b].net
  /\ pending' = pending - revenue[b].net
  /\ available' = available + revenue[b].net
  /\ revenue' = [revenue EXCEPT ![b].released = TRUE]
  /\ UNCHANGED <<bookingVars, paymentVars, credited, refunds, cancelRefund,
                 dispute, platform, eventVars>>

\* what createDispute asks of the booking, the owner of the payment aside
DisputeWindow(b) ==
  /\ revenue[b] # NoRevenue
  /\ ~revenue[b].cancelled /\ ~revenue[b].released
  /\ phase[b] = "ended" /\ dispute[b] = "none"

\* createDispute looks for a completed payment intent of the player
CreateDispute(b) ==
  /\ DisputeWindow(b) /\ PaidByIntent(b)
  /\ dispute' = [dispute EXCEPT ![b] = "open"]
  /\ UNCHANGED <<bookingVars, paymentVars, credited, refunds, cancelRefund,
                 revenue, pending, available, platform, eventVars>>

\* resolveDispute: rejected, full_refund or partial_refund of amount; the
\* remaining net revenue is released in the same transaction.
ResolveDispute(b, amount) ==
  LET back == amount - Commission(amount)
      left == revenue[b].net - back
  IN
  /\ dispute[b] = "open" /\ ~revenue[b].released
  /\ amount <= revenue[b].net + revenue[b].commission
  /\ back <= revenue[b].net /\ Commission(amount) <= revenue[b].commission
  /\ pending >= back + left
  /\ platform >= Commission(amount)
  /\ refunds' = [refunds EXCEPT ![b] = @ + amount]
  /\ pending' = pending - (back + left)
  /\ available' = available + left
  /\ platform' = platform - Commission(amount)
  /\ revenue' = [revenue EXCEPT ![b].net = left,
                                ![b].commission = @ - Commission(amount),
                                ![b].released = TRUE]
  /\ dispute' = [dispute EXCEPT ![b] = "resolved"]
  /\ UNCHANGED <<bookingVars, paymentVars, credited, cancelRefund, eventVars>>

\* the decisions of an administrator, as amounts
Decisions(b) == PartialRefunds \cup {0, revenue[b].net + revenue[b].commission}

-----------------------------------------------------------------------------
(* The specification *)

Venue(b) ==
  \/ Lapse(b) \/ Advance(b) \/ ReapExpiredBooking(b) \/ CompleteBooking(b)
  \/ LeaveCheckout(b) \/ ReadExpiredBooking(b) \/ HealBooking(b)
  \/ \E percent \in RefundPercents : CancelBooking(b, percent)

TransferStep(t) ==
  \/ AskForTransfer(t) \/ RecordUnmatched(t) \/ IgnoreRecordedTransfer(t)
  \/ CreditLateTransfer(t) \/ AcceptTransfer(t) \/ AllocationRefused(t)
  \/ CreditPartialTransfer(t)

Player ==
  \/ \E b \in Bookings : AskForBalancePayment(b)
  \/ \E i \in Intents, b \in Bookings : CreateIntent(i, b)
  \/ \E t \in Transfers, i \in Intents, a \in Amounts : MakeTransfer(t, i, a)
  \/ \E b \in Bookings : CreateDispute(b)

FinanceEvent ==
  \/ \E b \in Bookings : RecordBookingRevenue(b)
  \/ \E s \in Sources : CreditLatePayment(s)
  \/ \E b \in Bookings, percent \in RefundPercents :
       \/ RefundCancelledBooking(b, percent)
       \/ CloseCancelledBooking(b, percent)
       \/ RefundFails(b, percent)

Finance ==
  \/ \E b \in Bookings : PayWithBalance(b)
  \/ \E t \in Transfers : TransferStep(t)
  \/ FinanceEvent
  \/ \E b \in Bookings : ReleaseBookingRevenue(b)
  \/ \E b \in Bookings :
       dispute[b] = "open" /\ \E a \in Decisions(b) : ResolveDispute(b, a)

Next ==
  \/ \E b \in Bookings : Venue(b)
  \/ \E s \in Sources : HandlePaymentCompleted(s)
  \/ Player
  \/ Finance

Spec == Init /\ [][Next]_vars

\* what time does to a booking
ClockRuns(b) == Lapse(b) \/ Advance(b)

\* the second half of a request that has read the booking
RequestEnds(b) == HealBooking(b) \/ PayWithBalance(b)

\* The clock runs, consumers are given what they have not acknowledged, SePay
\* repeats a webhook until it is answered, a request that has read a booking
\* ends, and the revenue scheduler comes to every row.
Fairness ==
  /\ \A b \in Bookings : /\ WF_vars(ClockRuns(b)) /\ WF_vars(RequestEnds(b))
                         /\ WF_vars(ReleaseBookingRevenue(b))
  /\ \A t \in Transfers : WF_vars(TransferStep(t))
  /\ \A s \in Sources : WF_vars(HandlePaymentCompleted(s))
  /\ WF_vars(FinanceEvent)

FairSpec == Spec /\ Fairness

-----------------------------------------------------------------------------
(* Properties *)

\* the transfers for b that finance has recorded in one of the ways, and what
\* they brought
Brought(b, kinds) ==
  [t \in Transfers |-> IF receipt[t] \in kinds /\ BookingOf(t) = b
                       THEN transfer[t].amount ELSE 0]

\* what the player has paid for b, and finance or the bank has taken
MoneyIn(b) ==
  (IF b \in balancePaid THEN Price ELSE 0)
    + SumFunction(Brought(b, {"unmatched", "late", "booking", "partial"}))

\* payments between the services: taken, and not yet revenue or balance
InFlight(b) ==
  Cardinality(PaymentsOf(b) \ venueDone)
    + Cardinality({s \in Sources :
                     Deliverable(PaymentTooLate(s)) /\ BookingOf(s) = b})
    + (IF Deliverable(BookingConfirmed(b)) THEN 1 ELSE 0)

\* payments venue acknowledged without a booking to confirm or refuse
Dropped(b) == {s \in PaymentsOf(b) \cap venueDone : status[b] = "deleted"}

\* what waits for a manual match
Unmatched(b) == SumFunction(Brought(b, {"unmatched"}))

\* bookings with revenue, and those whose revenue is available
Recorded == {b \in Bookings : revenue[b] # NoRevenue}
Released == {b \in Recorded : revenue[b].released}

\* the net revenue that waits for its release, and the commissions
NetHeld == [b \in Bookings |-> IF b \in Recorded \ Released THEN revenue[b].net ELSE 0]
CommissionsHeld == [b \in Bookings |-> IF b \in Recorded THEN revenue[b].commission ELSE 0]

RevenueLeft(b) ==
  IF revenue[b] = NoRevenue THEN 0 ELSE revenue[b].net + revenue[b].commission

\* BR-FIN-15 and BR-FIN-17: every amount paid for a booking is in one place:
\* balance, refund, what is left of its revenue and commission, the queue for
\* manual matching, or on its way; dropped payments are counted on their own.
MoneyConserved ==
  \A b \in Bookings :
    MoneyIn(b) = credited[b] + refunds[b] + RevenueLeft(b) + Unmatched(b)
                   + Price * (InFlight(b) + Cardinality(Dropped(b)))

\* BR-FIN-15 for one booking: what was refunded and what is left of the
\* revenue and the commission add up to the price, after every cancellation
\* and every dispute.
RevenueConserved ==
  \A b \in Bookings :
    revenue[b] # NoRevenue =>
      refunds[b] + revenue[b].net + revenue[b].commission = Price

\* What the proofs add to TypeOK.  Payments and transfers are known to finance
\* before they are acted on.
PaymentsKnown ==
  /\ \A t \in Transfers :
       transfer[t] # NoTransfer => intent[transfer[t].intent] # NoIntent
  /\ \A s \in Sources :
       PaymentCompleted(s) \in sent \/ PaymentTooLate(s) \in sent
       => s \in Bookings \/ transfer[s] # NoTransfer

\* A booking without revenue has seen neither refund nor dispute.  Until it is
\* released or refunded, revenue is what was recorded; it is never negative
\* before it is released, and an open dispute keeps it from being released.
RevenueHistory ==
  \A b \in Bookings :
    /\ revenue[b] = NoRevenue =>
         refunds[b] = 0 /\ dispute[b] = "none" /\ b \notin cancelRefund
    /\ revenue[b] # NoRevenue /\ ~revenue[b].released =>
         /\ revenue[b].net >= 0 /\ revenue[b].commission >= 0
         /\ b \notin cancelRefund =>
              /\ revenue[b].net = Price - Commission(Price)
              /\ revenue[b].commission = Commission(Price)
    /\ dispute[b] = "open" => ~revenue[b].released

SagaInv == TypeOK /\ PaymentsKnown /\ RevenueHistory /\ RevenueConserved

\* BR-FIN-16: the pending partition is the net revenue of the bookings that
\* are not released, and the platform holds the commissions that are left.
PendingIsOwed ==
  /\ pending = SumFunction(NetHeld)
  /\ platform = SumFunction(CommissionsHeld)

\* venue has told finance that b is cancelled
CancellationSent(b) == \E p \in RefundPercents : BookingCancelled(b, p) \in sent

\* A booking whose cancellation was sent, refunded or not, is not disputed for
\* a second refund (the comment in refundCancelledBooking).  A booking that
\* HealBooking cancels after it was paid may be: finance is not told of it.
CancellationIsUndisputed ==
  \A b \in Bookings : CancellationSent(b) => dispute[b] = "none"

\* FIN-08: a booking cancelled with a full refund never pays the provider.
FullRefundNeverReleased ==
  \A b \in Bookings :
    BookingCancelled(b, 100) \in sent /\ revenue[b] # NoRevenue
    => ~revenue[b].released

\* D11: while a dispute is open its revenue stays in pending.
DisputedRevenueIsHeld ==
  \A b \in Bookings : dispute[b] = "open" => ~revenue[b].released

\* FIN-06: a payment that was taken is not dropped.
NoPaymentDropped == \A b \in Bookings : Dropped(b) = {}

\* FIN-06 and BOK-07: a payment that finance took for a booking the player has
\* not left is refused and credited, or accepted and recorded as revenue.
PaymentIsSettled ==
  \A s \in Sources, b \in Bookings :
    s \in PaymentsOf(b)
    ~> \/ PaymentTooLate(s) \in financeDone
       \/ s \in venueDone /\ PaymentTooLate(s) \notin sent /\ revenue[b] # NoRevenue
       \/ status[b] = "deleted"

\* FIN-08: a cancellation with a full refund is refunded in full.
FullRefundIsPaid ==
  \A b \in Bookings :
    BookingCancelled(b, 100) \in sent ~> refunds[b] = Price

\* BR-FIN-06: the revenue of a booking is released, unless finance was told of
\* its cancellation or its dispute is open.
PlayedRevenueIsReleased ==
  \A b \in Bookings :
    b \in Recorded ~> b \in Released \/ CancellationSent(b) \/ dispute[b] = "open"
=============================================================================
