-------------------------- MODULE BookingSagaProofs --------------------------
(***************************************************************************)
(* What holds in BookingSaga for every number of bookings, intents and     *)
(* transfers, for every price and every amount, and with events delivered  *)
(* in any order.                                                           *)
(*                                                                         *)
(* SagaInv is inductive: every action preserves its four parts.  The type  *)
(* invariant needs the other three, because an amount that is subtracted   *)
(* from a balance must not exceed it, and the dispute of a booking starts  *)
(* from what RevenueHistory says of its revenue.                           *)
(*                                                                         *)
(* HistoryInv, also for any order, ties the events to the rows they come   *)
(* from, and with it MoneyConserved is an invariant.  EarlyInv and         *)
(* OrderInv hold where BeforeEnd and InOrder do, which the theorems that   *)
(* need them have as hypotheses.                                           *)
(***************************************************************************)
EXTENDS BookingSaga, SetSums, TLAPS

-----------------------------------------------------------------------------
(* Money *)

\* A commission is a part of the amount it is taken from.
LEMMA CommissionIsPart ==
  ASSUME NEW amount \in Nat
  PROVE  Commission(amount) \in Nat /\ Commission(amount) <= amount
BY DEF Commission

\* Both parts of a smaller amount are smaller: a partial refund never takes
\* more commission, or more net revenue, than was recorded.
LEMMA CommissionIsMonotonic ==
  ASSUME NEW x \in Nat, NEW y \in Nat, x <= y
  PROVE  /\ Commission(x) <= Commission(y)
         /\ x - Commission(x) <= y - Commission(y)
BY DEF Commission

\* No tier of CANCELLATION_POLICY refunds more than the price.
LEMMA RefundIsWithinPrice ==
  ASSUME NEW percent \in RefundPercents
  PROVE  RefundOf(percent) \in Nat /\ RefundOf(percent) <= Price
<1>1. Price \in Nat
  BY PriceAssumption
<1>2. CASE percent = 100
  BY <1>1, <1>2 DEF RefundOf
<1>3. CASE percent = 50
  BY <1>1, <1>3 DEF RefundOf
<1>4. CASE percent = 0
  BY <1>1, <1>4 DEF RefundOf
<1>5. QED
  BY <1>2, <1>3, <1>4 DEF RefundPercents

-----------------------------------------------------------------------------
(* What a step leaves alone *)

\* A payment or a transfer that finance knows of is for some booking.
LEMMA PaymentHasBooking ==
  ASSUME TypeOK, PaymentsKnown, NEW s \in Sources,
         \/ PaymentCompleted(s) \in sent
         \/ PaymentTooLate(s) \in sent
         \/ s \in Transfers /\ transfer[s] # NoTransfer
  PROVE  /\ BookingOf(s) \in Bookings
         /\ s \in Bookings \/ transfer[s] # NoTransfer
<1>1. s \in Bookings \/ (s \in Transfers /\ transfer[s] # NoTransfer)
  BY DEF PaymentsKnown, Sources
<1>2. CASE s \in Bookings
  BY <1>2 DEF BookingOf
<1>3. CASE s \notin Bookings
  <2>1. s \in Transfers /\ transfer[s] \in Transfer
    BY <1>1, <1>3 DEF TypeOK
  <2>2. transfer[s].intent \in Intents /\ intent[transfer[s].intent] \in Intent
    BY <1>1, <1>3, <2>1 DEF TypeOK, PaymentsKnown, Transfer
  <2>3. QED
    BY <1>1, <1>3, <2>2 DEF BookingOf, Intent
<1>4. QED
  BY <1>1, <1>2, <1>3

\* The refunds, the revenue and the disputes carry both invariants of revenue.
LEMMA RevenueUntouched ==
  ASSUME RevenueHistory, RevenueConserved,
         UNCHANGED <<refunds, cancelRefund, revenue, dispute>>
  PROVE  RevenueHistory' /\ RevenueConserved'
BY DEF RevenueHistory, RevenueConserved

\* So do the intents, the transfers and the events for PaymentsKnown.
LEMMA PaymentsUntouched ==
  ASSUME PaymentsKnown, UNCHANGED <<intent, transfer, sent>>
  PROVE  PaymentsKnown'
BY DEF PaymentsKnown, PaymentCompleted, PaymentTooLate, Event

-----------------------------------------------------------------------------
(* Venue *)

\* What happens to a booking changes neither payments nor money, and only a
\* cancellation is published.
LEMMA VenueLeaves ==
  ASSUME NEW b \in Bookings, Venue(b)
  PROVE  /\ UNCHANGED <<venueDone, confirming, paymentVars, moneyVars, financeDone,
                        retried, quarantined>>
         /\ (\E p \in RefundPercents : CancelBooking(b, p)) \/ sent' = sent
BY DEF Venue, Lapse, Advance, ReapExpiredBooking, CompleteBooking, LeaveCheckout,
       CancelBooking, ReadExpiredBooking, HealBooking, readVars, eventVars

\* The answer of venue to a payment changes neither payments nor money.
LEMMA AnswerLeaves ==
  ASSUME NEW s \in Sources, HandlePaymentCompleted(s)
  PROVE  /\ UNCHANGED <<lapsed, phase, healing, paymentVars, moneyVars, financeDone,
                        retried, quarantined>>
         /\ sent \subseteq sent' /\ venueDone \subseteq venueDone'
BY DEF HandlePaymentCompleted, ReadPayableBooking, ConfirmBooking, FindNoBooking,
       RefusePayment, readVars, eventVars

\* The clock, the schedulers and the cancellations keep the invariant.
LEMMA VenueKeepsInv ==
  ASSUME SagaInv, NEW b \in Bookings, Venue(b)
  PROVE  SagaInv'
<1>1. TypeOK'
  <2>1. CASE Lapse(b)
    BY <2>1 DEF SagaInv, TypeOK, Lapse, readVars, paymentVars, moneyVars, eventVars
  <2>2. CASE Advance(b)
    BY <2>2 DEF SagaInv, TypeOK, Advance, readVars, paymentVars, moneyVars, eventVars
  <2>3. CASE ReapExpiredBooking(b)
    BY <2>3 DEF SagaInv, TypeOK, ReapExpiredBooking, readVars, paymentVars, moneyVars,
                eventVars
  <2>4. CASE CompleteBooking(b)
    BY <2>4 DEF SagaInv, TypeOK, CompleteBooking, readVars, paymentVars, moneyVars,
                eventVars
  <2>5. CASE LeaveCheckout(b)
    BY <2>5 DEF SagaInv, TypeOK, LeaveCheckout, readVars, paymentVars, moneyVars,
                eventVars
  <2>6. ASSUME NEW percent \in RefundPercents, CancelBooking(b, percent)
        PROVE  TypeOK'
    <3>1. BookingCancelled(b, percent) \in Events
      BY DEF BookingCancelled, Event, Events
    <3>2. QED
      BY <2>6, <3>1 DEF SagaInv, TypeOK, CancelBooking, readVars, paymentVars, moneyVars
  <2>7. CASE ReadExpiredBooking(b)
    BY <2>7 DEF SagaInv, TypeOK, ReadExpiredBooking, paymentVars, moneyVars,
                eventVars
  <2>8. CASE HealBooking(b)
    BY <2>8 DEF SagaInv, TypeOK, HealBooking, paymentVars, moneyVars, eventVars
  <2>9. QED
    BY <2>1, <2>2, <2>3, <2>4, <2>5, <2>6, <2>7, <2>8 DEF Venue
<1>2. PaymentsKnown'
  <2>1. UNCHANGED <<intent, transfer>>
    BY VenueLeaves DEF paymentVars
  <2>2. \A e \in sent' \ sent : e.type = "BookingCancelled"
    BY VenueLeaves DEF CancelBooking, BookingCancelled, Event
  <2>3. QED
    BY <2>1, <2>2 DEF SagaInv, PaymentsKnown, PaymentCompleted, PaymentTooLate,
                      Event
<1>3. UNCHANGED moneyVars
  BY VenueLeaves
<1>4. QED
  BY <1>1, <1>2, <1>3, RevenueUntouched DEF SagaInv, moneyVars

\* So does the answer of venue to a payment.
LEMMA PaymentHandledKeepsInv ==
  ASSUME SagaInv, NEW s \in Sources, HandlePaymentCompleted(s)
  PROVE  SagaInv'
<1> DEFINE b == BookingOf(s)
<1>1. PaymentCompleted(s) \in sent
  BY DEF HandlePaymentCompleted
<1>2. b \in Bookings /\ (s \in Bookings \/ transfer[s] # NoTransfer)
  BY <1>1, PaymentHasBooking DEF SagaInv
<1>3. PaymentTooLate(s) \in Events /\ BookingConfirmed(b) \in Events
  BY <1>2 DEF PaymentTooLate, BookingConfirmed, Event, Events
<1>4. /\ sent \subseteq sent'
      /\ sent' \subseteq sent \cup {PaymentTooLate(s), BookingConfirmed(b)}
  BY DEF HandlePaymentCompleted, ReadPayableBooking, ConfirmBooking, FindNoBooking,
         RefusePayment, eventVars
<1>5. status' \in [Bookings ->
                     {"held", "confirmed", "cancelled", "completed", "deleted"}]
  BY <1>2
  DEF SagaInv, TypeOK, HandlePaymentCompleted, ReadPayableBooking, ConfirmBooking,
      FindNoBooking, RefusePayment, CancelHeld
<1>6. TypeOK'
  <2>1. /\ venueDone' \subseteq venueDone \cup {s}
        /\ confirming' \subseteq confirming \cup {s}
    BY DEF HandlePaymentCompleted, ReadPayableBooking, ConfirmBooking, FindNoBooking,
           RefusePayment, readVars
  <2>2. QED
    BY <1>3, <1>4, <1>5, <2>1, AnswerLeaves DEF SagaInv, TypeOK, paymentVars, moneyVars
<1>7. PaymentsKnown'
  <2>1. UNCHANGED <<intent, transfer>>
    BY AnswerLeaves DEF paymentVars
  <2>2. \A r \in Sources :
          \/ PaymentCompleted(r) \in sent' \/ PaymentTooLate(r) \in sent'
          => r = s \/ PaymentCompleted(r) \in sent \/ PaymentTooLate(r) \in sent
    BY <1>4 DEF PaymentCompleted, PaymentTooLate, BookingConfirmed, Event
  <2>3. QED
    BY <1>2, <2>1, <2>2 DEF SagaInv, PaymentsKnown, PaymentCompleted,
                            PaymentTooLate, Event
<1>8. QED
  BY <1>6, <1>7, RevenueUntouched, AnswerLeaves DEF SagaInv, moneyVars

-----------------------------------------------------------------------------
(* The player and the payments *)

\* What a player does keeps the invariant.
LEMMA PlayerKeepsInv ==
  ASSUME SagaInv, Player
  PROVE  SagaInv'
<1>1. ASSUME NEW b \in Bookings, AskForBalancePayment(b)
      PROVE  SagaInv'
  <2>1. TypeOK'
    <3>1. <<b, TRUE>> \in Sources \X BOOLEAN
      BY DEF Sources
    <3>2. QED
      BY <1>1, <3>1 DEF SagaInv, TypeOK, AskForBalancePayment, bookingVars, readVars,
                        moneyVars, eventVars
  <2>2. QED
    BY <1>1, <2>1, RevenueUntouched, PaymentsUntouched
    DEF SagaInv, AskForBalancePayment, moneyVars, eventVars
<1>2. ASSUME NEW i \in Intents, NEW b \in Bookings, CreateIntent(i, b)
      PROVE  SagaInv'
  <2>1. [booking |-> b, status |-> "pending"] \in Intent
    BY DEF Intent
  <2>2. TypeOK'
    BY <1>2, <2>1 DEF SagaInv, TypeOK, CreateIntent, bookingVars, readVars, moneyVars,
                      eventVars
  <2>3. \A j \in Intents : intent[j] # NoIntent => intent'[j] # NoIntent
    BY <1>2, <2>1, RowAssumption DEF SagaInv, TypeOK, CreateIntent
  <2>4. PaymentsKnown'
    <3>1. \A t \in Transfers :
            transfer[t] # NoTransfer => transfer[t].intent \in Intents
      BY DEF SagaInv, TypeOK, Transfer
    <3>2. QED
      BY <1>2, <2>3, <3>1
      DEF SagaInv, PaymentsKnown, CreateIntent, eventVars, PaymentCompleted,
          PaymentTooLate, Event
  <2>5. QED
    BY <1>2, <2>2, <2>4, RevenueUntouched DEF SagaInv, CreateIntent, moneyVars
<1>3. ASSUME NEW t \in Transfers, NEW i \in Intents, NEW a \in Amounts,
             MakeTransfer(t, i, a)
      PROVE  SagaInv'
  <2>1. [intent |-> i, amount |-> a] \in Transfer
    BY DEF Transfer
  <2>2. TypeOK'
    BY <1>3, <2>1 DEF SagaInv, TypeOK, MakeTransfer, bookingVars, readVars, moneyVars,
                      eventVars
  <2>3. PaymentsKnown'
    <3>1. transfer'[t] # NoTransfer /\ intent'[transfer'[t].intent] # NoIntent
      BY <1>3, <2>1, RowAssumption DEF SagaInv, TypeOK, MakeTransfer
    <3>2. \A r : r # t => transfer'[r] = transfer[r]
      BY <1>3 DEF SagaInv, TypeOK, MakeTransfer
    <3>3. QED
      BY <1>3, <3>1, <3>2
      DEF SagaInv, PaymentsKnown, MakeTransfer, eventVars, PaymentCompleted,
          PaymentTooLate, Event
  <2>4. QED
    BY <1>3, <2>2, <2>3, RevenueUntouched DEF SagaInv, MakeTransfer, moneyVars
<1>4. ASSUME NEW b \in Bookings, CreateDispute(b)
      PROVE  SagaInv'
  <2>1. TypeOK'
    BY <1>4 DEF SagaInv, TypeOK, CreateDispute, bookingVars, readVars, paymentVars,
                eventVars
  <2>2. PaymentsKnown'
    BY <1>4, PaymentsUntouched DEF SagaInv, CreateDispute, paymentVars, eventVars
  <2>3. revenue[b] # NoRevenue /\ ~revenue[b].released
    BY <1>4 DEF CreateDispute, DisputeWindow
  <2>4. RevenueHistory' /\ RevenueConserved'
    BY <1>4, <2>3
    DEF SagaInv, TypeOK, RevenueHistory, RevenueConserved, CreateDispute
  <2>5. QED
    BY <2>1, <2>2, <2>4 DEF SagaInv
<1>5. QED
  BY <1>1, <1>2, <1>3, <1>4 DEF Player

\* A transfer is asked about and taken in a step each; every one of them keeps
\* the invariant, whatever happened in between.
LEMMA TransferKeepsInv ==
  ASSUME SagaInv, NEW t \in Transfers, TransferStep(t)
  PROVE  SagaInv'
<1> DEFINE b == BookingOf(t)
<1> DEFINE i == transfer[t].intent
<1>1. ASSUME Unrecorded(t)
      PROVE  /\ b \in Bookings /\ transfer[t] \in Transfer
             /\ i \in Intents /\ intent[i] \in Intent
  <2>1. transfer[t] # NoTransfer /\ transfer[t] \in Transfer
    BY <1>1 DEF Unrecorded, SagaInv, TypeOK
  <2>2. i \in Intents /\ intent[i] \in Intent
    BY <2>1 DEF SagaInv, TypeOK, PaymentsKnown, Transfer
  <2>3. b \in Bookings
    BY <2>1, PaymentHasBooking DEF SagaInv, Sources
  <2>4. QED
    BY <2>1, <2>2, <2>3
<1>2. CASE AskForTransfer(t)
  <2>1. TypeOK'
    <3>1. <<t, Payable(b)>> \in Sources \X BOOLEAN
      BY DEF Sources, Payable
    <3>2. asked' \subseteq Sources \X BOOLEAN
      BY <1>2, <3>1
      DEF SagaInv, TypeOK, AskForTransfer, ReadExpiredBooking, paymentVars
    <3>3. b \in Bookings
      BY <1>1, <1>2 DEF AskForTransfer
    <3>4. healing' \subseteq Bookings
      BY <1>2, <3>3
      DEF SagaInv, TypeOK, AskForTransfer, ReadExpiredBooking, bookingVars, readVars
    <3>5. UNCHANGED <<status, lapsed, phase, venueDone, confirming>>
      BY <1>2 DEF AskForTransfer, ReadExpiredBooking, bookingVars, readVars
    <3>6. QED
      BY <1>2, <3>2, <3>4, <3>5
      DEF SagaInv, TypeOK, AskForTransfer, ReadExpiredBooking, paymentVars, moneyVars,
          eventVars
  <2>2. QED
    BY <1>2, <2>1, RevenueUntouched, PaymentsUntouched
    DEF SagaInv, AskForTransfer, ReadExpiredBooking, paymentVars, moneyVars, eventVars
<1>3. CASE RecordUnmatched(t)
  <2>1. TypeOK'
    BY <1>3 DEF SagaInv, TypeOK, RecordUnmatched, Record, bookingVars, readVars,
                moneyVars, eventVars
  <2>2. QED
    BY <1>3, <2>1, RevenueUntouched, PaymentsUntouched
    DEF SagaInv, RecordUnmatched, moneyVars, eventVars
<1>4. CASE IgnoreRecordedTransfer(t)
  <2>1. TypeOK'
    BY <1>4 DEF SagaInv, TypeOK, IgnoreRecordedTransfer, bookingVars, readVars,
                moneyVars, eventVars
  <2>2. QED
    BY <1>4, <2>1, RevenueUntouched, PaymentsUntouched
    DEF SagaInv, IgnoreRecordedTransfer, moneyVars, eventVars
<1>5. ASSUME NEW result \in {"completed", "failed"}, Unrecorded(t),
             SetIntent(t, result)
      PROVE  /\ intent' \in [Intents -> Intent \cup {NoIntent}]
             /\ \A j \in Intents : intent[j] # NoIntent => intent'[j] # NoIntent
  <2>1. [intent[i] EXCEPT !.status = result] \in Intent
    BY <1>1, <1>5 DEF Intent
  <2>2. intent' = [intent EXCEPT ![i] = [intent[i] EXCEPT !.status = result]]
    BY <1>5 DEF SetIntent
  <2>3. intent' \in [Intents -> Intent \cup {NoIntent}]
    BY <1>1, <1>5, <2>1, <2>2 DEF SagaInv, TypeOK
  <2>4. \A j \in Intents : intent[j] # NoIntent => intent'[j] # NoIntent
    BY <1>1, <1>5, <2>1, <2>2, RowAssumption DEF SagaInv, TypeOK
  <2>5. QED
    BY <2>3, <2>4
<1>6. ASSUME NEW amount \in Nat, Unrecorded(t), Credit(b, amount)
      PROVE  credited' \in [Bookings -> Nat]
  BY <1>1, <1>6 DEF SagaInv, TypeOK, Credit
<1>7. ASSUME NEW kind \in {"late", "booking", "partial"}, Record(t, kind)
      PROVE  receipt' \in [Transfers ->
               {"none", "unmatched", "late", "booking", "partial"}]
  BY <1>7 DEF SagaInv, TypeOK, Record
<1>8. CASE CreditLateTransfer(t)
  <2>1. Unrecorded(t) /\ SetIntent(t, "failed")
    BY <1>8 DEF CreditLateTransfer
  <2>2. transfer[t].amount \in Nat
    BY <1>1, <2>1, AmountsAssumption DEF Transfer
  <2>3. TypeOK'
    <3>1. credited' \in [Bookings -> Nat]
      BY <1>6, <1>8, <2>1, <2>2 DEF CreditLateTransfer
    <3>2. receipt' \in [Transfers ->
            {"none", "unmatched", "late", "booking", "partial"}]
      BY <1>7, <1>8 DEF CreditLateTransfer
    <3>3. QED
      BY <1>5, <1>8, <2>1, <3>1, <3>2
      DEF SagaInv, TypeOK, CreditLateTransfer, bookingVars, readVars, eventVars
  <2>4. PaymentsKnown'
    <3>1. \A r \in Transfers :
            transfer[r] # NoTransfer => transfer[r].intent \in Intents
      BY DEF SagaInv, TypeOK, Transfer
    <3>2. QED
      BY <1>5, <1>8, <2>1, <3>1
      DEF SagaInv, PaymentsKnown, CreditLateTransfer, eventVars,
          PaymentCompleted, PaymentTooLate, Event
  <2>5. QED
    BY <1>8, <2>3, <2>4, RevenueUntouched DEF SagaInv, CreditLateTransfer
<1>9. CASE AcceptTransfer(t)
  <2>1. Unrecorded(t) /\ SetIntent(t, "completed")
    BY <1>9 DEF AcceptTransfer
  <2>2. transfer[t].amount - Price \in Nat
    <3>1. transfer[t].amount \in Nat
      BY <1>1, <2>1, AmountsAssumption DEF Transfer
    <3>2. transfer[t].amount >= Price
      BY <1>9 DEF AcceptTransfer
    <3>3. QED
      BY <3>1, <3>2, PriceAssumption
  <2>3. PaymentCompleted(t) \in Events
    BY DEF PaymentCompleted, Event, Events, Sources
  <2>4. TypeOK'
    <3>1. credited' \in [Bookings -> Nat]
      BY <1>6, <1>9, <2>1, <2>2 DEF AcceptTransfer
    <3>2. receipt' \in [Transfers ->
            {"none", "unmatched", "late", "booking", "partial"}]
      BY <1>7, <1>9 DEF AcceptTransfer
    <3>3. QED
      BY <1>5, <1>9, <2>1, <2>3, <3>1, <3>2
      DEF SagaInv, TypeOK, AcceptTransfer, bookingVars, readVars
  <2>5. PaymentsKnown'
    <3>1. \A r \in Transfers :
            transfer[r] # NoTransfer => transfer[r].intent \in Intents
      BY DEF SagaInv, TypeOK, Transfer
    <3>2. transfer[t] # NoTransfer
      BY <2>1 DEF Unrecorded
    <3>3. QED
      BY <1>5, <1>9, <2>1, <3>1, <3>2
      DEF SagaInv, PaymentsKnown, AcceptTransfer, PaymentCompleted,
          PaymentTooLate, Event
  <2>6. QED
    BY <1>9, <2>4, <2>5, RevenueUntouched DEF SagaInv, AcceptTransfer
<1>10. CASE CreditPartialTransfer(t)
  <2>1. Unrecorded(t)
    BY <1>10 DEF CreditPartialTransfer
  <2>2. transfer[t].amount \in Nat
    BY <1>1, <2>1, AmountsAssumption DEF Transfer
  <2>3. TypeOK'
    <3>1. credited' \in [Bookings -> Nat]
      BY <1>6, <1>10, <2>1, <2>2 DEF CreditPartialTransfer
    <3>2. receipt' \in [Transfers ->
            {"none", "unmatched", "late", "booking", "partial"}]
      BY <1>7, <1>10 DEF CreditPartialTransfer
    <3>3. QED
      BY <1>10, <3>1, <3>2
      DEF SagaInv, TypeOK, CreditPartialTransfer, bookingVars, readVars, eventVars
  <2>4. QED
    BY <1>10, <2>3, RevenueUntouched, PaymentsUntouched
    DEF SagaInv, CreditPartialTransfer, eventVars
<1>11. CASE AllocationRefused(t)
  <2>1. TypeOK'
    BY <1>11 DEF SagaInv, TypeOK, AllocationRefused, bookingVars, readVars, moneyVars,
                 eventVars
  <2>2. QED
    BY <1>11, <2>1, RevenueUntouched, PaymentsUntouched
    DEF SagaInv, AllocationRefused, moneyVars, eventVars
<1>12. QED
  BY <1>2, <1>3, <1>4, <1>8, <1>9, <1>10, <1>11 DEF TransferStep

\* The transaction of payBookingWithBalance keeps the invariant.
LEMMA BalancePaymentKeepsInv ==
  ASSUME SagaInv, NEW b \in Bookings, PayWithBalance(b)
  PROVE  SagaInv'
<1>1. PaymentCompleted(b) \in Events
  BY DEF PaymentCompleted, Event, Events, Sources
<1>2. TypeOK'
  BY <1>1 DEF SagaInv, TypeOK, PayWithBalance, bookingVars, readVars, moneyVars
<1>3. PaymentsKnown'
  BY DEF SagaInv, PaymentsKnown, PayWithBalance, PaymentCompleted,
         PaymentTooLate, Event
<1>4. QED
  BY <1>2, <1>3, RevenueUntouched DEF SagaInv, PayWithBalance, moneyVars

-----------------------------------------------------------------------------
(* Revenue, refunds and disputes *)

\* A row of booking_revenues that is written keeps the invariant of its booking
\* and those of all the others.
LEMMA RevenueRowWritten ==
  ASSUME TypeOK, RevenueHistory, RevenueConserved, NEW b \in Bookings,
         NEW row \in Revenue, revenue' = [revenue EXCEPT ![b] = row],
         \A c \in Bookings \ {b} :
           /\ refunds'[c] = refunds[c] /\ dispute'[c] = dispute[c]
           /\ c \in cancelRefund' <=> c \in cancelRefund,
         refunds'[b] + row.net + row.commission = Price,
         ~row.released =>
           /\ row.net >= 0 /\ row.commission >= 0
           /\ b \notin cancelRefund' =>
                /\ row.net = Price - Commission(Price)
                /\ row.commission = Commission(Price),
         dispute'[b] = "open" => ~row.released
  PROVE  RevenueHistory' /\ RevenueConserved'
<1>1. revenue'[b] = row /\ row # NoRevenue
  BY RowAssumption DEF TypeOK
<1>2. \A c \in Bookings \ {b} : revenue'[c] = revenue[c]
  BY DEF TypeOK
<1>3. QED
  BY <1>1, <1>2 DEF RevenueHistory, RevenueConserved

\* The row of b after a refund, and after the decision of a dispute.
RefundedRow(b, percent) ==
  LET amount == RefundOf(percent) IN
  [net |-> revenue[b].net - (amount - Commission(amount)),
   commission |-> revenue[b].commission - Commission(amount),
   cancelled |-> TRUE, released |-> revenue[b].released]

ResolvedRow(b, amount) ==
  [net |-> revenue[b].net - (amount - Commission(amount)),
   commission |-> revenue[b].commission - Commission(amount),
   cancelled |-> revenue[b].cancelled, released |-> TRUE]

LEMMA RefundWritesRow ==
  ASSUME SagaInv, NEW b \in Bookings, NEW percent \in RefundPercents,
         RefundCancelledBooking(b, percent)
  PROVE  /\ revenue[b] \in Revenue
         /\ revenue' = [revenue EXCEPT ![b] = RefundedRow(b, percent)]
<1> DEFINE amount == RefundOf(percent)
<1> DEFINE net == revenue[b].net - (amount - Commission(amount))
<1> DEFINE commission == revenue[b].commission - Commission(amount)
<1>1. revenue[b] # NoRevenue
  BY DEF RefundCancelledBooking, RefundPossible
<1>2. revenue' = [revenue EXCEPT ![b].net = net,
                                 ![b].commission = commission,
                                 ![b].cancelled = TRUE]
  BY DEF RefundCancelledBooking
<1>3. revenue \in [Bookings -> Revenue \cup {NoRevenue}] /\ revenue[b] \in Revenue
  BY <1>1 DEF SagaInv, TypeOK
<1>4. revenue[b] = [net |-> revenue[b].net,
                    commission |-> revenue[b].commission,
                    cancelled |-> revenue[b].cancelled,
                    released |-> revenue[b].released]
  BY <1>3 DEF Revenue
<1> HIDE DEF net, commission
<1>5. DOMAIN revenue' = Bookings
      /\ \A c \in Bookings \ {b} : revenue'[c] = revenue[c]
  BY <1>2, <1>3
<1>6. revenue'[b] = [[[revenue[b] EXCEPT !.net = net]
                        EXCEPT !.commission = commission]
                          EXCEPT !.cancelled = TRUE]
  BY <1>2, <1>3
<1>7. revenue'[b] = [net |-> net, commission |-> commission,
                     cancelled |-> TRUE, released |-> revenue[b].released]
  BY <1>4, <1>6
<1>8. revenue' = [revenue EXCEPT ![b] = revenue'[b]]
  BY <1>2, <1>3, <1>5
<1>9. QED
  BY <1>3, <1>7, <1>8 DEF net, commission, RefundedRow

LEMMA ResolutionWritesRow ==
  ASSUME SagaInv, NEW b \in Bookings, dispute[b] = "open",
         NEW amount \in Decisions(b), ResolveDispute(b, amount)
  PROVE  /\ revenue[b] \in Revenue /\ ~revenue[b].released
         /\ revenue' = [revenue EXCEPT ![b] = ResolvedRow(b, amount)]
<1> DEFINE net == revenue[b].net - (amount - Commission(amount))
<1> DEFINE commission == revenue[b].commission - Commission(amount)
<1>1. revenue[b] # NoRevenue /\ ~revenue[b].released
  BY DEF SagaInv, RevenueHistory, ResolveDispute
<1>2. revenue' = [revenue EXCEPT ![b].net = net,
                                 ![b].commission = commission,
                                 ![b].released = TRUE]
  BY DEF ResolveDispute
<1>3. revenue \in [Bookings -> Revenue \cup {NoRevenue}] /\ revenue[b] \in Revenue
  BY <1>1 DEF SagaInv, TypeOK
<1>4. revenue[b] = [net |-> revenue[b].net,
                    commission |-> revenue[b].commission,
                    cancelled |-> revenue[b].cancelled,
                    released |-> revenue[b].released]
  BY <1>3 DEF Revenue
<1> HIDE DEF net, commission
<1>5. DOMAIN revenue' = Bookings
      /\ \A c \in Bookings \ {b} : revenue'[c] = revenue[c]
  BY <1>2, <1>3
<1>6. revenue'[b] = [[[revenue[b] EXCEPT !.net = net]
                        EXCEPT !.commission = commission]
                          EXCEPT !.released = TRUE]
  BY <1>2, <1>3
<1>7. revenue'[b] = [net |-> net, commission |-> commission,
                     cancelled |-> revenue[b].cancelled, released |-> TRUE]
  BY <1>4, <1>6
<1>8. revenue' = [revenue EXCEPT ![b] = revenue'[b]]
  BY <1>2, <1>3, <1>5
<1>9. QED
  BY <1>1, <1>3, <1>7, <1>8 DEF net, commission, ResolvedRow

\* Finance records revenue, credits late payments and refunds cancellations.
LEMMA FinanceEventKeepsInv ==
  ASSUME SagaInv, FinanceEvent
  PROVE  SagaInv'
<1>1. Price \in Nat /\ Price - Commission(Price) \in Nat
      /\ Commission(Price) \in Nat
  BY PriceAssumption, CommissionIsPart
<1>2. ASSUME NEW b \in Bookings, RecordBookingRevenue(b)
      PROVE  SagaInv'
  <2>1. NewRevenue \in Revenue
    BY <1>1 DEF NewRevenue, Revenue
  <2>2. TypeOK'
    <3>1. revenue' \in [Bookings -> Revenue \cup {NoRevenue}]
      BY <1>2, <2>1 DEF SagaInv, TypeOK, RecordBookingRevenue
    <3>2. NewRevenue.net \in Nat /\ NewRevenue.commission \in Nat
      BY <1>1 DEF NewRevenue
    <3>3. pending' \in Nat /\ platform' \in Nat
      BY <1>2, <3>2 DEF SagaInv, TypeOK, RecordBookingRevenue
    <3>4. QED
      BY <1>2, <3>1, <3>3
      DEF SagaInv, TypeOK, RecordBookingRevenue, Done, Deliverable,
          bookingVars, readVars, paymentVars
  <2>3. PaymentsKnown'
    BY <1>2, PaymentsUntouched DEF SagaInv, RecordBookingRevenue, paymentVars
  <2>4. CASE revenue[b] = NoRevenue
    <3>1. refunds[b] = 0 /\ dispute[b] = "none"
      BY <2>4 DEF SagaInv, RevenueHistory
    <3>2. revenue' = [revenue EXCEPT ![b] = NewRevenue]
          /\ UNCHANGED <<refunds, dispute, cancelRefund>>
      BY <1>2, <2>4 DEF RecordBookingRevenue
    <3>3. /\ NewRevenue.net = Price - Commission(Price)
          /\ NewRevenue.commission = Commission(Price)
          /\ ~NewRevenue.released
      BY DEF NewRevenue
    <3>4. refunds'[b] + NewRevenue.net + NewRevenue.commission = Price
      BY <1>1, <3>1, <3>2, <3>3
    <3>5. NewRevenue.net >= 0 /\ NewRevenue.commission >= 0
      BY <1>1, <3>3
    <3>6. RevenueHistory' /\ RevenueConserved'
      BY <2>1, <3>1, <3>2, <3>3, <3>4, <3>5, RevenueRowWritten DEF SagaInv
    <3>7. QED
      BY <2>2, <2>3, <3>6 DEF SagaInv
  <2>5. CASE revenue[b] # NoRevenue
    BY <1>2, <2>2, <2>3, <2>5, RevenueUntouched DEF SagaInv, RecordBookingRevenue
  <2>6. QED
    BY <2>4, <2>5
<1>3. ASSUME NEW s \in Sources, CreditLatePayment(s)
      PROVE  SagaInv'
  <2>1. BookingOf(s) \in Bookings
    BY <1>3, PaymentHasBooking DEF SagaInv, CreditLatePayment, Deliverable
  <2>2. credited' \in [Bookings -> Nat]
    BY <1>1, <1>3, <2>1 DEF SagaInv, TypeOK, CreditLatePayment, Credit
  <2>3. TypeOK'
    BY <1>3, <2>2 DEF SagaInv, TypeOK, CreditLatePayment, Done, Deliverable,
                      bookingVars, readVars, paymentVars
  <2>4. QED
    BY <1>3, <2>3, RevenueUntouched, PaymentsUntouched
    DEF SagaInv, CreditLatePayment, paymentVars
<1>4. ASSUME NEW b \in Bookings, NEW percent \in RefundPercents,
             RefundCancelledBooking(b, percent)
      PROVE  SagaInv'
  <2> DEFINE amount == RefundOf(percent)
  <2> DEFINE row == [net |-> revenue[b].net - (amount - Commission(amount)),
                     commission |-> revenue[b].commission - Commission(amount),
                     cancelled |-> TRUE, released |-> revenue[b].released]
  <2>1. /\ amount \in Nat /\ amount - Commission(amount) \in Nat
        /\ Commission(amount) \in Nat
        /\ Commission(amount) <= Commission(Price)
        /\ amount - Commission(amount) <= Price - Commission(Price)
    BY <1>1, RefundIsWithinPrice, CommissionIsPart, CommissionIsMonotonic
  <2>2. b \notin cancelRefund /\ revenue[b] # NoRevenue
    BY <1>4 DEF RefundCancelledBooking, RefundPossible
  <2>3. revenue[b] \in Revenue
    BY <2>2 DEF SagaInv, TypeOK
  <2>4. row \in Revenue
    BY <2>1, <2>3 DEF Revenue
  <2>5. revenue' = [revenue EXCEPT ![b] = row]
    BY <1>4, RefundWritesRow DEF RefundedRow
  <2>6. /\ refunds' \in [Bookings -> Nat]
        /\ refunds'[b] = refunds[b] + amount
        /\ \A c \in Bookings \ {b} : refunds'[c] = refunds[c]
    BY <1>4, <2>1 DEF RefundCancelledBooking, SagaInv, TypeOK
  <2>7. pending' \in Nat /\ platform' \in Nat
    BY <1>4, <2>1 DEF RefundCancelledBooking, RefundPossible, SagaInv, TypeOK
  <2>8. revenue' \in [Bookings -> Revenue \cup {NoRevenue}]
    BY <2>4, <2>5 DEF SagaInv, TypeOK
  <2>9. TypeOK'
    BY <1>4, <2>6, <2>7, <2>8
    DEF SagaInv, TypeOK, RefundCancelledBooking, CancelDelivered, Deliverable,
        Done, bookingVars, readVars, paymentVars
  <2>10. PaymentsKnown'
    BY <1>4, PaymentsUntouched DEF SagaInv, RefundCancelledBooking, paymentVars
  <2>11. refunds'[b] + row.net + row.commission = Price
    <3>1. refunds[b] + revenue[b].net + revenue[b].commission = Price
      BY <2>2 DEF SagaInv, RevenueConserved
    <3>2. refunds[b] \in Nat /\ revenue[b].net \in Int
          /\ revenue[b].commission \in Int
      BY <2>3 DEF SagaInv, TypeOK, Revenue
    <3>3. QED
      BY <1>1, <2>1, <2>6, <3>1, <3>2
  <2>12. ~row.released => row.net >= 0 /\ row.commission >= 0
    <3>1. ~revenue[b].released =>
            /\ revenue[b].net = Price - Commission(Price)
            /\ revenue[b].commission = Commission(Price)
      BY <2>2 DEF SagaInv, RevenueHistory
    <3>2. QED
      BY <1>1, <2>1, <3>1
  <2>13. dispute' = dispute /\ (dispute[b] = "open" => ~row.released)
    BY <1>4 DEF RefundCancelledBooking, SagaInv, RevenueHistory
  <2>14. cancelRefund' = cancelRefund \cup {b}
    BY <1>4 DEF RefundCancelledBooking
  <2>15. RevenueHistory' /\ RevenueConserved'
    <3> HIDE DEF row
    <3>1. QED
      BY <2>4, <2>5, <2>6, <2>11, <2>12, <2>13, <2>14, RevenueRowWritten
      DEF SagaInv
  <2>16. QED
    BY <2>9, <2>10, <2>15 DEF SagaInv
<1>5. ASSUME NEW b \in Bookings, NEW percent \in RefundPercents,
             CloseCancelledBooking(b, percent)
      PROVE  SagaInv'
  <2> DEFINE row == [revenue[b] EXCEPT !.cancelled = TRUE]
  <2>1. PaymentsKnown'
    BY <1>5, PaymentsUntouched DEF SagaInv, CloseCancelledBooking, paymentVars
  <2>2. CASE revenue[b] = NoRevenue
    <3>1. TypeOK'
      BY <1>5, <2>2 DEF SagaInv, TypeOK, CloseCancelledBooking, CancelDelivered,
                        Deliverable, Done, bookingVars, readVars, paymentVars
    <3>2. QED
      BY <1>5, <2>1, <2>2, <3>1, RevenueUntouched
      DEF SagaInv, CloseCancelledBooking
  <2>3. CASE revenue[b] # NoRevenue
    <3>1. revenue[b] \in Revenue
      BY <2>3 DEF SagaInv, TypeOK
    <3>2. /\ row \in Revenue /\ row.net = revenue[b].net
          /\ row.commission = revenue[b].commission
          /\ row.released = revenue[b].released
      BY <3>1 DEF Revenue
    <3>3. revenue' = [revenue EXCEPT ![b] = row]
      BY <1>5, <2>3 DEF CloseCancelledBooking
    <3>4. revenue' \in [Bookings -> Revenue \cup {NoRevenue}]
      BY <3>2, <3>3 DEF SagaInv, TypeOK
    <3>5. TypeOK'
      BY <1>5, <3>4 DEF SagaInv, TypeOK, CloseCancelledBooking, CancelDelivered,
                        Deliverable, Done, bookingVars, readVars, paymentVars
    <3>6. /\ refunds[b] + row.net + row.commission = Price
          /\ dispute[b] = "open" => ~row.released
          /\ ~row.released =>
               /\ row.net >= 0 /\ row.commission >= 0
               /\ b \notin cancelRefund =>
                    /\ row.net = Price - Commission(Price)
                    /\ row.commission = Commission(Price)
      BY <2>3, <3>2 DEF SagaInv, RevenueHistory, RevenueConserved
    <3>7. UNCHANGED <<refunds, dispute, cancelRefund>>
      BY <1>5 DEF CloseCancelledBooking
    <3>8. RevenueHistory' /\ RevenueConserved'
      <4> HIDE DEF row
      <4>1. QED
        BY <3>2, <3>3, <3>6, <3>7, RevenueRowWritten DEF SagaInv
    <3>9. QED
      BY <2>1, <3>5, <3>8 DEF SagaInv
  <2>4. QED
    BY <2>2, <2>3
<1>6. ASSUME NEW b \in Bookings, NEW percent \in RefundPercents,
             RefundFails(b, percent)
      PROVE  SagaInv'
  <2>1. TypeOK'
    BY <1>6 DEF SagaInv, TypeOK, RefundFails, Fail, CancelDelivered, Deliverable,
                bookingVars, readVars, paymentVars, moneyVars
  <2>2. QED
    BY <1>6, <2>1, RevenueUntouched, PaymentsUntouched
    DEF SagaInv, RefundFails, Fail, paymentVars, moneyVars
<1>7. QED
  BY <1>2, <1>3, <1>4, <1>5, <1>6 DEF FinanceEvent

\* The release of the revenue of a booking keeps the invariant.
LEMMA ReleaseKeepsInv ==
  ASSUME SagaInv, NEW b \in Bookings, ReleaseBookingRevenue(b)
  PROVE  SagaInv'
<1> DEFINE row == [revenue[b] EXCEPT !.released = TRUE]
<1>1. /\ revenue[b] # NoRevenue /\ ~revenue[b].released
      /\ dispute[b] # "open" /\ pending >= revenue[b].net
  BY DEF ReleaseBookingRevenue
<1>2. revenue[b] \in Revenue
  BY <1>1 DEF SagaInv, TypeOK
<1>3. /\ row \in Revenue /\ row.net = revenue[b].net
      /\ row.commission = revenue[b].commission /\ row.released
  BY <1>2 DEF Revenue
<1>4. revenue' = [revenue EXCEPT ![b] = row]
  BY DEF ReleaseBookingRevenue
<1>5. revenue[b].net \in Nat
  BY <1>1, <1>2 DEF SagaInv, RevenueHistory, Revenue
<1>6. TypeOK'
  <2>1. pending' \in Nat /\ available' \in Nat
    BY <1>1, <1>5 DEF SagaInv, TypeOK, ReleaseBookingRevenue
  <2>2. revenue' \in [Bookings -> Revenue \cup {NoRevenue}]
    BY <1>3, <1>4 DEF SagaInv, TypeOK
  <2>3. QED
    BY <2>1, <2>2 DEF SagaInv, TypeOK, ReleaseBookingRevenue, bookingVars, readVars,
                      paymentVars, eventVars
<1>7. PaymentsKnown'
  BY PaymentsUntouched DEF SagaInv, ReleaseBookingRevenue, paymentVars, eventVars
<1>8. RevenueHistory' /\ RevenueConserved'
  <2>1. UNCHANGED <<refunds, dispute, cancelRefund>>
    BY DEF ReleaseBookingRevenue
  <2>2. refunds[b] + row.net + row.commission = Price
    BY <1>1, <1>3 DEF SagaInv, RevenueConserved
  <2> HIDE DEF row
  <2>3. QED
    BY <1>1, <1>3, <1>4, <2>1, <2>2, RevenueRowWritten DEF SagaInv
<1>9. QED
  BY <1>6, <1>7, <1>8 DEF SagaInv

\* A decision of an administrator is an amount.
LEMMA DecisionIsNat ==
  ASSUME NEW b \in Bookings, revenue[b].net \in Nat, revenue[b].commission \in Nat,
         NEW amount \in Decisions(b)
  PROVE  amount \in Nat
<1>1. amount \in PartialRefunds => amount \in Nat
  BY AmountsAssumption
<1>2. \/ amount \in PartialRefunds \/ amount = 0
      \/ amount = revenue[b].net + revenue[b].commission
  BY Zenon DEF Decisions
<1>3. revenue[b].net + revenue[b].commission \in Nat
  OBVIOUS
<1>4. QED
  BY <1>1, <1>2, <1>3

\* The decision of a dispute keeps the invariant, for every amount that the
\* administrator may decide.
LEMMA DecisionKeepsInv ==
  ASSUME SagaInv, NEW b \in Bookings, dispute[b] = "open",
         NEW amount \in Decisions(b), ResolveDispute(b, amount)
  PROVE  SagaInv'
<1> DEFINE back == amount - Commission(amount)
<1> DEFINE left == revenue[b].net - back
<1> DEFINE row == [net |-> left,
                   commission |-> revenue[b].commission - Commission(amount),
                   cancelled |-> revenue[b].cancelled, released |-> TRUE]
<1>1. revenue[b] # NoRevenue /\ ~revenue[b].released
  BY DEF SagaInv, RevenueHistory, ResolveDispute
<1>2. revenue[b] \in Revenue
  BY <1>1 DEF SagaInv, TypeOK
<1>3. revenue[b].net \in Nat /\ revenue[b].commission \in Nat
  BY <1>1, <1>2 DEF SagaInv, RevenueHistory, Revenue
<1>4. amount \in Nat
  BY <1>3, DecisionIsNat
<1>5. Commission(amount) \in Nat /\ back \in Nat
  BY <1>4, CommissionIsPart
<1>6. back <= revenue[b].net /\ pending >= back + left
      /\ platform >= Commission(amount)
  BY DEF ResolveDispute
<1>7. left \in Nat
  BY <1>3, <1>5, <1>6
<1>8. row \in Revenue
  BY <1>2, <1>5, <1>7 DEF Revenue
<1>9. revenue' = [revenue EXCEPT ![b] = row]
  BY ResolutionWritesRow DEF ResolvedRow
<1>10. /\ refunds' \in [Bookings -> Nat]
       /\ refunds'[b] = refunds[b] + amount
       /\ \A c \in Bookings \ {b} : refunds'[c] = refunds[c]
  BY <1>4 DEF ResolveDispute, SagaInv, TypeOK
<1>11. TypeOK'
  <2>1. pending' = pending - (back + left) /\ available' = available + left
        /\ platform' = platform - Commission(amount)
    BY DEF ResolveDispute
  <2>2. pending' \in Nat /\ available' \in Nat /\ platform' \in Nat
    <3> HIDE DEF back, left
    <3>1. QED
      BY <1>5, <1>6, <1>7, <2>1 DEF SagaInv, TypeOK
  <2>3. revenue' \in [Bookings -> Revenue \cup {NoRevenue}]
    BY <1>8, <1>9 DEF SagaInv, TypeOK
  <2>4. QED
    BY <1>10, <2>2, <2>3 DEF SagaInv, TypeOK, ResolveDispute, bookingVars, readVars,
                             paymentVars, eventVars
<1>12. PaymentsKnown'
  BY PaymentsUntouched DEF SagaInv, ResolveDispute, paymentVars, eventVars
<1>13. RevenueHistory' /\ RevenueConserved'
  <2>1. /\ dispute'[b] = "resolved"
        /\ \A c \in Bookings \ {b} : dispute'[c] = dispute[c]
        /\ cancelRefund' = cancelRefund
    BY DEF ResolveDispute, SagaInv, TypeOK
  <2>2. refunds'[b] + row.net + row.commission = Price
    <3>1. refunds[b] + revenue[b].net + revenue[b].commission = Price
      BY <1>1 DEF SagaInv, RevenueConserved
    <3>2. refunds[b] \in Nat
      BY DEF SagaInv, TypeOK
    <3>3. QED
      BY <1>3, <1>4, <1>5, <1>10, <3>1, <3>2
  <2>3. row.released
    OBVIOUS
  <2> HIDE DEF row
  <2>4. QED
    BY <1>8, <1>9, <1>10, <2>1, <2>2, <2>3, RevenueRowWritten DEF SagaInv
<1>14. QED
  BY <1>11, <1>12, <1>13 DEF SagaInv

-----------------------------------------------------------------------------
(* The theorems *)

\* The tables start empty, with nothing paid and nothing owed.
LEMMA SagaStarts == Init => SagaInv
<1> SUFFICES ASSUME Init PROVE SagaInv
  OBVIOUS
<1>1. TypeOK
  BY DEF Init, TypeOK
<1>2. PaymentsKnown
  BY DEF Init, PaymentsKnown
<1>3. RevenueHistory /\ RevenueConserved
  BY DEF Init, RevenueHistory, RevenueConserved
<1>4. QED
  BY <1>1, <1>2, <1>3 DEF SagaInv

\* Every step of venue, of finance and of the player keeps the invariant.
LEMMA SagaInvIsInductive == SagaInv /\ [Next]_vars => SagaInv'
<1> SUFFICES ASSUME SagaInv, [Next]_vars PROVE SagaInv'
  OBVIOUS
<1>1. ASSUME NEW b \in Bookings, Venue(b) PROVE SagaInv'
  BY <1>1, VenueKeepsInv
<1>2. ASSUME NEW s \in Sources, HandlePaymentCompleted(s) PROVE SagaInv'
  BY <1>2, PaymentHandledKeepsInv
<1>3. CASE Player
  BY <1>3, PlayerKeepsInv
<1>4. CASE Finance
  BY <1>4, BalancePaymentKeepsInv, TransferKeepsInv, FinanceEventKeepsInv,
     ReleaseKeepsInv, DecisionKeepsInv
  DEF Finance
<1>5. CASE UNCHANGED vars
  <2>1. TypeOK'
    BY <1>5 DEF SagaInv, TypeOK, vars, bookingVars, readVars, paymentVars, moneyVars,
                eventVars
  <2>2. QED
    BY <1>5, <2>1, RevenueUntouched, PaymentsUntouched
    DEF SagaInv, vars, paymentVars, moneyVars, eventVars
<1>6. QED
  BY <1>1, <1>2, <1>3, <1>4, <1>5 DEF Next

\* The inductive invariant of the saga.
THEOREM SagaCorrect == Spec => []SagaInv
BY SagaStarts, SagaInvIsInductive, PTL DEF Spec

\* Wallets never go below zero, and every row and event is one the code can
\* write: RefundPossible and the checks of resolveDispute are enough.
THEOREM SagaTypeCorrect == Spec => []TypeOK
<1>1. SagaInv => TypeOK
  BY DEF SagaInv
<1>2. QED
  BY <1>1, SagaCorrect, PTL

\* BR-FIN-15 for every booking: refunds, net revenue and commission add up to
\* the price after every cancellation and every dispute, in any order.
THEOREM RefundsAreConserved == Spec => []RevenueConserved
<1>1. SagaInv => RevenueConserved
  BY DEF SagaInv
<1>2. QED
  BY <1>1, SagaCorrect, PTL

\* D11: the revenue of a booking whose dispute is open has not been released.
THEOREM DisputeHoldsRevenue == Spec => []DisputedRevenueIsHeld
<1>1. SagaInv => DisputedRevenueIsHeld
  BY DEF SagaInv, RevenueHistory, DisputedRevenueIsHeld
<1>2. QED
  BY <1>1, SagaCorrect, PTL

-----------------------------------------------------------------------------
(* The history of a booking, with events in any order *)

Ended(b) == phase[b] \in {"ended", "mature"}

\* A payment that finance published was taken.
PaymentIsTaken(s) ==
  PaymentCompleted(s) \in sent =>
    \/ s \in Bookings /\ s \in balancePaid
    \/ /\ s \in Transfers /\ receipt[s] = "booking"
       /\ intent[transfer[s].intent].status = "completed"

\* Venue answers a payment once, and then the booking is not held any more.
VenueAnswered(s) ==
  /\ s \in venueDone =>
       PaymentCompleted(s) \in sent /\ status[BookingOf(s)] # "held"
  /\ PaymentTooLate(s) \in sent => s \in venueDone

ConfirmedIsPaid(b) == BookingConfirmed(b) \in sent => status[b] # "held" /\ Paid(b)

RevenueIsConfirmed(b) == revenue[b] # NoRevenue <=> BookingConfirmed(b) \in financeDone

\* A cancellation is sent once, and the booking stays cancelled.
OneCancellation(b) ==
  \A p, q \in RefundPercents :
    BookingCancelled(b, p) \in sent =>
      /\ status[b] = "cancelled"
      /\ BookingCancelled(b, q) \in sent => q = p

\* A cancellation that was refunded has marked the revenue.
CancellationMarked(b) ==
  \A p \in RefundPercents :
    BookingCancelled(b, p) \in financeDone /\ RefundOf(p) > 0 =>
      revenue[b] # NoRevenue /\ revenue[b].cancelled

\* A booking that is about to be confirmed has neither been confirmed nor
\* cancelled by request, and no other payment is about to confirm it.
ConfirmingIsFresh(s) ==
  s \in confirming =>
    /\ PaymentCompleted(s) \in sent /\ s \notin venueDone
    /\ status[BookingOf(s)] \in {"held", "cancelled"}
    /\ BookingConfirmed(BookingOf(s)) \notin sent /\ ~CancellationSent(BookingOf(s))
    /\ \A q \in confirming : BookingOf(q) = BookingOf(s) => q = s

HistoryInv ==
  /\ \A t \in Transfers : receipt[t] # "none" => transfer[t] # NoTransfer
  /\ \A s \in Sources : PaymentIsTaken(s)
  /\ \A s \in Sources : VenueAnswered(s)
  /\ \A s \in Sources : ConfirmingIsFresh(s)
  /\ \A b \in Bookings : ConfirmedIsPaid(b)
  /\ \A b \in Bookings : RevenueIsConfirmed(b)
  /\ \A b \in Bookings : OneCancellation(b)
  /\ \A b \in Bookings : CancellationMarked(b)
  /\ \A e \in retried \cup quarantined : e.type = "BookingCancelled"

\* What no step takes back.
IntentsGrow ==
  \A i \in Intents : intent[i] # NoIntent =>
    /\ intent'[i] # NoIntent /\ intent'[i].booking = intent[i].booking
    /\ intent[i].status # "pending" => intent'[i].status = intent[i].status

TransfersGrow ==
  \A t \in Transfers :
    /\ transfer[t] # NoTransfer => transfer'[t] = transfer[t]
    /\ receipt[t] # "none" => receipt'[t] = receipt[t]

StatusGrows ==
  \A b \in Bookings :
    /\ status[b] # "held" => status'[b] # "held"
    /\ status[b] \in {"cancelled", "deleted"} => status'[b] = status[b] \/ Locked(b)

RevenueGrows ==
  \A b \in Bookings : revenue[b] # NoRevenue =>
    /\ revenue'[b] # NoRevenue
    /\ revenue[b].cancelled => revenue'[b].cancelled

EventsGrow ==
  /\ sent \subseteq sent' /\ financeDone \subseteq financeDone'
  /\ venueDone \subseteq venueDone' /\ balancePaid \subseteq balancePaid'

\* Finance handles an event: neither venue nor the payments change.
LEMMA FinanceEventLeaves ==
  ASSUME FinanceEvent PROVE UNCHANGED <<bookingVars, paymentVars, sent>>
<1>1. CASE \E b \in Bookings : RecordBookingRevenue(b)
  BY <1>1 DEF RecordBookingRevenue
<1>2. CASE \E s \in Sources : CreditLatePayment(s)
  BY <1>2 DEF CreditLatePayment
<1>3. CASE \E b \in Bookings, p \in RefundPercents : RefundCancelledBooking(b, p)
  BY <1>3 DEF RefundCancelledBooking
<1>4. CASE \E b \in Bookings, p \in RefundPercents : CloseCancelledBooking(b, p)
  BY <1>4 DEF CloseCancelledBooking
<1>5. CASE \E b \in Bookings, p \in RefundPercents : RefundFails(b, p)
  BY <1>5 DEF RefundFails, Fail
<1>6. QED
  BY <1>1, <1>2, <1>3, <1>4, <1>5 DEF FinanceEvent

\* Revenue is released and disputes are resolved without an event.
LEMMA ReleaseLeaves ==
  ASSUME \/ \E b \in Bookings : ReleaseBookingRevenue(b)
         \/ \E b \in Bookings : dispute[b] = "open" /\ \E a \in Decisions(b) : ResolveDispute(b, a)
  PROVE  UNCHANGED <<bookingVars, paymentVars, eventVars>>
<1>1. CASE \E b \in Bookings : ReleaseBookingRevenue(b)
  BY <1>1 DEF ReleaseBookingRevenue
<1>2. ASSUME NEW b \in Bookings, NEW a \in Decisions(b), ResolveDispute(b, a)
      PROVE  UNCHANGED <<bookingVars, paymentVars, eventVars>>
  <2>1. UNCHANGED <<bookingVars, paymentVars, credited, cancelRefund, eventVars>>
    BY <1>2 DEF ResolveDispute
  <2>2. QED
    BY <2>1
<1>3. QED
  BY <1>1, <1>2

\* Finance and the player write nothing of a booking.
LEMMA OnlyVenueWrites ==
  ASSUME [Next]_vars
  PROVE  \/ \E b \in Bookings : Venue(b)
         \/ \E s \in Sources : HandlePaymentCompleted(s)
         \/ UNCHANGED <<status, lapsed, phase, venueDone, confirming>>
<1> DEFINE Kept == UNCHANGED <<status, lapsed, phase, venueDone, confirming>>
<1>1. CASE Player
  BY <1>1
  DEF Player, AskForBalancePayment, CreateIntent, MakeTransfer, CreateDispute,
      bookingVars, readVars
<1>2. ASSUME NEW t \in Transfers, TransferStep(t) PROVE Kept
  BY <1>2
  DEF TransferStep, AskForTransfer, ReadExpiredBooking, RecordUnmatched,
      IgnoreRecordedTransfer, CreditLateTransfer, AcceptTransfer, AllocationRefused,
      CreditPartialTransfer, bookingVars, readVars
<1>3. ASSUME NEW b \in Bookings, PayWithBalance(b) PROVE Kept
  BY <1>3 DEF PayWithBalance, bookingVars, readVars
<1>4. ASSUME UNCHANGED bookingVars PROVE Kept
  BY <1>4 DEF bookingVars, readVars
<1>5. CASE Finance
  BY <1>2, <1>3, <1>4, <1>5, FinanceEventLeaves, ReleaseLeaves DEF Finance
<1>6. CASE UNCHANGED vars
  BY <1>4, <1>6 DEF vars
<1>7. QED
  BY <1>1, <1>5, <1>6 DEF Next

LEMMA StatusNeverReturns == SagaInv /\ [Next]_vars => StatusGrows
<1> SUFFICES ASSUME SagaInv, [Next]_vars PROVE StatusGrows
  OBVIOUS
<1>1. status \in [Bookings ->
                    {"held", "confirmed", "cancelled", "completed", "deleted"}]
  BY DEF SagaInv, TypeOK
<1>2. CASE \E b \in Bookings : Venue(b)
  BY <1>1, <1>2
  DEF Venue, Lapse, Advance, ReapExpiredBooking, CompleteBooking, LeaveCheckout,
      CancelBooking, ReadExpiredBooking, HealBooking, StatusGrows
<1>3. CASE \E s \in Sources : HandlePaymentCompleted(s)
  <2>1. PICK s \in Sources : HandlePaymentCompleted(s)
    BY <1>3
  <2> DEFINE b == BookingOf(s)
  <2>2. \/ status' = status
        \/ status' = [status EXCEPT ![b] = IF status[b] = "held" THEN "cancelled"
                                           ELSE status[b]]
        \/ Locked(b) /\ status' = [status EXCEPT ![b] = "confirmed"]
    BY <2>1
    DEF HandlePaymentCompleted, ReadPayableBooking, ConfirmBooking, FindNoBooking,
        RefusePayment, CancelHeld, Locked
  <2> HIDE DEF b
  <2>3. QED
    BY <1>1, <2>2 DEF StatusGrows
<1>4. CASE UNCHANGED status
  BY <1>4 DEF StatusGrows
<1>5. QED
  BY <1>2, <1>3, <1>4, OnlyVenueWrites

LEMMA IntentsAreKept == SagaInv /\ [Next]_vars => IntentsGrow
<1> SUFFICES ASSUME SagaInv, [Next]_vars PROVE IntentsGrow
  OBVIOUS
<1>1. intent \in [Intents -> Intent \cup {NoIntent}]
  BY DEF SagaInv, TypeOK
<1>2. ASSUME UNCHANGED intent PROVE IntentsGrow
  BY <1>2 DEF IntentsGrow
<1>3. ASSUME NEW i \in Intents, NEW b \in Bookings, CreateIntent(i, b)
      PROVE  IntentsGrow
  BY <1>1, <1>3 DEF CreateIntent, IntentsGrow
<1>4. ASSUME NEW t \in Transfers, NEW result \in {"completed", "failed"},
             Unrecorded(t), IntentPending(t), SetIntent(t, result)
      PROVE  IntentsGrow
  <2> DEFINE i == transfer[t].intent
  <2>1. /\ transfer[t] # NoTransfer /\ transfer[t] \in Transfer
        /\ i \in Intents /\ intent[i] \in Intent /\ intent[i].status = "pending"
    BY <1>4 DEF Unrecorded, IntentPending, SagaInv, TypeOK, PaymentsKnown, Transfer
  <2>2. intent' = [intent EXCEPT ![i] = [intent[i] EXCEPT !.status = result]]
    BY <1>4 DEF SetIntent
  <2> HIDE DEF i
  <2>3. /\ [intent[i] EXCEPT !.status = result] \in Intent
        /\ [intent[i] EXCEPT !.status = result].booking = intent[i].booking
    BY <1>4, <2>1 DEF Intent
  <2>4. /\ intent'[i] \in Intent /\ intent'[i].booking = intent[i].booking
        /\ \A j \in Intents : j # i => intent'[j] = intent[j]
    BY <1>1, <2>1, <2>2, <2>3
  <2>5. QED
    BY <2>1, <2>4, RowAssumption DEF IntentsGrow
<1>5. CASE Player
  BY <1>2, <1>3, <1>5
  DEF Player, AskForBalancePayment, MakeTransfer, CreateDispute, paymentVars
<1>6. CASE FinanceEvent
  BY <1>2, <1>6, FinanceEventLeaves DEF paymentVars
<1>7. ASSUME NEW t \in Transfers, TransferStep(t) PROVE IntentsGrow
  BY <1>2, <1>4, <1>7
  DEF TransferStep, AskForTransfer, ReadExpiredBooking, paymentVars,
      RecordUnmatched, IgnoreRecordedTransfer, CreditLateTransfer, AcceptTransfer,
      AllocationRefused, CreditPartialTransfer
<1>8. CASE (\E b \in Bookings : Venue(b)) \/ \E s \in Sources : HandlePaymentCompleted(s)
  BY <1>2, <1>8, VenueLeaves, AnswerLeaves DEF paymentVars
<1>9. CASE UNCHANGED vars
  BY <1>2, <1>9 DEF vars, paymentVars
<1>10. QED
  <2>1. ASSUME NEW b \in Bookings, PayWithBalance(b) PROVE IntentsGrow
    BY <1>2, <2>1 DEF PayWithBalance
  <2>2. CASE Finance
    BY <1>2, <1>6, <1>7, <2>1, <2>2, ReleaseLeaves DEF Finance, paymentVars
  <2>3. QED
    BY <1>5, <1>8, <1>9, <2>2 DEF Next

LEMMA TransfersAreKept == SagaInv /\ [Next]_vars => TransfersGrow
<1> SUFFICES ASSUME SagaInv, [Next]_vars PROVE TransfersGrow
  OBVIOUS
<1>1. /\ transfer \in [Transfers -> Transfer \cup {NoTransfer}]
      /\ receipt \in [Transfers -> {"none", "unmatched", "late", "booking", "partial"}]
  BY DEF SagaInv, TypeOK
<1>2. ASSUME UNCHANGED <<transfer, receipt>> PROVE TransfersGrow
  BY <1>2 DEF TransfersGrow
<1>3. ASSUME NEW t \in Transfers, NEW i \in Intents, NEW a \in Amounts,
             MakeTransfer(t, i, a)
      PROVE  TransfersGrow
  BY <1>1, <1>3 DEF MakeTransfer, TransfersGrow
<1>4. ASSUME NEW t \in Transfers, NEW kind, Unrecorded(t), Record(t, kind),
             transfer' = transfer
      PROVE  TransfersGrow
  BY <1>1, <1>4 DEF Unrecorded, Record, TransfersGrow
<1>5. CASE Player
  BY <1>2, <1>3, <1>5
  DEF Player, AskForBalancePayment, CreateIntent, CreateDispute, paymentVars
<1>6. CASE FinanceEvent
  BY <1>2, <1>6, FinanceEventLeaves DEF paymentVars
<1>7. ASSUME NEW t \in Transfers, TransferStep(t) PROVE TransfersGrow
  BY <1>2, <1>4, <1>7
  DEF TransferStep, AskForTransfer, ReadExpiredBooking, paymentVars,
      RecordUnmatched, IgnoreRecordedTransfer, CreditLateTransfer, AcceptTransfer,
      AllocationRefused, CreditPartialTransfer
<1>8. CASE (\E b \in Bookings : Venue(b)) \/ \E s \in Sources : HandlePaymentCompleted(s)
  BY <1>2, <1>8, VenueLeaves, AnswerLeaves DEF paymentVars
<1>9. CASE UNCHANGED vars
  BY <1>2, <1>9 DEF vars, paymentVars
<1>10. QED
  <2>1. ASSUME NEW b \in Bookings, PayWithBalance(b) PROVE TransfersGrow
    BY <1>2, <2>1 DEF PayWithBalance
  <2>2. CASE Finance
    BY <1>2, <1>6, <1>7, <2>1, <2>2, ReleaseLeaves DEF Finance, paymentVars
  <2>3. QED
    BY <1>5, <1>8, <1>9, <2>2 DEF Next

LEMMA RefundedIsRow ==
  ASSUME SagaInv, NEW b \in Bookings, revenue[b] \in Revenue,
         NEW percent \in RefundPercents
  PROVE  /\ RefundedRow(b, percent) \in Revenue
         /\ RefundedRow(b, percent).net
              = revenue[b].net - (RefundOf(percent) - Commission(RefundOf(percent)))
         /\ RefundedRow(b, percent).commission
              = revenue[b].commission - Commission(RefundOf(percent))
         /\ RefundedRow(b, percent).cancelled = TRUE
         /\ RefundedRow(b, percent).released = revenue[b].released
<1>1. RefundOf(percent) \in Nat /\ Commission(RefundOf(percent)) \in Nat
  BY RefundIsWithinPrice, CommissionIsPart
<1>2. QED
  BY <1>1 DEF RefundedRow, Revenue

LEMMA ResolvedIsRow ==
  ASSUME SagaInv, NEW b \in Bookings, dispute[b] = "open",
         NEW amount \in Decisions(b), ResolveDispute(b, amount)
  PROVE  /\ amount \in Nat /\ Commission(amount) \in Nat
         /\ ResolvedRow(b, amount) \in Revenue
         /\ ResolvedRow(b, amount).net
              = revenue[b].net - (amount - Commission(amount))
         /\ ResolvedRow(b, amount).commission
              = revenue[b].commission - Commission(amount)
         /\ ResolvedRow(b, amount).cancelled = revenue[b].cancelled
         /\ ResolvedRow(b, amount).released = TRUE
<1>1. revenue[b] \in Revenue /\ ~revenue[b].released /\ revenue[b] # NoRevenue
  BY ResolutionWritesRow, RowAssumption
<1>2. revenue[b].net \in Nat /\ revenue[b].commission \in Nat
  BY <1>1 DEF SagaInv, RevenueHistory, Revenue
<1>3. amount \in Nat
  BY <1>2, DecisionIsNat
<1>4. Commission(amount) \in Nat
  BY <1>3, CommissionIsPart
<1>5. QED
  BY <1>1, <1>3, <1>4 DEF ResolvedRow, Revenue

\* The events, the payments and the rows that a step leaves alone.
Quiet ==
  /\ UNCHANGED <<sent, financeDone, retried, quarantined, venueDone, balancePaid>>
  /\ \A b \in Bookings : revenue'[b] = NoRevenue <=> revenue[b] = NoRevenue

\* Only these steps publish, answer or handle an event.
LEMMA KindsOfSteps ==
  ASSUME SagaInv, [Next]_vars
  PROVE  \/ \E b \in Bookings, p \in RefundPercents : CancelBooking(b, p)
         \/ \E s \in Sources : HandlePaymentCompleted(s)
         \/ \E b \in Bookings : PayWithBalance(b)
         \/ \E t \in Transfers : AcceptTransfer(t)
         \/ FinanceEvent
         \/ Quiet
<1>1. ASSUME NEW b \in Bookings, Venue(b), ~ \E p \in RefundPercents : CancelBooking(b, p)
      PROVE  Quiet
  BY <1>1, VenueLeaves DEF paymentVars, moneyVars, Quiet
<1>2. CASE Player
  BY <1>2
  DEF Player, AskForBalancePayment, CreateIntent, MakeTransfer, CreateDispute,
      bookingVars, paymentVars, moneyVars, eventVars, Quiet
<1>3. ASSUME NEW t \in Transfers, TransferStep(t), ~AcceptTransfer(t) PROVE Quiet
  BY <1>3
  DEF TransferStep, AskForTransfer, ReadExpiredBooking, paymentVars,
      RecordUnmatched, IgnoreRecordedTransfer, CreditLateTransfer,
      AllocationRefused, CreditPartialTransfer, bookingVars, moneyVars, eventVars,
      Quiet
<1>4. ASSUME NEW b \in Bookings, NEW row, revenue[b] # NoRevenue,
             UNCHANGED <<bookingVars, paymentVars, eventVars>>,
             \A c \in Bookings : c # b => revenue'[c] = revenue[c],
             revenue'[b] # NoRevenue
      PROVE  Quiet
  BY <1>4 DEF bookingVars, paymentVars, eventVars, Quiet
<1>5. ASSUME NEW b \in Bookings, ReleaseBookingRevenue(b) PROVE Quiet
  <2>1. revenue[b] # NoRevenue /\ revenue[b] \in Revenue
    BY <1>5 DEF ReleaseBookingRevenue, SagaInv, TypeOK
  <2>2. revenue' = [revenue EXCEPT ![b] = [revenue[b] EXCEPT !.released = TRUE]]
    BY <1>5 DEF ReleaseBookingRevenue
  <2>3. [revenue[b] EXCEPT !.released = TRUE] \in Revenue
    BY <2>1 DEF Revenue
  <2>4. /\ revenue'[b] # NoRevenue
        /\ \A c \in Bookings : c # b => revenue'[c] = revenue[c]
    BY <2>1, <2>2, <2>3, RowAssumption DEF SagaInv, TypeOK
  <2>5. QED
    BY <1>4, <1>5, <2>1, <2>4, ReleaseLeaves
<1>6. ASSUME NEW b \in Bookings, dispute[b] = "open",
             NEW a \in Decisions(b), ResolveDispute(b, a)
      PROVE  Quiet
  <2>1. revenue[b] # NoRevenue
    BY <1>6 DEF SagaInv, RevenueHistory
  <2>2. /\ revenue' = [revenue EXCEPT ![b] = ResolvedRow(b, a)]
        /\ revenue \in [Bookings -> Revenue \cup {NoRevenue}]
    BY <1>6, ResolutionWritesRow DEF SagaInv, TypeOK
  <2>3. /\ revenue'[b] # NoRevenue
        /\ \A c \in Bookings : c # b => revenue'[c] = revenue[c]
    BY <1>6, <2>2, ResolvedIsRow, RowAssumption
  <2>4. QED
    BY <1>4, <1>6, <2>1, <2>3, ReleaseLeaves
<1>7. CASE UNCHANGED vars
  BY <1>7 DEF vars, bookingVars, paymentVars, moneyVars, eventVars, Quiet
<1>8. CASE Finance
  BY <1>3, <1>5, <1>6, <1>8 DEF Finance
<1>9. QED
  BY <1>1, <1>2, <1>7, <1>8 DEF Next

\* A payment that is known stays one for the same booking.
LEMMA PaymentStays ==
  ASSUME SagaInv, IntentsGrow, TransfersGrow, NEW s \in Sources,
         s \in Bookings \/ transfer[s] # NoTransfer
  PROVE  BookingOf(s)' = BookingOf(s)
<1>1. CASE s \in Bookings
  BY <1>1 DEF BookingOf
<1>2. CASE s \notin Bookings
  <2>1. /\ s \in Transfers /\ transfer[s] # NoTransfer /\ transfer'[s] = transfer[s]
        /\ transfer[s] \in Transfer
    BY <1>2 DEF Sources, TransfersGrow, SagaInv, TypeOK
  <2>2. transfer[s].intent \in Intents /\ intent[transfer[s].intent] # NoIntent
    BY <2>1 DEF SagaInv, PaymentsKnown, Transfer
  <2>3. QED
    BY <1>2, <2>1, <2>2 DEF BookingOf, IntentsGrow
<1>3. QED
  BY <1>1, <1>2

LEMMA PaidStays ==
  ASSUME SagaInv, IntentsGrow, EventsGrow, NEW b \in Bookings, Paid(b)
  PROVE  Paid(b)'
<1>1. CASE b \in balancePaid
  BY <1>1 DEF EventsGrow, Paid
<1>2. CASE PaidByIntent(b)
  BY <1>2 DEF PaidByIntent, IntentsGrow, Paid
<1>3. QED
  BY <1>1, <1>2 DEF Paid

\* A payment that was taken pays for its booking.
LEMMA TakenIsPaid ==
  ASSUME SagaInv, NEW s \in Sources, PaymentCompleted(s) \in sent, PaymentIsTaken(s)
  PROVE  Paid(BookingOf(s))
<1>1. CASE s \in Bookings
  BY <1>1, SourcesAssumption DEF PaymentIsTaken, BookingOf, Paid
<1>2. CASE s \notin Bookings
  <2>1. /\ s \in Transfers /\ transfer[s] # NoTransfer
        /\ intent[transfer[s].intent].status = "completed"
    BY <1>2 DEF PaymentIsTaken, SagaInv, PaymentsKnown, Sources
  <2>2. transfer[s].intent \in Intents /\ intent[transfer[s].intent] # NoIntent
    BY <2>1 DEF SagaInv, PaymentsKnown, TypeOK, Transfer
  <2>3. QED
    BY <1>2, <2>1, <2>2 DEF BookingOf, Paid, PaidByIntent
<1>3. QED
  BY <1>1, <1>2

LEMMA ReceiptsAreMade ==
  ASSUME SagaInv, [Next]_vars,
         \A t \in Transfers : receipt[t] # "none" => transfer[t] # NoTransfer
  PROVE  \A t \in Transfers : receipt'[t] # "none" => transfer'[t] # NoTransfer
<1>1. TransfersGrow
  BY TransfersAreKept
<1>2. ASSUME NEW t \in Transfers, receipt'[t] # receipt[t] PROVE transfer[t] # NoTransfer
  <2>1. receipt \in [Transfers -> {"none", "unmatched", "late", "booking", "partial"}]
    BY DEF SagaInv, TypeOK
  <2>2. ASSUME NEW u \in Transfers, TransferStep(u) PROVE transfer[t] # NoTransfer
    BY <1>2, <2>1, <2>2
    DEF TransferStep, AskForTransfer, ReadExpiredBooking, paymentVars,
        RecordUnmatched, IgnoreRecordedTransfer, CreditLateTransfer, AcceptTransfer,
        AllocationRefused, CreditPartialTransfer, Record, Unrecorded
  <2>3. ~Player
    BY <1>2
    DEF Player, AskForBalancePayment, CreateIntent, MakeTransfer, CreateDispute, paymentVars
  <2>4. ~FinanceEvent
    BY <1>2, FinanceEventLeaves DEF paymentVars
  <2>5. ASSUME NEW b \in Bookings PROVE ~Venue(b)
    BY <1>2, VenueLeaves DEF paymentVars
  <2>6. ASSUME NEW s \in Sources PROVE ~HandlePaymentCompleted(s)
    BY <1>2, AnswerLeaves DEF paymentVars
  <2>7. ASSUME NEW b \in Bookings PROVE ~PayWithBalance(b)
    BY <1>2 DEF PayWithBalance
  <2>8. CASE Finance
    BY <1>2, <2>2, <2>4, <2>7, <2>8, ReleaseLeaves DEF Finance, paymentVars
  <2>9. CASE UNCHANGED vars
    BY <1>2, <2>9 DEF vars, paymentVars
  <2>10. QED
    BY <2>3, <2>5, <2>6, <2>8, <2>9 DEF Next
<1>3. QED
  BY <1>1, <1>2 DEF TransfersGrow

LEMMA EventsAreKept == SagaInv /\ [Next]_vars => EventsGrow
<1> SUFFICES ASSUME SagaInv, [Next]_vars PROVE EventsGrow
  OBVIOUS
<1>1. CASE \E b \in Bookings, p \in RefundPercents : CancelBooking(b, p)
  BY <1>1 DEF CancelBooking, paymentVars, EventsGrow
<1>2. CASE \E s \in Sources : HandlePaymentCompleted(s)
  BY <1>2, AnswerLeaves DEF paymentVars, EventsGrow
<1>3. CASE \E b \in Bookings : PayWithBalance(b)
  BY <1>3 DEF PayWithBalance, bookingVars, EventsGrow
<1>4. CASE \E t \in Transfers : AcceptTransfer(t)
  BY <1>4 DEF AcceptTransfer, bookingVars, EventsGrow
<1>5. CASE FinanceEvent
  <2>1. financeDone \subseteq financeDone'
    BY <1>5
    DEF FinanceEvent, RecordBookingRevenue, CreditLatePayment, RefundCancelledBooking,
        CloseCancelledBooking, RefundFails, Fail, Done
  <2>2. QED
    BY <1>5, <2>1, FinanceEventLeaves DEF bookingVars, paymentVars, EventsGrow
<1>6. CASE Quiet
  BY <1>6 DEF Quiet, EventsGrow
<1>7. QED
  BY <1>1, <1>2, <1>3, <1>4, <1>5, <1>6, KindsOfSteps

LEMMA RevenueIsKept == SagaInv /\ [Next]_vars => RevenueGrows
<1> SUFFICES ASSUME SagaInv, [Next]_vars PROVE RevenueGrows
  OBVIOUS
<1>1. revenue \in [Bookings -> Revenue \cup {NoRevenue}]
  BY DEF SagaInv, TypeOK
<1>2. ASSUME UNCHANGED revenue PROVE RevenueGrows
  BY <1>2 DEF RevenueGrows
<1>3. ASSUME NEW b \in Bookings, NEW row \in Revenue,
             revenue' = [revenue EXCEPT ![b] = row],
             revenue[b] # NoRevenue /\ revenue[b].cancelled => row.cancelled
      PROVE  RevenueGrows
  BY <1>1, <1>3, RowAssumption DEF RevenueGrows
<1>4. CASE FinanceEvent
  <2>1. ASSUME NEW b \in Bookings, RecordBookingRevenue(b) PROVE RevenueGrows
    <3>1. revenue[b] = NoRevenue => NewRevenue \in Revenue
      BY PriceAssumption, CommissionIsPart DEF NewRevenue, Revenue
    <3>2. QED
      BY <1>2, <1>3, <2>1, <3>1 DEF RecordBookingRevenue
  <2>2. ASSUME NEW s \in Sources, CreditLatePayment(s) PROVE RevenueGrows
    BY <1>2, <2>2 DEF CreditLatePayment
  <2>3. ASSUME NEW b \in Bookings, NEW p \in RefundPercents, RefundCancelledBooking(b, p)
        PROVE  RevenueGrows
    BY <1>3, <2>3, RefundWritesRow, RefundedIsRow
  <2>4. ASSUME NEW b \in Bookings, NEW p \in RefundPercents, CloseCancelledBooking(b, p)
        PROVE  RevenueGrows
    <3>1. CASE revenue[b] = NoRevenue
      BY <1>2, <2>4, <3>1 DEF CloseCancelledBooking
    <3>2. CASE revenue[b] # NoRevenue
      <4>1. /\ [revenue[b] EXCEPT !.cancelled = TRUE] \in Revenue
            /\ [revenue[b] EXCEPT !.cancelled = TRUE].cancelled
        BY <1>1, <3>2 DEF Revenue
      <4>2. revenue' = [revenue EXCEPT ![b] = [revenue[b] EXCEPT !.cancelled = TRUE]]
        BY <2>4, <3>2 DEF CloseCancelledBooking
      <4>3. QED
        BY <1>3, <4>1, <4>2
    <3>3. QED
      BY <3>1, <3>2
  <2>5. ASSUME NEW b \in Bookings, NEW p \in RefundPercents, RefundFails(b, p)
        PROVE  RevenueGrows
    BY <1>2, <2>5 DEF RefundFails, Fail, moneyVars
  <2>6. QED
    BY <1>4, <2>1, <2>2, <2>3, <2>4, <2>5 DEF FinanceEvent
<1>5. ASSUME NEW b \in Bookings, ReleaseBookingRevenue(b) PROVE RevenueGrows
  <2>1. revenue[b] # NoRevenue /\ revenue[b] \in Revenue
    BY <1>5 DEF ReleaseBookingRevenue, SagaInv, TypeOK
  <2>2. revenue' = [revenue EXCEPT ![b] = [revenue[b] EXCEPT !.released = TRUE]]
    BY <1>5 DEF ReleaseBookingRevenue
  <2>3. /\ [revenue[b] EXCEPT !.released = TRUE] \in Revenue
        /\ [revenue[b] EXCEPT !.released = TRUE].cancelled = revenue[b].cancelled
    BY <2>1 DEF Revenue
  <2>4. QED
    BY <1>3, <2>2, <2>3
<1>6. ASSUME NEW b \in Bookings, dispute[b] = "open",
             NEW a \in Decisions(b), ResolveDispute(b, a)
      PROVE  RevenueGrows
  <2>1. revenue' = [revenue EXCEPT ![b] = ResolvedRow(b, a)]
    BY <1>6, ResolutionWritesRow
  <2>2. /\ ResolvedRow(b, a) \in Revenue
        /\ ResolvedRow(b, a).cancelled = revenue[b].cancelled
    BY <1>6, ResolvedIsRow
  <2>3. QED
    BY <1>3, <2>1, <2>2
<1>7. ASSUME NEW t \in Transfers, TransferStep(t) PROVE UNCHANGED revenue
  BY <1>7
  DEF TransferStep, AskForTransfer, ReadExpiredBooking, paymentVars,
      RecordUnmatched, IgnoreRecordedTransfer, CreditLateTransfer, AcceptTransfer,
      AllocationRefused, CreditPartialTransfer, moneyVars
<1>8. ASSUME NEW b \in Bookings, PayWithBalance(b) PROVE UNCHANGED revenue
  BY <1>8 DEF PayWithBalance, moneyVars
<1>9. CASE Finance
  BY <1>2, <1>4, <1>5, <1>6, <1>7, <1>8, <1>9 DEF Finance
<1>10. CASE Player
  BY <1>2, <1>10
  DEF Player, AskForBalancePayment, CreateIntent, MakeTransfer, CreateDispute, moneyVars
<1>11. CASE (\E b \in Bookings : Venue(b)) \/ \E s \in Sources : HandlePaymentCompleted(s)
  BY <1>2, <1>11, VenueLeaves, AnswerLeaves DEF moneyVars
<1>12. CASE UNCHANGED vars
  BY <1>2, <1>12 DEF vars, moneyVars
<1>13. QED
  BY <1>9, <1>10, <1>11, <1>12 DEF Next

Grows == IntentsGrow /\ TransfersGrow /\ StatusGrows /\ RevenueGrows /\ EventsGrow

LEMMA EveryStepGrows == SagaInv /\ [Next]_vars => Grows
BY StatusNeverReturns, IntentsAreKept, TransfersAreKept, RevenueIsKept, EventsAreKept
DEF Grows

\* Who publishes an event.
LEMMA NewEvents ==
  ASSUME SagaInv, [Next]_vars, NEW e \in sent' \ sent
  PROVE  \/ \E b \in Bookings, p \in RefundPercents :
              CancelBooking(b, p) /\ e = BookingCancelled(b, p)
         \/ \E s \in Sources :
              /\ HandlePaymentCompleted(s)
              /\ \/ e = PaymentTooLate(s)
                 \/ e = BookingConfirmed(BookingOf(s)) /\ ConfirmBooking(s)
         \/ \E b \in Bookings : PayWithBalance(b) /\ e = PaymentCompleted(b)
         \/ \E t \in Transfers : AcceptTransfer(t) /\ e = PaymentCompleted(t)
<1>1. ~FinanceEvent /\ ~Quiet
  BY FinanceEventLeaves DEF Quiet
<1>2. CASE \E b \in Bookings, p \in RefundPercents : CancelBooking(b, p)
  <2>1. PICK b \in Bookings, p \in RefundPercents : CancelBooking(b, p)
    BY <1>2
  <2>2. e = BookingCancelled(b, p)
    BY <2>1 DEF CancelBooking
  <2>3. QED
    BY <2>1, <2>2
<1>3. CASE \E s \in Sources : HandlePaymentCompleted(s)
  <2>1. PICK s \in Sources : HandlePaymentCompleted(s)
    BY <1>3
  <2>2. \/ e = PaymentTooLate(s)
        \/ e = BookingConfirmed(BookingOf(s)) /\ ConfirmBooking(s)
    <3>1. CASE ConfirmBooking(s)
      BY <3>1 DEF ConfirmBooking
    <3>2. CASE ~ConfirmBooking(s)
      BY <2>1, <3>2
      DEF HandlePaymentCompleted, ReadPayableBooking, FindNoBooking, RefusePayment,
          eventVars
    <3>3. QED
      BY <3>1, <3>2
  <2>3. QED
    BY <2>1, <2>2
<1>4. CASE \E b \in Bookings : PayWithBalance(b)
  BY <1>4 DEF PayWithBalance
<1>5. CASE \E t \in Transfers : AcceptTransfer(t)
  BY <1>5 DEF AcceptTransfer
<1>6. QED
  BY <1>1, <1>2, <1>3, <1>4, <1>5, KindsOfSteps

LEMMA TakenNext ==
  ASSUME SagaInv, [Next]_vars, Grows, NEW s \in Sources, PaymentIsTaken(s)
  PROVE  PaymentIsTaken(s)'
<1> USE DEF PaymentCompleted, PaymentTooLate, BookingConfirmed, BookingCancelled, Event
<1>1. CASE PaymentCompleted(s) \in sent
  <2>1. CASE s \in Bookings /\ s \in balancePaid
    BY <2>1 DEF PaymentIsTaken, Grows, EventsGrow
  <2>2. CASE /\ s \in Transfers /\ receipt[s] = "booking"
             /\ intent[transfer[s].intent].status = "completed"
    <3>1. transfer[s] # NoTransfer \/ s \in Bookings
      BY <1>1 DEF SagaInv, PaymentsKnown
    <3>2. transfer[s] # NoTransfer
      BY <2>2, <3>1, SourcesAssumption
    <3>3. /\ transfer'[s] = transfer[s] /\ receipt'[s] = receipt[s]
          /\ transfer[s].intent \in Intents /\ intent[transfer[s].intent] # NoIntent
      BY <2>2, <3>2 DEF Grows, TransfersGrow, SagaInv, PaymentsKnown, TypeOK, Transfer
    <3>4. intent'[transfer[s].intent].status = "completed"
      BY <2>2, <3>3 DEF Grows, IntentsGrow
    <3>5. QED
      BY <2>2, <3>3, <3>4 DEF PaymentIsTaken
  <2>3. QED
    BY <1>1, <2>1, <2>2 DEF PaymentIsTaken
<1>2. CASE PaymentCompleted(s) \in sent' \ sent
  <2>1. CASE s \in Bookings /\ PayWithBalance(s)
    BY <1>2, <2>1 DEF PayWithBalance, PaymentIsTaken
  <2>2. CASE s \in Transfers /\ AcceptTransfer(s)
    <3>1. /\ receipt' = [receipt EXCEPT ![s] = "booking"] /\ transfer' = transfer
          /\ SetIntent(s, "completed") /\ transfer[s] # NoTransfer
      BY <2>2 DEF AcceptTransfer, Record, Unrecorded
    <3>2. receipt'[s] = "booking"
      BY <2>2, <3>1 DEF SagaInv, TypeOK
    <3>3. transfer[s].intent \in Intents /\ intent[transfer[s].intent] \in Intent
      BY <2>2, <3>1 DEF SagaInv, TypeOK, PaymentsKnown, Transfer
    <3>4. intent'[transfer[s].intent].status = "completed"
      BY <3>1, <3>3 DEF SetIntent, SagaInv, TypeOK, Intent
    <3>5. QED
      BY <2>2, <3>1, <3>2, <3>4 DEF PaymentIsTaken
  <2>3. QED
    BY <1>2, <2>1, <2>2, NewEvents
<1>3. CASE PaymentCompleted(s) \notin sent'
  BY <1>3 DEF PaymentIsTaken
<1>4. QED
  BY <1>1, <1>2, <1>3 DEF Grows, EventsGrow

\* A payment is answered by its own handler, which writes last.
LEMMA AnsweredByHandler ==
  ASSUME SagaInv, [Next]_vars, NEW s \in Sources, s \in venueDone' \ venueDone
  PROVE  /\ HandlePaymentCompleted(s)
         /\ ConfirmBooking(s) \/ FindNoBooking(s) \/ RefusePayment(s)
<1>1. ~ \E b \in Bookings : Venue(b)
  BY VenueLeaves
<1>2. PICK q \in Sources : HandlePaymentCompleted(q)
  BY <1>1, OnlyVenueWrites
<1>3. q = s /\ ~ReadPayableBooking(q)
  BY <1>2
  DEF HandlePaymentCompleted, ReadPayableBooking, ConfirmBooking, FindNoBooking,
      RefusePayment
<1>4. QED
  BY <1>2, <1>3 DEF HandlePaymentCompleted

LEMMA AnsweredNext ==
  ASSUME SagaInv, [Next]_vars, Grows, NEW s \in Sources, VenueAnswered(s)
  PROVE  VenueAnswered(s)'
<1> USE DEF PaymentCompleted, PaymentTooLate, BookingConfirmed, BookingCancelled, Event
<1>1. ASSUME PaymentCompleted(s) \in sent
      PROVE  BookingOf(s) \in Bookings /\ BookingOf(s)' = BookingOf(s)
  BY <1>1, PaymentHasBooking, PaymentStays DEF SagaInv, Grows
<1>2. ASSUME s \in venueDone
      PROVE  PaymentCompleted(s) \in sent' /\ status'[BookingOf(s)'] # "held"
  BY <1>1, <1>2 DEF VenueAnswered, Grows, EventsGrow, StatusGrows
<1>3. ASSUME s \in venueDone' \ venueDone
      PROVE  PaymentCompleted(s) \in sent' /\ status'[BookingOf(s)'] # "held"
  <2>1. HandlePaymentCompleted(s)
    BY <1>3, AnsweredByHandler
  <2>2. PaymentCompleted(s) \in sent
    BY <2>1 DEF HandlePaymentCompleted
  <2>3. status'[BookingOf(s)] # "held"
    BY <1>1, <1>3, <2>1, <2>2
    DEF HandlePaymentCompleted, ReadPayableBooking, ConfirmBooking, FindNoBooking,
        RefusePayment, CancelHeld, SagaInv, TypeOK
  <2>4. QED
    BY <1>1, <2>2, <2>3 DEF Grows, EventsGrow
<1>4. ASSUME PaymentTooLate(s) \in sent' \ sent PROVE s \in venueDone'
  <2>1. HandlePaymentCompleted(s)
    BY <1>4, NewEvents
  <2>2. RefusePayment(s)
    BY <1>4, <2>1
    DEF HandlePaymentCompleted, ReadPayableBooking, ConfirmBooking, FindNoBooking,
        eventVars
  <2>3. QED
    BY <2>2 DEF RefusePayment
<1>5. QED
  BY <1>2, <1>3, <1>4 DEF VenueAnswered, Grows, EventsGrow

LEMMA ConfirmedNext ==
  ASSUME SagaInv, HistoryInv, [Next]_vars, Grows, NEW b \in Bookings
  PROVE  ConfirmedIsPaid(b)'
<1> USE DEF PaymentCompleted, PaymentTooLate, BookingConfirmed, BookingCancelled, Event
<1>1. CASE BookingConfirmed(b) \in sent
  <2>1. status[b] # "held" /\ Paid(b)
    BY <1>1 DEF HistoryInv, ConfirmedIsPaid
  <2>2. status'[b] # "held" /\ Paid(b)'
    BY <2>1, PaidStays DEF Grows, StatusGrows
  <2>3. QED
    BY <2>2 DEF ConfirmedIsPaid
<1>2. CASE BookingConfirmed(b) \in sent' \ sent
  <2>1. PICK s \in Sources :
          HandlePaymentCompleted(s) /\ ConfirmBooking(s) /\ b = BookingOf(s)
    BY <1>2, NewEvents
  <2>2. status'[b] # "held"
    BY <2>1 DEF ConfirmBooking, SagaInv, TypeOK
  <2>3. PaymentCompleted(s) \in sent
    BY <2>1 DEF HandlePaymentCompleted
  <2>4. Paid(b)
    BY <2>1, <2>3, TakenIsPaid DEF HistoryInv
  <2>5. Paid(b)'
    BY <2>4, PaidStays DEF Grows
  <2>6. QED
    BY <2>2, <2>5 DEF ConfirmedIsPaid
<1>3. CASE BookingConfirmed(b) \notin sent'
  BY <1>3 DEF ConfirmedIsPaid
<1>4. QED
  BY <1>1, <1>2, <1>3

LEMMA CancellationNext ==
  ASSUME SagaInv, HistoryInv, [Next]_vars, Grows, NEW b \in Bookings
  PROVE  OneCancellation(b)'
<1> USE DEF PaymentCompleted, PaymentTooLate, BookingConfirmed, BookingCancelled, Event
<1>1. \A p, q \in RefundPercents :
        BookingCancelled(b, p) \in sent =>
          /\ status[b] = "cancelled"
          /\ BookingCancelled(b, q) \in sent => q = p
  BY DEF HistoryInv, OneCancellation
<1>2. ASSUME NEW p \in RefundPercents, BookingCancelled(b, p) \in sent' \ sent
      PROVE  CancelBooking(b, p)
  BY <1>2, NewEvents
<1>3. ASSUME NEW p \in RefundPercents, CancelBooking(b, p)
      PROVE  /\ status[b] = "confirmed" /\ status'[b] = "cancelled"
             /\ sent' = sent \cup {BookingCancelled(b, p)}
  BY <1>3 DEF CancelBooking, SagaInv, TypeOK
<1>4. ASSUME NEW p \in RefundPercents, NEW q \in RefundPercents,
             BookingCancelled(b, p) \in sent', BookingCancelled(b, q) \in sent'
      PROVE  status'[b] = "cancelled" /\ q = p
  <2>1. CASE \E r \in RefundPercents : CancelBooking(b, r)
    BY <1>1, <1>3, <1>4, <2>1
  <2>2. CASE ~ \E r \in RefundPercents : CancelBooking(b, r)
    <3>1. BookingCancelled(b, p) \in sent /\ BookingCancelled(b, q) \in sent
      BY <1>2, <1>4, <2>2
    <3>2. ~Locked(b)
      BY <3>1 DEF HistoryInv, ConfirmingIsFresh, CancellationSent, Locked, SagaInv, TypeOK
    <3>3. QED
      BY <1>1, <3>1, <3>2 DEF Grows, StatusGrows
  <2>3. QED
    BY <2>1, <2>2
<1>5. QED
  BY <1>4 DEF OneCancellation

\* A handler finds a booking payable that was neither confirmed nor cancelled
\* by request, and until it writes nobody else confirms or deletes it.
LEMMA FreshNext ==
  ASSUME SagaInv, HistoryInv, [Next]_vars, Grows, NEW s \in Sources
  PROVE  ConfirmingIsFresh(s)'
<1> USE DEF PaymentCompleted, PaymentTooLate, BookingConfirmed, BookingCancelled, Event
<1> SUFFICES ASSUME s \in confirming' PROVE ConfirmingIsFresh(s)'
  BY DEF ConfirmingIsFresh
<1> DEFINE b == BookingOf(s)
<1>1. confirming \subseteq Sources /\ confirming' \subseteq Sources
  BY SagaInvIsInductive DEF SagaInv, TypeOK
<1>2. \A q \in confirming : ConfirmingIsFresh(q)
  BY <1>1 DEF HistoryInv
<1>3. ASSUME NEW q \in Sources, PaymentCompleted(q) \in sent
      PROVE  BookingOf(q)' = BookingOf(q) /\ BookingOf(q) \in Bookings
  BY <1>3, PaymentHasBooking, PaymentStays DEF SagaInv, Grows
<1>4. ASSUME NEW q \in confirming' \ confirming
      PROVE  /\ HandlePaymentCompleted(q) /\ ReadPayableBooking(q)
  <2>1. PICK r \in Sources : HandlePaymentCompleted(r)
    BY <1>4, OnlyVenueWrites, VenueLeaves
  <2>2. ReadPayableBooking(r) /\ r = q
    BY <1>4, <2>1
    DEF HandlePaymentCompleted, ReadPayableBooking, ConfirmBooking, FindNoBooking,
        RefusePayment, readVars
  <2>3. QED
    BY <2>1, <2>2
<1>5. PaymentCompleted(s) \in sent /\ b \in Bookings /\ BookingOf(s)' = b
  BY <1>1, <1>2, <1>3, <1>4 DEF ConfirmingIsFresh, HandlePaymentCompleted
<1>6. CASE s \in confirming
  <2>1. /\ s \notin venueDone /\ status[b] \in {"held", "cancelled"}
        /\ BookingConfirmed(b) \notin sent /\ ~CancellationSent(b)
        /\ \A q \in confirming : BookingOf(q) = b => q = s
    BY <1>2, <1>6 DEF ConfirmingIsFresh
  <2>2. Locked(b) /\ ~ConfirmBooking(s)
    BY <1>6 DEF Locked, ConfirmBooking
  <2>3. ASSUME NEW q \in Sources, HandlePaymentCompleted(q), BookingOf(q) = b PROVE FALSE
    <3>1. ConfirmBooking(q)
      BY <2>2, <2>3
      DEF HandlePaymentCompleted, ReadPayableBooking, FindNoBooking, RefusePayment
    <3>2. q = s
      BY <2>1, <2>3, <3>1 DEF ConfirmBooking
    <3>3. QED
      BY <2>2, <3>1, <3>2
  <2>4. s \notin venueDone'
    BY <2>1, <2>3, AnsweredByHandler
  <2>5. BookingConfirmed(b) \notin sent'
    BY <2>1, <2>3, NewEvents
  <2>6. ASSUME NEW p \in RefundPercents PROVE BookingCancelled(b, p) \notin sent'
    <3>1. BookingCancelled(b, p) \notin sent /\ ~CancelBooking(b, p)
      BY <2>1 DEF CancellationSent, CancelBooking
    <3>2. QED
      BY <3>1, NewEvents
  <2>7. status'[b] \in {"held", "cancelled"}
    <3>1. status \in [Bookings ->
                        {"held", "confirmed", "cancelled", "completed", "deleted"}]
      BY DEF SagaInv, TypeOK
    <3>2. ASSUME NEW c \in Bookings, Venue(c) PROVE status'[b] \in {"held", "cancelled"}
      BY <1>5, <2>1, <2>2, <3>1, <3>2
      DEF Venue, Lapse, Advance, ReapExpiredBooking, CompleteBooking, LeaveCheckout,
          CancelBooking, ReadExpiredBooking, HealBooking
    <3>3. ASSUME NEW q \in Sources, HandlePaymentCompleted(q)
          PROVE  status'[b] \in {"held", "cancelled"}
      <4>1. BookingOf(q) # b
        BY <2>3, <3>3
      <4>2. status'[b] = status[b]
        BY <1>5, <3>1, <3>3, <4>1
        DEF HandlePaymentCompleted, ReadPayableBooking, ConfirmBooking, FindNoBooking,
            RefusePayment, CancelHeld
      <4>3. QED
        BY <2>1, <4>2
    <3>4. QED
      BY <2>1, <3>2, <3>3, OnlyVenueWrites
  <2>8. ASSUME NEW q \in confirming', BookingOf(q)' = b PROVE q = s
    <3>1. q \in Sources /\ PaymentCompleted(q) \in sent
      BY <1>1, <1>2, <1>4, <2>8 DEF ConfirmingIsFresh, HandlePaymentCompleted
    <3>2. BookingOf(q) = b
      BY <1>3, <2>8, <3>1
    <3>3. QED
      BY <1>4, <2>1, <2>3, <3>1, <3>2
  <2>9. QED
    BY <1>5, <2>4, <2>5, <2>6, <2>7, <2>8, EventsAreKept
    DEF ConfirmingIsFresh, CancellationSent, EventsGrow
<1>7. CASE s \notin confirming
  <2>1. /\ status[b] = "held" /\ ~Locked(b) /\ s \notin venueDone
        /\ UNCHANGED <<status, venueDone, sent>> /\ confirming' = confirming \cup {s}
    BY <1>4, <1>7 DEF HandlePaymentCompleted, ReadPayableBooking, Payable, eventVars
  <2>2. BookingConfirmed(b) \notin sent
    BY <1>5, <2>1 DEF HistoryInv, ConfirmedIsPaid
  <2>3. \A p \in RefundPercents : BookingCancelled(b, p) \notin sent
    BY <1>5, <2>1 DEF HistoryInv, OneCancellation
  <2>4. ASSUME NEW q \in confirming', BookingOf(q)' = b PROVE q = s
    <3>1. CASE q \in confirming
      <4>1. q \in Sources /\ PaymentCompleted(q) \in sent
        BY <1>1, <1>2, <3>1 DEF ConfirmingIsFresh
      <4>2. BookingOf(q) = b
        BY <1>3, <2>4, <4>1
      <4>3. QED
        BY <2>1, <3>1, <4>2 DEF Locked
    <3>2. QED
      BY <2>1, <3>1
  <2>5. QED
    BY <1>5, <2>1, <2>2, <2>3, <2>4 DEF ConfirmingIsFresh, CancellationSent
<1>8. QED
  BY <1>6, <1>7

\* Only finance acknowledges an event, or sets it aside.
LEMMA OnlyFinanceHandles ==
  ASSUME SagaInv, [Next]_vars, ~FinanceEvent
  PROVE  /\ UNCHANGED <<financeDone, retried, quarantined>>
         /\ \A b \in Bookings : revenue'[b] = NoRevenue <=> revenue[b] = NoRevenue
<1>1. CASE \E b \in Bookings, p \in RefundPercents : CancelBooking(b, p)
  BY <1>1 DEF CancelBooking, moneyVars
<1>2. CASE \E s \in Sources : HandlePaymentCompleted(s)
  BY <1>2, AnswerLeaves DEF moneyVars
<1>3. CASE \E b \in Bookings : PayWithBalance(b)
  BY <1>3 DEF PayWithBalance, moneyVars
<1>4. CASE \E t \in Transfers : AcceptTransfer(t)
  BY <1>4 DEF AcceptTransfer
<1>5. CASE Quiet
  BY <1>5 DEF Quiet
<1>6. QED
  BY <1>1, <1>2, <1>3, <1>4, <1>5, KindsOfSteps

\* What the handlers of finance do to the rows and the acknowledged events.
LEMMA ConfirmationHandled ==
  ASSUME SagaInv, NEW b \in Bookings, RecordBookingRevenue(b)
  PROVE  /\ financeDone' = financeDone \cup {BookingConfirmed(b)}
         /\ UNCHANGED <<retried, quarantined>>
         /\ revenue'[b] # NoRevenue
         /\ \A c \in Bookings : c # b => revenue'[c] = revenue[c]
<1>1. revenue \in [Bookings -> Revenue \cup {NoRevenue}]
  BY DEF SagaInv, TypeOK
<1>2. NewRevenue \in Revenue
  BY PriceAssumption, CommissionIsPart DEF NewRevenue, Revenue
<1>3. QED
  BY <1>1, <1>2, RowAssumption DEF RecordBookingRevenue, Done

LEMMA RefundHandled ==
  ASSUME SagaInv, NEW b \in Bookings, NEW p \in RefundPercents,
         RefundCancelledBooking(b, p)
  PROVE  /\ financeDone' = financeDone \cup {BookingCancelled(b, p)}
         /\ UNCHANGED <<retried, quarantined>>
         /\ revenue[b] # NoRevenue /\ revenue'[b] # NoRevenue /\ revenue'[b].cancelled
         /\ \A c \in Bookings : c # b => revenue'[c] = revenue[c]
<1>1. revenue \in [Bookings -> Revenue \cup {NoRevenue}]
  BY DEF SagaInv, TypeOK
<1>2. /\ revenue[b] \in Revenue
      /\ revenue' = [revenue EXCEPT ![b] = RefundedRow(b, p)]
  BY RefundWritesRow
<1>3. RefundedRow(b, p) \in Revenue /\ RefundedRow(b, p).cancelled = TRUE
  BY <1>2, RefundedIsRow
<1>4. /\ financeDone' = financeDone \cup {BookingCancelled(b, p)}
      /\ UNCHANGED <<retried, quarantined>>
  BY DEF RefundCancelledBooking, Done
<1>5. QED
  BY <1>1, <1>2, <1>3, <1>4, RowAssumption

LEMMA ClosureHandled ==
  ASSUME SagaInv, NEW b \in Bookings, NEW p \in RefundPercents,
         CloseCancelledBooking(b, p)
  PROVE  /\ financeDone' = financeDone \cup {BookingCancelled(b, p)}
         /\ UNCHANGED <<retried, quarantined>>
         /\ RefundOf(p) = 0
         /\ revenue'[b] = NoRevenue <=> revenue[b] = NoRevenue
         /\ \A c \in Bookings : c # b => revenue'[c] = revenue[c]
<1>1. revenue \in [Bookings -> Revenue \cup {NoRevenue}]
  BY DEF SagaInv, TypeOK
<1>2. /\ financeDone' = financeDone \cup {BookingCancelled(b, p)}
      /\ UNCHANGED <<retried, quarantined>>
      /\ RefundOf(p) = 0
  BY DEF CloseCancelledBooking, Done
<1>3. CASE revenue[b] = NoRevenue
  BY <1>2, <1>3 DEF CloseCancelledBooking
<1>4. CASE revenue[b] # NoRevenue
  <2>1. [revenue[b] EXCEPT !.cancelled = TRUE] \in Revenue
    BY <1>1, <1>4 DEF Revenue
  <2>2. revenue' = [revenue EXCEPT ![b] = [revenue[b] EXCEPT !.cancelled = TRUE]]
    BY <1>4 DEF CloseCancelledBooking
  <2>3. /\ revenue'[b] # NoRevenue
        /\ \A c \in Bookings : c # b => revenue'[c] = revenue[c]
    BY <1>1, <2>1, <2>2, RowAssumption
  <2>4. QED
    BY <1>2, <1>4, <2>3
<1>5. QED
  BY <1>3, <1>4

LEMMA FailureHandled ==
  ASSUME SagaInv, NEW b \in Bookings, NEW p \in RefundPercents, RefundFails(b, p)
  PROVE  /\ UNCHANGED <<financeDone, revenue>>
         /\ retried' \subseteq retried \cup {BookingCancelled(b, p)}
         /\ quarantined' \subseteq quarantined \cup {BookingCancelled(b, p)}
BY DEF RefundFails, Fail, moneyVars

LEMMA LinkNext ==
  ASSUME SagaInv, HistoryInv, [Next]_vars, NEW b \in Bookings
  PROVE  RevenueIsConfirmed(b)'
<1> USE DEF PaymentCompleted, PaymentTooLate, BookingConfirmed, BookingCancelled, Event
<1>1. revenue[b] # NoRevenue <=> BookingConfirmed(b) \in financeDone
  BY DEF HistoryInv, RevenueIsConfirmed
<1>2. CASE ~FinanceEvent
  BY <1>1, <1>2, OnlyFinanceHandles DEF RevenueIsConfirmed
<1>3. ASSUME NEW c \in Bookings, RecordBookingRevenue(c) PROVE RevenueIsConfirmed(b)'
  BY <1>1, <1>3, ConfirmationHandled DEF RevenueIsConfirmed
<1>4. ASSUME NEW s \in Sources, CreditLatePayment(s) PROVE RevenueIsConfirmed(b)'
  BY <1>1, <1>4 DEF CreditLatePayment, Done, RevenueIsConfirmed
<1>5. ASSUME NEW c \in Bookings, NEW p \in RefundPercents, RefundCancelledBooking(c, p)
      PROVE  RevenueIsConfirmed(b)'
  BY <1>1, <1>5, RefundHandled DEF RevenueIsConfirmed
<1>6. ASSUME NEW c \in Bookings, NEW p \in RefundPercents, CloseCancelledBooking(c, p)
      PROVE  RevenueIsConfirmed(b)'
  BY <1>1, <1>6, ClosureHandled DEF RevenueIsConfirmed
<1>7. ASSUME NEW c \in Bookings, NEW p \in RefundPercents, RefundFails(c, p)
      PROVE  RevenueIsConfirmed(b)'
  BY <1>1, <1>7, FailureHandled DEF RevenueIsConfirmed
<1>8. QED
  BY <1>2, <1>3, <1>4, <1>5, <1>6, <1>7 DEF FinanceEvent

LEMMA MarkNext ==
  ASSUME SagaInv, HistoryInv, [Next]_vars, Grows, NEW b \in Bookings
  PROVE  CancellationMarked(b)'
<1> USE DEF PaymentCompleted, PaymentTooLate, BookingConfirmed, BookingCancelled, Event
<1> SUFFICES ASSUME NEW p \in RefundPercents,
                    BookingCancelled(b, p) \in financeDone', RefundOf(p) > 0
             PROVE  revenue'[b] # NoRevenue /\ revenue'[b].cancelled
  BY DEF CancellationMarked, RefundOf
<1>1. CASE BookingCancelled(b, p) \in financeDone
  BY <1>1 DEF HistoryInv, CancellationMarked, Grows, RevenueGrows
<1>2. CASE BookingCancelled(b, p) \notin financeDone
  <2>1. FinanceEvent
    BY <1>2, OnlyFinanceHandles
  <2>2. ASSUME NEW c \in Bookings, RecordBookingRevenue(c) PROVE FALSE
    BY <1>2, <2>2, ConfirmationHandled
  <2>3. ASSUME NEW s \in Sources, CreditLatePayment(s) PROVE FALSE
    BY <1>2, <2>3 DEF CreditLatePayment, Done
  <2>4. ASSUME NEW c \in Bookings, NEW q \in RefundPercents, RefundCancelledBooking(c, q)
        PROVE  revenue'[b] # NoRevenue /\ revenue'[b].cancelled
    <3>1. c = b
      BY <1>2, <2>4, RefundHandled
    <3>2. QED
      BY <2>4, <3>1, RefundHandled
  <2>5. ASSUME NEW c \in Bookings, NEW q \in RefundPercents, CloseCancelledBooking(c, q)
        PROVE  FALSE
    <3>1. q = p /\ RefundOf(q) = 0
      BY <1>2, <2>5, ClosureHandled
    <3>2. QED
      BY <3>1
  <2>6. ASSUME NEW c \in Bookings, NEW q \in RefundPercents, RefundFails(c, q)
        PROVE  FALSE
    BY <1>2, <2>6, FailureHandled
  <2>7. QED
    BY <2>1, <2>2, <2>3, <2>4, <2>5, <2>6 DEF FinanceEvent
<1>3. QED
  BY <1>1, <1>2

LEMMA SetAsideNext ==
  ASSUME SagaInv, HistoryInv, [Next]_vars
  PROVE  \A e \in retried' \cup quarantined' : e.type = "BookingCancelled"
<1> USE DEF PaymentCompleted, PaymentTooLate, BookingConfirmed, BookingCancelled, Event
<1>1. \A e \in retried \cup quarantined : e.type = "BookingCancelled"
  BY DEF HistoryInv
<1>2. CASE ~FinanceEvent
  BY <1>1, <1>2, OnlyFinanceHandles
<1>3. ASSUME NEW c \in Bookings, RecordBookingRevenue(c)
      PROVE  UNCHANGED <<retried, quarantined>>
  BY <1>3, ConfirmationHandled
<1>4. ASSUME NEW s \in Sources, CreditLatePayment(s)
      PROVE  UNCHANGED <<retried, quarantined>>
  BY <1>4 DEF CreditLatePayment
<1>5. ASSUME NEW c \in Bookings, NEW p \in RefundPercents,
             RefundCancelledBooking(c, p) \/ CloseCancelledBooking(c, p)
      PROVE  UNCHANGED <<retried, quarantined>>
  BY <1>5, RefundHandled, ClosureHandled
<1>6. ASSUME NEW c \in Bookings, NEW p \in RefundPercents, RefundFails(c, p)
      PROVE  \A e \in retried' \cup quarantined' : e.type = "BookingCancelled"
  BY <1>1, <1>6, FailureHandled
<1>7. QED
  BY <1>1, <1>2, <1>3, <1>4, <1>5, <1>6 DEF FinanceEvent

LEMMA HistoryStarts == Init => HistoryInv
BY DEF Init, HistoryInv, PaymentIsTaken, VenueAnswered, ConfirmingIsFresh,
       ConfirmedIsPaid, RevenueIsConfirmed, OneCancellation, CancellationMarked

LEMMA HistoryIsInductive == SagaInv /\ HistoryInv /\ [Next]_vars => HistoryInv'
<1> SUFFICES ASSUME SagaInv, HistoryInv, [Next]_vars PROVE HistoryInv'
  OBVIOUS
<1>1. Grows
  BY EveryStepGrows
<1>2. \A t \in Transfers : receipt'[t] # "none" => transfer'[t] # NoTransfer
  BY ReceiptsAreMade DEF HistoryInv
<1>3. \A s \in Sources : PaymentIsTaken(s)'
  BY <1>1, TakenNext DEF HistoryInv
<1>4. \A s \in Sources : VenueAnswered(s)' /\ ConfirmingIsFresh(s)'
  BY <1>1, AnsweredNext, FreshNext DEF HistoryInv
<1>5. \A b \in Bookings : ConfirmedIsPaid(b)' /\ OneCancellation(b)'
  BY <1>1, ConfirmedNext, CancellationNext
<1>6. \A b \in Bookings : RevenueIsConfirmed(b)' /\ CancellationMarked(b)'
  BY <1>1, LinkNext, MarkNext
<1>7. \A e \in retried' \cup quarantined' : e.type = "BookingCancelled"
  BY SetAsideNext
<1>8. QED
  BY <1>2, <1>3, <1>4, <1>5, <1>6, <1>7 DEF HistoryInv

\* A booking is cancelled at most once, its revenue exists exactly when its
\* confirmation was handled, and a handled cancellation with a refund has
\* marked the revenue: whatever the order and the repetition of the events.
LEMMA HistoryCorrect == Spec => []HistoryInv
<1>1. SagaInv /\ HistoryInv /\ [Next]_vars => (SagaInv /\ HistoryInv)'
  BY SagaInvIsInductive, HistoryIsInductive
<1>2. Init => SagaInv /\ HistoryInv
  BY SagaStarts, HistoryStarts
<1>3. QED
  BY <1>1, <1>2, PTL DEF Spec

-----------------------------------------------------------------------------
(* Events that are handled before the booking ends *)

\* A booking that has ended waits for no cancellation.
EndedIsSettled(b) ==
  Ended(b) => \A p \in RefundPercents : ~Deliverable(BookingCancelled(b, p))

\* Revenue is released and disputed only after the end, and then it is not
\* that of a cancelled booking.  It is never negative.
RowIsOld(b) ==
  revenue[b] # NoRevenue =>
    /\ revenue[b].net >= 0 /\ revenue[b].commission >= 0
    /\ revenue[b].released => Ended(b) /\ ~revenue[b].cancelled

DisputeIsOld(b) ==
  dispute[b] # "none" =>
    Ended(b) /\ revenue[b] # NoRevenue /\ ~revenue[b].cancelled

EarlyInv ==
  /\ PendingIsOwed
  /\ \A b \in Bookings : EndedIsSettled(b)
  /\ \A b \in Bookings : RowIsOld(b)
  /\ \A b \in Bookings : DisputeIsOld(b)

\* Only these steps touch the revenue, the disputes or the wallets they fill.
LEMMA KindsOfMoves ==
  ASSUME SagaInv, [Next]_vars
  PROVE  \/ FinanceEvent
         \/ \E b \in Bookings : ReleaseBookingRevenue(b)
         \/ \E b \in Bookings :
              dispute[b] = "open" /\ \E a \in Decisions(b) : ResolveDispute(b, a)
         \/ \E b \in Bookings : CreateDispute(b)
         \/ UNCHANGED <<revenue, dispute, pending, platform>>
<1>1. ASSUME NEW b \in Bookings, Venue(b)
      PROVE  UNCHANGED <<revenue, dispute, pending, platform>>
  BY <1>1, VenueLeaves DEF moneyVars
<1>2. ASSUME NEW s \in Sources, HandlePaymentCompleted(s)
      PROVE  UNCHANGED <<revenue, dispute, pending, platform>>
  BY <1>2, AnswerLeaves DEF moneyVars
<1>3. ASSUME Player, ~ \E b \in Bookings : CreateDispute(b)
      PROVE  UNCHANGED <<revenue, dispute, pending, platform>>
  BY <1>3 DEF Player, AskForBalancePayment, CreateIntent, MakeTransfer, moneyVars
<1>4. ASSUME NEW t \in Transfers, TransferStep(t)
      PROVE  UNCHANGED <<revenue, dispute, pending, platform>>
  BY <1>4
  DEF TransferStep, AskForTransfer, ReadExpiredBooking, paymentVars,
      RecordUnmatched, IgnoreRecordedTransfer, CreditLateTransfer, AcceptTransfer,
      AllocationRefused, CreditPartialTransfer, moneyVars
<1>5. ASSUME NEW b \in Bookings, PayWithBalance(b)
      PROVE  UNCHANGED <<revenue, dispute, pending, platform>>
  BY <1>5 DEF PayWithBalance, moneyVars
<1>6. CASE UNCHANGED vars
  BY <1>6 DEF vars, moneyVars
<1>7. CASE Finance
  BY <1>4, <1>5, <1>7 DEF Finance
<1>8. QED
  BY <1>1, <1>2, <1>3, <1>6, <1>7 DEF Next

\* Only the clock moves a booking to its end.
LEMMA OnlyClockMoves ==
  ASSUME SagaInv, [Next]_vars
  PROVE  (\E b \in Bookings : Advance(b)) \/ UNCHANGED phase
<1>1. ASSUME NEW b \in Bookings, Venue(b), ~Advance(b) PROVE UNCHANGED phase
  BY <1>1
  DEF Venue, Lapse, ReapExpiredBooking, CompleteBooking, LeaveCheckout, CancelBooking,
      ReadExpiredBooking, HealBooking
<1>2. QED
  BY <1>1, OnlyVenueWrites, AnswerLeaves

LEMMA EndedStays ==
  ASSUME SagaInv, [Next]_vars, NEW b \in Bookings, Ended(b) PROVE Ended(b)'
<1>1. ASSUME NEW c \in Bookings, Advance(c) PROVE Ended(b)'
  BY <1>1 DEF Advance, Ended, SagaInv, TypeOK
<1>2. QED
  BY <1>1, OnlyClockMoves DEF Ended

LEMMA QuarantineIsKept ==
  ASSUME SagaInv, [Next]_vars PROVE quarantined \subseteq quarantined'
<1>1. CASE FinanceEvent
  BY <1>1
  DEF FinanceEvent, RecordBookingRevenue, CreditLatePayment, RefundCancelledBooking,
      CloseCancelledBooking, RefundFails, Fail
<1>2. CASE ~FinanceEvent
  BY <1>2, OnlyFinanceHandles
<1>3. QED
  BY <1>1, <1>2

LEMMA SettledNext ==
  ASSUME SagaInv, BeforeEnd, [Next]_vars, NEW b \in Bookings, EndedIsSettled(b)
  PROVE  EndedIsSettled(b)'
<1> USE DEF PaymentCompleted, PaymentTooLate, BookingConfirmed, BookingCancelled, Event
<1> SUFFICES ASSUME Ended(b)', NEW p \in RefundPercents
             PROVE  ~Deliverable(BookingCancelled(b, p))'
  BY DEF EndedIsSettled
<1> DEFINE e == BookingCancelled(b, p)
<1>1. CASE Ended(b)
  <2>1. ~Deliverable(e)
    BY <1>1 DEF EndedIsSettled
  <2>2. e \in sent' => e \in sent
    BY <1>1, NewEvents DEF CancelBooking, Ended
  <2>3. financeDone \subseteq financeDone' /\ quarantined \subseteq quarantined'
    BY QuarantineIsKept, EveryStepGrows DEF Grows, EventsGrow
  <2>4. QED
    BY <2>1, <2>2, <2>3 DEF Deliverable
<1>2. CASE ~Ended(b)
  <2>1. PICK c \in Bookings : Advance(c)
    BY <1>2, OnlyClockMoves DEF Ended
  <2>2. c = b /\ phase[b] = "started"
    BY <1>2, <2>1 DEF Advance, Ended, SagaInv, TypeOK
  <2>3. ~Undelivered(b) /\ UNCHANGED <<sent, financeDone, quarantined>>
    BY <2>1, <2>2 DEF Advance, eventVars
  <2>4. ~Deliverable(e)
    BY <2>3 DEF Undelivered
  <2>5. QED
    BY <2>3, <2>4 DEF Deliverable
<1>3. QED
  BY <1>1, <1>2

\* What a row adds to the pending partition and to the platform's wallet.
NetOf(row) == IF row = NoRevenue \/ row.released THEN 0 ELSE row.net
CommissionOf(row) == IF row = NoRevenue THEN 0 ELSE row.commission

LEMMA HeldAt ==
  /\ NetHeld = [b \in Bookings |-> NetOf(revenue[b])]
  /\ CommissionsHeld = [b \in Bookings |-> CommissionOf(revenue[b])]
BY DEF NetHeld, CommissionsHeld, Recorded, Released, NetOf, CommissionOf

LEMMA HeldAreLedgers ==
  ASSUME TypeOK
  PROVE  /\ NetHeld \in [Bookings -> Int] /\ CommissionsHeld \in [Bookings -> Int]
         /\ \A b \in Bookings : NetHeld[b] = NetOf(revenue[b])
         /\ \A b \in Bookings : CommissionsHeld[b] = CommissionOf(revenue[b])
<1>1. ASSUME NEW b \in Bookings
      PROVE  NetOf(revenue[b]) \in Int /\ CommissionOf(revenue[b]) \in Int
  BY DEF TypeOK, Revenue, NetOf, CommissionOf
<1>2. QED
  BY <1>1, HeldAt

\* One row is written, and the wallets follow it.
LEMMA WalletsFollowRow ==
  ASSUME TypeOK, PendingIsOwed, NEW b \in Bookings, NEW row \in Revenue,
         revenue' = [revenue EXCEPT ![b] = row],
         pending' = pending - NetOf(revenue[b]) + NetOf(row),
         platform' = platform - CommissionOf(revenue[b]) + CommissionOf(row)
  PROVE  PendingIsOwed'
<1>1. /\ NetHeld \in [Bookings -> Int] /\ CommissionsHeld \in [Bookings -> Int]
      /\ \A c \in Bookings : NetHeld[c] = NetOf(revenue[c])
      /\ \A c \in Bookings : CommissionsHeld[c] = CommissionOf(revenue[c])
  BY HeldAreLedgers
<1>2. /\ NetHeld' = [c \in Bookings |-> NetOf(revenue'[c])]
      /\ CommissionsHeld' = [c \in Bookings |-> CommissionOf(revenue'[c])]
  BY DEF NetHeld, CommissionsHeld, Recorded, Released, NetOf, CommissionOf
<1>3. revenue'[b] = row /\ \A c \in Bookings \ {b} : revenue'[c] = revenue[c]
  BY DEF TypeOK
<1>4. NetOf(row) \in Int /\ CommissionOf(row) \in Int
  BY DEF Revenue, NetOf, CommissionOf
<1> HIDE DEF NetHeld, CommissionsHeld, NetOf, CommissionOf
<1>5. NetHeld'[b] = NetOf(row) /\ CommissionsHeld'[b] = CommissionOf(row)
  BY <1>2, <1>3
<1>6. \A c \in Bookings \ {b} : NetHeld'[c] = NetHeld[c] /\ CommissionsHeld'[c] = CommissionsHeld[c]
  BY <1>1, <1>2, <1>3
<1>7. \A c \in Bookings : NetHeld'[c] \in Int /\ CommissionsHeld'[c] \in Int
  BY <1>1, <1>4, <1>5, <1>6
<1>8. NetHeld' \in [Bookings -> Int] /\ CommissionsHeld' \in [Bookings -> Int]
  BY <1>2, <1>7
<1>9. SumFunction(NetHeld') = SumFunction(NetHeld) - NetHeld[b] + NetHeld'[b]
  BY <1>1, <1>6, <1>8, FiniteAssumption, LedgerChanged
<1>10. SumFunction(CommissionsHeld')
         = SumFunction(CommissionsHeld) - CommissionsHeld[b] + CommissionsHeld'[b]
  BY <1>1, <1>6, <1>8, FiniteAssumption, LedgerChanged
<1>11. pending = SumFunction(NetHeld) /\ platform = SumFunction(CommissionsHeld)
  BY DEF PendingIsOwed
<1>12. pending' = SumFunction(NetHeld') /\ platform' = SumFunction(CommissionsHeld')
  BY <1>1, <1>5, <1>9, <1>10, <1>11
<1>13. QED
  BY <1>12 DEF PendingIsOwed

LEMMA WalletsUntouched ==
  ASSUME PendingIsOwed, UNCHANGED <<revenue, pending, platform>> PROVE PendingIsOwed'
BY DEF PendingIsOwed, NetHeld, CommissionsHeld, Recorded, Released

\* A cancellation that can still be handled finds its revenue neither released
\* nor disputed.
LEMMA CancelledInTime ==
  ASSUME EarlyInv, NEW b \in Bookings, NEW p \in RefundPercents, CancelDelivered(b, p)
  PROVE  /\ ~Ended(b) /\ dispute[b] = "none"
         /\ revenue[b] # NoRevenue => ~revenue[b].released
BY DEF EarlyInv, EndedIsSettled, RowIsOld, DisputeIsOld, CancelDelivered

\* The step of one booking on its row, and on no other.
RowStep(b) ==
  /\ PendingIsOwed'
  /\ \A c \in Bookings \ {b} : revenue'[c] = revenue[c] /\ dispute'[c] = dispute[c]
  /\ RowIsOld(b)'
  /\ DisputeIsOld(b)'

LEMMA RecordRowStep ==
  ASSUME SagaInv, EarlyInv, [Next]_vars, NEW b \in Bookings,
         RecordBookingRevenue(b), revenue[b] = NoRevenue
  PROVE  RowStep(b)
<1>1. /\ NewRevenue \in Revenue /\ NewRevenue # NoRevenue
      /\ NewRevenue.net >= 0 /\ NewRevenue.commission >= 0
      /\ ~NewRevenue.released /\ ~NewRevenue.cancelled
      /\ NetOf(NewRevenue) = NewRevenue.net
      /\ CommissionOf(NewRevenue) = NewRevenue.commission
  <2>1. /\ NewRevenue \in Revenue /\ NewRevenue.net >= 0 /\ NewRevenue.commission >= 0
        /\ ~NewRevenue.released /\ ~NewRevenue.cancelled
    BY PriceAssumption, CommissionIsPart DEF NewRevenue, Revenue
  <2>2. QED
    BY <2>1, RowAssumption DEF NetOf, CommissionOf
<1>2. /\ revenue' = [revenue EXCEPT ![b] = NewRevenue]
      /\ pending' = pending + NewRevenue.net
      /\ platform' = platform + NewRevenue.commission
      /\ dispute' = dispute
  BY DEF RecordBookingRevenue
<1>3. NetOf(revenue[b]) = 0 /\ CommissionOf(revenue[b]) = 0
  BY DEF NetOf, CommissionOf
<1>4. pending \in Int /\ platform \in Int /\ NewRevenue.net \in Int /\ NewRevenue.commission \in Int
  BY <1>1 DEF SagaInv, TypeOK, Revenue
<1>5. PendingIsOwed'
  <2>1. /\ pending' = pending - NetOf(revenue[b]) + NetOf(NewRevenue)
        /\ platform' = platform - CommissionOf(revenue[b]) + CommissionOf(NewRevenue)
    BY <1>1, <1>2, <1>3, <1>4
  <2>2. QED
    BY <1>1, <1>2, <2>1, WalletsFollowRow DEF SagaInv, EarlyInv
<1>6. revenue'[b] = NewRevenue /\ \A c \in Bookings \ {b} : revenue'[c] = revenue[c]
  BY <1>2 DEF SagaInv, TypeOK
<1>7. dispute'[b] = "none"
  BY <1>2 DEF EarlyInv, DisputeIsOld
<1>8. QED
  BY <1>1, <1>2, <1>5, <1>6, <1>7 DEF RowStep, RowIsOld, DisputeIsOld

LEMMA RefundRowStep ==
  ASSUME SagaInv, SagaInv', EarlyInv, [Next]_vars, NEW b \in Bookings,
         NEW p \in RefundPercents, RefundCancelledBooking(b, p)
  PROVE  RowStep(b)
<1> DEFINE row == RefundedRow(b, p)
<1> DEFINE amount == RefundOf(p)
<1>1. /\ revenue[b] \in Revenue /\ revenue[b] # NoRevenue
      /\ revenue' = [revenue EXCEPT ![b] = row]
  BY RefundWritesRow, RowAssumption
<1>2. /\ row \in Revenue /\ row # NoRevenue
      /\ row.net = revenue[b].net - (amount - Commission(amount))
      /\ row.commission = revenue[b].commission - Commission(amount)
      /\ row.released = revenue[b].released
  BY <1>1, RefundedIsRow, RowAssumption
<1>3. /\ pending' = pending - (amount - Commission(amount))
      /\ platform' = platform - Commission(amount)
      /\ dispute' = dispute /\ CancelDelivered(b, p)
  BY DEF RefundCancelledBooking
<1>4. dispute[b] = "none" /\ ~revenue[b].released
  BY <1>1, <1>3, CancelledInTime
<1>5. /\ pending \in Int /\ platform \in Int
      /\ revenue[b].net \in Int /\ revenue[b].commission \in Int
      /\ amount \in Int /\ Commission(amount) \in Int
  BY <1>1, RefundIsWithinPrice, CommissionIsPart DEF SagaInv, TypeOK, Revenue
<1> HIDE DEF row, amount
<1>6. /\ NetOf(revenue[b]) = revenue[b].net /\ NetOf(row) = row.net
      /\ CommissionOf(revenue[b]) = revenue[b].commission
      /\ CommissionOf(row) = row.commission
  BY <1>1, <1>2, <1>4 DEF NetOf, CommissionOf
<1>7. PendingIsOwed'
  <2>1. /\ pending' = pending - NetOf(revenue[b]) + NetOf(row)
        /\ platform' = platform - CommissionOf(revenue[b]) + CommissionOf(row)
    BY <1>2, <1>3, <1>5, <1>6
  <2>2. QED
    BY <1>1, <1>2, <2>1, WalletsFollowRow DEF SagaInv, EarlyInv
<1>8. revenue'[b] = row /\ \A c \in Bookings \ {b} : revenue'[c] = revenue[c]
  BY <1>1, <1>2 DEF SagaInv, TypeOK
<1>9. revenue'[b].net >= 0 /\ revenue'[b].commission >= 0 /\ ~revenue'[b].released
  BY <1>2, <1>4, <1>8 DEF SagaInv, RevenueHistory
<1>10. QED
  BY <1>3, <1>4, <1>7, <1>8, <1>9 DEF RowStep, RowIsOld, DisputeIsOld

LEMMA CloseRowStep ==
  ASSUME SagaInv, EarlyInv, [Next]_vars, NEW b \in Bookings, NEW p \in RefundPercents,
         CloseCancelledBooking(b, p), revenue[b] # NoRevenue
  PROVE  RowStep(b)
<1> DEFINE row == [revenue[b] EXCEPT !.cancelled = TRUE]
<1>1. revenue[b] \in Revenue
  BY DEF SagaInv, TypeOK
<1>2. /\ revenue' = [revenue EXCEPT ![b] = row]
      /\ UNCHANGED <<pending, platform, dispute>> /\ CancelDelivered(b, p)
  BY DEF CloseCancelledBooking
<1>3. /\ row \in Revenue /\ row # NoRevenue
      /\ row.net = revenue[b].net /\ row.commission = revenue[b].commission
      /\ row.released = revenue[b].released
  BY <1>1, RowAssumption DEF Revenue
<1>4. dispute[b] = "none" /\ ~revenue[b].released
  BY <1>2, CancelledInTime
<1>5. pending \in Int /\ platform \in Int /\ revenue[b].net \in Int /\ revenue[b].commission \in Int
  BY <1>1 DEF SagaInv, TypeOK, Revenue
<1>6. revenue[b].net >= 0 /\ revenue[b].commission >= 0
  BY <1>4 DEF SagaInv, RevenueHistory
<1> HIDE DEF row
<1>7. /\ NetOf(revenue[b]) = revenue[b].net /\ NetOf(row) = revenue[b].net
      /\ CommissionOf(revenue[b]) = revenue[b].commission
      /\ CommissionOf(row) = revenue[b].commission
  BY <1>3, <1>4 DEF NetOf, CommissionOf
<1>8. PendingIsOwed'
  <2>1. /\ pending' = pending - NetOf(revenue[b]) + NetOf(row)
        /\ platform' = platform - CommissionOf(revenue[b]) + CommissionOf(row)
    BY <1>2, <1>5, <1>7
  <2>2. QED
    BY <1>2, <1>3, <2>1, WalletsFollowRow DEF SagaInv, EarlyInv
<1>9. revenue'[b] = row /\ \A c \in Bookings \ {b} : revenue'[c] = revenue[c]
  BY <1>2, <1>3 DEF SagaInv, TypeOK
<1>10. QED
  BY <1>2, <1>3, <1>4, <1>6, <1>8, <1>9 DEF RowStep, RowIsOld, DisputeIsOld

LEMMA ReleaseRowStep ==
  ASSUME SagaInv, EarlyInv, [Next]_vars, NEW b \in Bookings, ReleaseBookingRevenue(b)
  PROVE  RowStep(b)
<1> DEFINE row == [revenue[b] EXCEPT !.released = TRUE]
<1>1. /\ revenue[b] \in Revenue /\ revenue[b] # NoRevenue
      /\ ~revenue[b].released /\ ~revenue[b].cancelled /\ Ended(b)
  BY DEF SagaInv, TypeOK, ReleaseBookingRevenue, Ended
<1>2. /\ revenue' = [revenue EXCEPT ![b] = row]
      /\ pending' = pending - revenue[b].net
      /\ UNCHANGED <<platform, dispute>>
  BY DEF ReleaseBookingRevenue
<1>3. /\ row \in Revenue /\ row # NoRevenue
      /\ row.net = revenue[b].net /\ row.commission = revenue[b].commission
      /\ row.released /\ row.cancelled = revenue[b].cancelled
  BY <1>1, RowAssumption DEF Revenue
<1>4. pending \in Int /\ platform \in Int /\ revenue[b].net \in Int /\ revenue[b].commission \in Int
  BY <1>1 DEF SagaInv, TypeOK, Revenue
<1>5. revenue[b].net >= 0 /\ revenue[b].commission >= 0
  BY <1>1 DEF SagaInv, RevenueHistory
<1> HIDE DEF row
<1>6. /\ NetOf(revenue[b]) = revenue[b].net /\ NetOf(row) = 0
      /\ CommissionOf(revenue[b]) = revenue[b].commission
      /\ CommissionOf(row) = revenue[b].commission
  BY <1>1, <1>3 DEF NetOf, CommissionOf
<1>7. PendingIsOwed'
  <2>1. /\ pending' = pending - NetOf(revenue[b]) + NetOf(row)
        /\ platform' = platform - CommissionOf(revenue[b]) + CommissionOf(row)
    BY <1>2, <1>4, <1>6
  <2>2. QED
    BY <1>2, <1>3, <2>1, WalletsFollowRow DEF SagaInv, EarlyInv
<1>8. revenue'[b] = row /\ \A c \in Bookings \ {b} : revenue'[c] = revenue[c]
  BY <1>2, <1>3 DEF SagaInv, TypeOK
<1>9. Ended(b)'
  BY <1>1, EndedStays
<1>10. QED
  BY <1>1, <1>2, <1>3, <1>5, <1>7, <1>8, <1>9 DEF RowStep, RowIsOld, DisputeIsOld

LEMMA ResolveRowStep ==
  ASSUME SagaInv, EarlyInv, [Next]_vars, NEW b \in Bookings, dispute[b] = "open",
         NEW a \in Decisions(b), ResolveDispute(b, a)
  PROVE  RowStep(b)
<1> DEFINE row == ResolvedRow(b, a)
<1>1. /\ revenue[b] \in Revenue /\ revenue[b] # NoRevenue
      /\ ~revenue[b].released /\ ~revenue[b].cancelled /\ Ended(b)
  BY ResolutionWritesRow DEF EarlyInv, DisputeIsOld
<1>2. revenue' = [revenue EXCEPT ![b] = row]
  BY ResolutionWritesRow
<1>3. /\ row \in Revenue /\ row # NoRevenue
      /\ row.net = revenue[b].net - (a - Commission(a))
      /\ row.commission = revenue[b].commission - Commission(a)
      /\ row.cancelled = revenue[b].cancelled /\ row.released = TRUE
      /\ a \in Nat /\ Commission(a) \in Nat
  BY ResolvedIsRow, RowAssumption
<1>4. /\ pending' = pending - ((a - Commission(a)) + (revenue[b].net - (a - Commission(a))))
      /\ platform' = platform - Commission(a)
      /\ a - Commission(a) <= revenue[b].net /\ Commission(a) <= revenue[b].commission
      /\ dispute' = [dispute EXCEPT ![b] = "resolved"]
  BY DEF ResolveDispute
<1>5. pending \in Int /\ platform \in Int /\ revenue[b].net \in Int /\ revenue[b].commission \in Int
  BY <1>1 DEF SagaInv, TypeOK, Revenue
<1> HIDE DEF row
<1>6. /\ NetOf(revenue[b]) = revenue[b].net /\ NetOf(row) = 0
      /\ CommissionOf(revenue[b]) = revenue[b].commission
      /\ CommissionOf(row) = row.commission
  BY <1>1, <1>3 DEF NetOf, CommissionOf
<1>7. PendingIsOwed'
  <2>1. /\ pending' = pending - NetOf(revenue[b]) + NetOf(row)
        /\ platform' = platform - CommissionOf(revenue[b]) + CommissionOf(row)
    BY <1>3, <1>4, <1>5, <1>6
  <2>2. QED
    BY <1>2, <1>3, <2>1, WalletsFollowRow DEF SagaInv, EarlyInv
<1>8. revenue'[b] = row /\ \A c \in Bookings \ {b} : revenue'[c] = revenue[c]
  BY <1>2, <1>3 DEF SagaInv, TypeOK
<1>9. row.net >= 0 /\ row.commission >= 0
  BY <1>3, <1>4, <1>5
<1>10. Ended(b)' /\ \A c \in Bookings \ {b} : dispute'[c] = dispute[c]
  BY <1>1, <1>4, EndedStays DEF SagaInv, TypeOK
<1>11. QED
  BY <1>1, <1>3, <1>7, <1>8, <1>9, <1>10 DEF RowStep, RowIsOld, DisputeIsOld

\* A row that is not written stays as old as it was.
LEMMA OldRowStays ==
  ASSUME SagaInv, [Next]_vars, NEW b \in Bookings, RowIsOld(b), DisputeIsOld(b),
         revenue'[b] = revenue[b], dispute'[b] = dispute[b]
  PROVE  RowIsOld(b)' /\ DisputeIsOld(b)'
<1>1. Ended(b) => Ended(b)'
  BY EndedStays
<1>2. QED
  BY <1>1 DEF RowIsOld, DisputeIsOld

LEMMA EarlyNext == BeforeEnd /\ SagaInv /\ EarlyInv /\ [Next]_vars => EarlyInv'
<1> SUFFICES ASSUME BeforeEnd, SagaInv, EarlyInv, [Next]_vars PROVE EarlyInv'
  OBVIOUS
<1>1. SagaInv'
  BY SagaInvIsInductive
<1>2. \A b \in Bookings : EndedIsSettled(b)'
  BY SettledNext DEF EarlyInv
<1>3. ASSUME NEW b \in Bookings, RowStep(b) PROVE EarlyInv'
  <2>1. ASSUME NEW c \in Bookings \ {b} PROVE RowIsOld(c)' /\ DisputeIsOld(c)'
    BY <1>3, OldRowStays DEF EarlyInv, RowStep
  <2>2. QED
    BY <1>2, <1>3, <2>1 DEF EarlyInv, RowStep
<1>4. ASSUME UNCHANGED <<revenue, dispute, pending, platform>> PROVE EarlyInv'
  <2>1. ASSUME NEW c \in Bookings PROVE RowIsOld(c)' /\ DisputeIsOld(c)'
    BY <1>4, OldRowStays DEF EarlyInv
  <2>2. PendingIsOwed'
    BY <1>4, WalletsUntouched DEF EarlyInv
  <2>3. QED
    BY <1>2, <2>1, <2>2 DEF EarlyInv
<1>5. ASSUME NEW b \in Bookings, CreateDispute(b) PROVE EarlyInv'
  <2>1. /\ revenue[b] # NoRevenue /\ ~revenue[b].cancelled /\ Ended(b)
        /\ UNCHANGED <<revenue, pending, platform>>
        /\ dispute' = [dispute EXCEPT ![b] = "open"]
    BY <1>5 DEF CreateDispute, DisputeWindow, Ended
  <2>2. PendingIsOwed'
    BY <2>1, WalletsUntouched DEF EarlyInv
  <2>3. Ended(b)' /\ \A c \in Bookings \ {b} : dispute'[c] = dispute[c]
    BY <2>1, EndedStays DEF SagaInv, TypeOK
  <2>4. RowIsOld(b)' /\ DisputeIsOld(b)'
    BY <2>1, <2>3 DEF EarlyInv, RowIsOld, DisputeIsOld
  <2>5. RowStep(b)
    BY <2>1, <2>2, <2>3, <2>4 DEF RowStep
  <2>6. QED
    BY <1>3, <2>5
<1>6. CASE FinanceEvent
  <2>1. ASSUME NEW b \in Bookings, RecordBookingRevenue(b) PROVE EarlyInv'
    BY <1>3, <1>4, <2>1, RecordRowStep DEF RecordBookingRevenue
  <2>2. ASSUME NEW s \in Sources, CreditLatePayment(s) PROVE EarlyInv'
    BY <1>4, <2>2 DEF CreditLatePayment
  <2>3. ASSUME NEW b \in Bookings, NEW p \in RefundPercents, RefundCancelledBooking(b, p)
        PROVE  EarlyInv'
    BY <1>1, <1>3, <2>3, RefundRowStep
  <2>4. ASSUME NEW b \in Bookings, NEW p \in RefundPercents, CloseCancelledBooking(b, p)
        PROVE  EarlyInv'
    <3>1. CASE revenue[b] = NoRevenue
      BY <1>4, <2>4, <3>1 DEF CloseCancelledBooking
    <3>2. CASE revenue[b] # NoRevenue
      BY <1>3, <2>4, <3>2, CloseRowStep
    <3>3. QED
      BY <3>1, <3>2
  <2>5. ASSUME NEW b \in Bookings, NEW p \in RefundPercents, RefundFails(b, p)
        PROVE  EarlyInv'
    BY <1>4, <2>5 DEF RefundFails, Fail, moneyVars
  <2>6. QED
    BY <1>6, <2>1, <2>2, <2>3, <2>4, <2>5 DEF FinanceEvent
<1>7. QED
  BY <1>3, <1>4, <1>5, <1>6, ReleaseRowStep, ResolveRowStep, KindsOfMoves

LEMMA EarlyStarts == Init => EarlyInv
<1> SUFFICES ASSUME Init PROVE EarlyInv
  OBVIOUS
<1>1. NetHeld = [b \in Bookings |-> 0] /\ CommissionsHeld = [b \in Bookings |-> 0]
  BY DEF Init, NetHeld, CommissionsHeld, Recorded, Released
<1>2. SumFunction([b \in Bookings |-> 0]) = 0
  BY FiniteAssumption, LedgerOfZeros
<1>3. PendingIsOwed
  BY <1>1, <1>2 DEF Init, PendingIsOwed
<1>4. QED
  BY <1>3 DEF Init, EarlyInv, EndedIsSettled, RowIsOld, DisputeIsOld, Ended

LEMMA EarlyCorrect == BeforeEnd /\ Spec => [](SagaInv /\ HistoryInv /\ EarlyInv)
<1> SUFFICES ASSUME BeforeEnd PROVE Spec => [](SagaInv /\ HistoryInv /\ EarlyInv)
  OBVIOUS
<1>1. Init => SagaInv /\ HistoryInv /\ EarlyInv
  BY SagaStarts, HistoryStarts, EarlyStarts
<1>2. /\ SagaInv /\ HistoryInv /\ EarlyInv /\ [Next]_vars
      => (SagaInv /\ HistoryInv /\ EarlyInv)'
  BY SagaInvIsInductive, HistoryIsInductive, EarlyNext
<1>3. QED
  BY <1>1, <1>2, PTL DEF Spec

\* BR-FIN-16 for every set of bookings: when the events of a booking are
\* handled before it ends, the pending partition is the net revenue that waits
\* for its release and the platform holds the commissions, after any refund,
\* release or dispute.
THEOREM PendingIsExact == BeforeEnd /\ Spec => []PendingIsOwed
<1>1. SagaInv /\ HistoryInv /\ EarlyInv => PendingIsOwed
  BY DEF EarlyInv
<1>2. QED
  BY <1>1, EarlyCorrect, PTL

-----------------------------------------------------------------------------
(* Events that are handled in order and before the booking ends *)

\* A booking that was confirmed is cancelled by CancelBooking only, and the
\* cancellation has marked the revenue once it is handled.
MarkedInOrder(b) ==
  \A p \in RefundPercents :
    BookingCancelled(b, p) \in financeDone => revenue[b] # NoRevenue /\ revenue[b].cancelled

OrderInv ==
  /\ retried = {} /\ quarantined = {}
  /\ \A b \in Bookings : MarkedInOrder(b)

\* The wallets hold at least what a booking that was not refunded brought in.
LEMMA RefundIsCovered ==
  ASSUME SagaInv, HistoryInv, EarlyInv, InOrder, NEW b \in Bookings,
         NEW p \in RefundPercents, CancelDelivered(b, p), b \notin cancelRefund
  PROVE  RefundPossible(b, RefundOf(p))
<1> DEFINE amount == RefundOf(p)
<1>1. BookingConfirmed(b) \in financeDone
  BY DEF CancelDelivered
<1>2. revenue[b] # NoRevenue /\ revenue[b] \in Revenue
  BY <1>1 DEF HistoryInv, RevenueIsConfirmed, SagaInv, TypeOK
<1>3. Paid(b)
  BY <1>1 DEF HistoryInv, ConfirmedIsPaid, SagaInv, TypeOK
<1>4. ~revenue[b].released
  BY <1>2, CancelledInTime
<1>5. /\ revenue[b].net = Price - Commission(Price)
      /\ revenue[b].commission = Commission(Price)
  BY <1>2, <1>4 DEF SagaInv, RevenueHistory
<1>6. /\ amount \in Nat /\ Price \in Nat
      /\ Commission(amount) \in Nat /\ Commission(Price) \in Nat
      /\ Commission(amount) <= Commission(Price)
      /\ amount - Commission(amount) <= Price - Commission(Price)
  BY PriceAssumption, RefundIsWithinPrice, CommissionIsPart, CommissionIsMonotonic
<1>7. /\ NetHeld \in [Bookings -> Nat] /\ CommissionsHeld \in [Bookings -> Nat]
      /\ NetHeld[b] = revenue[b].net /\ CommissionsHeld[b] = revenue[b].commission
  <2>1. ASSUME NEW c \in Bookings
        PROVE  NetOf(revenue[c]) \in Nat /\ CommissionOf(revenue[c]) \in Nat
    <3>1. CASE revenue[c] = NoRevenue
      BY <3>1 DEF NetOf, CommissionOf
    <3>2. CASE revenue[c] # NoRevenue
      <4>1. revenue[c] \in Revenue /\ revenue[c].net >= 0 /\ revenue[c].commission >= 0
        BY <3>2 DEF SagaInv, TypeOK, EarlyInv, RowIsOld
      <4>2. QED
        BY <4>1 DEF NetOf, CommissionOf, Revenue
    <3>3. QED
      BY <3>1, <3>2
  <2>2. NetOf(revenue[b]) = revenue[b].net /\ CommissionOf(revenue[b]) = revenue[b].commission
    BY <1>2, <1>4 DEF NetOf, CommissionOf
  <2>3. QED
    BY <2>1, <2>2, HeldAt
<1> HIDE DEF amount
<1>8. NetHeld[b] <= SumFunction(NetHeld) /\ CommissionsHeld[b] <= SumFunction(CommissionsHeld)
  BY <1>7, FiniteAssumption, LedgerCovers
<1>9. pending = SumFunction(NetHeld) /\ platform = SumFunction(CommissionsHeld)
  BY DEF EarlyInv, PendingIsOwed
<1>10. pending \in Nat /\ platform \in Nat
  BY DEF SagaInv, TypeOK
<1>11. pending >= amount - Commission(amount) /\ platform >= Commission(amount)
  BY <1>5, <1>6, <1>7, <1>8, <1>9, <1>10
<1>12. QED
  BY <1>2, <1>3, <1>11 DEF RefundPossible, amount

LEMMA NothingIsSetAside ==
  ASSUME SagaInv, HistoryInv, EarlyInv, InOrder, [Next]_vars,
         retried = {}, quarantined = {}
  PROVE  retried' = {} /\ quarantined' = {}
<1>1. CASE ~FinanceEvent
  BY <1>1, OnlyFinanceHandles
<1>2. ASSUME NEW b \in Bookings, NEW p \in RefundPercents, RefundFails(b, p)
      PROVE  FALSE
  BY <1>2, RefundIsCovered DEF RefundFails
<1>3. ASSUME NEW b \in Bookings, RecordBookingRevenue(b)
      PROVE  UNCHANGED <<retried, quarantined>>
  BY <1>3, ConfirmationHandled
<1>4. ASSUME NEW s \in Sources, CreditLatePayment(s)
      PROVE  UNCHANGED <<retried, quarantined>>
  BY <1>4 DEF CreditLatePayment
<1>5. ASSUME NEW b \in Bookings, NEW p \in RefundPercents,
             RefundCancelledBooking(b, p) \/ CloseCancelledBooking(b, p)
      PROVE  UNCHANGED <<retried, quarantined>>
  BY <1>5, RefundHandled, ClosureHandled
<1>6. QED
  BY <1>1, <1>2, <1>3, <1>4, <1>5 DEF FinanceEvent

LEMMA MarkedInOrderNext ==
  ASSUME InOrder, SagaInv, HistoryInv, [Next]_vars, NEW b \in Bookings, MarkedInOrder(b)
  PROVE  MarkedInOrder(b)'
<1> USE DEF PaymentCompleted, PaymentTooLate, BookingConfirmed, BookingCancelled, Event
<1> SUFFICES ASSUME NEW p \in RefundPercents, BookingCancelled(b, p) \in financeDone'
             PROVE  revenue'[b] # NoRevenue /\ revenue'[b].cancelled
  BY DEF MarkedInOrder
<1>1. Grows
  BY EveryStepGrows
<1>2. CASE BookingCancelled(b, p) \in financeDone
  BY <1>1, <1>2 DEF MarkedInOrder, Grows, RevenueGrows
<1>3. CASE RefundOf(p) > 0
  BY <1>1, <1>3, MarkNext DEF CancellationMarked, RefundOf
<1>4. CASE BookingCancelled(b, p) \notin financeDone /\ ~(RefundOf(p) > 0)
  <2>1. FinanceEvent
    BY <1>4, OnlyFinanceHandles
  <2>2. ASSUME NEW c \in Bookings, RecordBookingRevenue(c) PROVE FALSE
    BY <1>4, <2>2, ConfirmationHandled
  <2>3. ASSUME NEW s \in Sources, CreditLatePayment(s) PROVE FALSE
    BY <1>4, <2>3 DEF CreditLatePayment, Done
  <2>4. ASSUME NEW c \in Bookings, NEW q \in RefundPercents, RefundCancelledBooking(c, q)
        PROVE  revenue'[b] # NoRevenue /\ revenue'[b].cancelled
    <3>1. c = b
      BY <1>4, <2>4, RefundHandled
    <3>2. QED
      BY <2>4, <3>1, RefundHandled
  <2>5. ASSUME NEW c \in Bookings, NEW q \in RefundPercents, CloseCancelledBooking(c, q)
        PROVE  revenue'[b] # NoRevenue /\ revenue'[b].cancelled
    <3>1. c = b
      BY <1>4, <2>5, ClosureHandled
    <3>2. revenue[b] # NoRevenue /\ revenue[b] \in Revenue
      BY <2>5, <3>1
      DEF CloseCancelledBooking, CancelDelivered, HistoryInv, RevenueIsConfirmed,
          SagaInv, TypeOK
    <3>3. revenue' = [revenue EXCEPT ![b] = [revenue[b] EXCEPT !.cancelled = TRUE]]
      BY <2>5, <3>1, <3>2 DEF CloseCancelledBooking
    <3>4. /\ [revenue[b] EXCEPT !.cancelled = TRUE] \in Revenue
          /\ [revenue[b] EXCEPT !.cancelled = TRUE].cancelled
      BY <3>2 DEF Revenue
    <3>5. QED
      BY <3>3, <3>4, RowAssumption DEF SagaInv, TypeOK
  <2>6. ASSUME NEW c \in Bookings, NEW q \in RefundPercents, RefundFails(c, q)
        PROVE  FALSE
    BY <1>4, <2>6, FailureHandled
  <2>7. QED
    BY <2>1, <2>2, <2>3, <2>4, <2>5, <2>6 DEF FinanceEvent
<1>5. QED
  BY <1>2, <1>3, <1>4

LEMMA OrderCorrect ==
  InOrder /\ BeforeEnd /\ Spec => [](SagaInv /\ HistoryInv /\ EarlyInv /\ OrderInv)
<1> SUFFICES ASSUME InOrder, BeforeEnd
             PROVE  Spec => [](SagaInv /\ HistoryInv /\ EarlyInv /\ OrderInv)
  OBVIOUS
<1>1. Init => OrderInv
  BY DEF Init, OrderInv, MarkedInOrder
<1>2. SagaInv /\ HistoryInv /\ EarlyInv /\ OrderInv /\ [Next]_vars => OrderInv'
  BY NothingIsSetAside, MarkedInOrderNext DEF OrderInv
<1>3. Spec => [](SagaInv /\ HistoryInv /\ EarlyInv)
  BY EarlyCorrect
<1>4. QED
  BY <1>1, <1>2, <1>3, PTL DEF Spec

\* When events are handled in order and before the end, no event fails: every
\* refund finds its revenue row, its payment and the money it takes back.
THEOREM RefundsNeverFail == InOrder /\ BeforeEnd /\ Spec => [](quarantined = {})
<1>1. SagaInv /\ HistoryInv /\ EarlyInv /\ OrderInv => quarantined = {}
  BY DEF OrderInv
<1>2. QED
  BY <1>1, OrderCorrect, PTL

\* FIN-08: a booking cancelled with a full refund never pays the provider,
\* when its events are handled in order and before it ends.
THEOREM FullRefundIsFinal == InOrder /\ BeforeEnd /\ Spec => []FullRefundNeverReleased
<1>1. SagaInv /\ HistoryInv /\ EarlyInv /\ OrderInv => FullRefundNeverReleased
  <2> SUFFICES ASSUME SagaInv, HistoryInv, EarlyInv, OrderInv, NEW b \in Bookings,
                      BookingCancelled(b, 100) \in sent, revenue[b] # NoRevenue,
                      revenue[b].released
               PROVE  FALSE
    BY DEF FullRefundNeverReleased
  <2>1. Ended(b) /\ ~revenue[b].cancelled
    BY DEF EarlyInv, RowIsOld
  <2>2. BookingCancelled(b, 100) \in financeDone
    BY <2>1 DEF EarlyInv, EndedIsSettled, Deliverable, OrderInv, RefundPercents
  <2>3. QED
    BY <2>1, <2>2 DEF OrderInv, MarkedInOrder, RefundPercents
<1>2. QED
  BY <1>1, OrderCorrect, PTL

\* The comment in refundCancelledBooking: a booking whose cancellation was
\* sent, whatever its tier, is not disputed for a second refund, under the same
\* conditions.
THEOREM CancelledIsUndisputed == InOrder /\ BeforeEnd /\ Spec => []CancellationIsUndisputed
<1>1. SagaInv /\ HistoryInv /\ EarlyInv /\ OrderInv => CancellationIsUndisputed
  <2> SUFFICES ASSUME SagaInv, HistoryInv, EarlyInv, OrderInv, NEW b \in Bookings,
                      CancellationSent(b), dispute[b] # "none"
               PROVE  FALSE
    BY DEF CancellationIsUndisputed
  <2>1. Ended(b) /\ revenue[b] # NoRevenue /\ ~revenue[b].cancelled
    BY DEF EarlyInv, DisputeIsOld
  <2>2. PICK p \in RefundPercents : BookingCancelled(b, p) \in sent
    BY DEF CancellationSent
  <2>3. BookingCancelled(b, p) \in financeDone
    BY <2>1, <2>2 DEF EarlyInv, EndedIsSettled, Deliverable, OrderInv
  <2>4. QED
    BY <2>1, <2>3 DEF OrderInv, MarkedInOrder
<1>2. QED
  BY <1>1, OrderCorrect, PTL

-----------------------------------------------------------------------------
(* Every amount paid is in one place, with events in any order *)

Waiting(b) == PaymentsOf(b) \ venueDone

Late(b) == {s \in Sources : Deliverable(PaymentTooLate(s)) /\ BookingOf(s) = b}

\* a payment confirms its booking once
Confirmations(b) == IF BookingConfirmed(b) \in sent THEN 1 ELSE 0

\* the payments that are worth the price and are not credited yet
Places(b) ==
  Cardinality(Waiting(b)) + Cardinality(Late(b)) + Cardinality(Dropped(b)) + Confirmations(b)

Account(b) == MoneyIn(b) = credited[b] + Unmatched(b) + Price * Places(b)

\* What the transfers of a booking brought is a ledger.
LEMMA BroughtIsLedger ==
  ASSUME TypeOK, \A t \in Transfers : receipt[t] # "none" => transfer[t] # NoTransfer,
         NEW b, NEW kinds, "none" \notin kinds
  PROVE  Brought(b, kinds) \in [Transfers -> Int]
<1>1. ASSUME NEW t \in Transfers, receipt[t] \in kinds PROVE transfer[t].amount \in Int
  <2>1. transfer[t] \in Transfer
    BY <1>1 DEF TypeOK
  <2>2. transfer[t].amount \in Amounts
    BY <2>1 DEF Transfer
  <2>3. Amounts \subseteq Int
    BY AmountsAssumption
  <2>4. QED
    BY ONLY <2>2, <2>3
<1>2. QED
  BY <1>1 DEF Brought

\* The revenue and the refunds of a booking are worth one confirmed payment.
LEMMA AccountIsConservation ==
  ASSUME SagaInv, HistoryInv, \A b \in Bookings : Account(b)
  PROVE  MoneyConserved
<1> SUFFICES ASSUME NEW b \in Bookings
             PROVE  MoneyIn(b) = credited[b] + refunds[b] + RevenueLeft(b) + Unmatched(b)
                      + Price * (InFlight(b) + Cardinality(Dropped(b)))
  BY DEF MoneyConserved
<1> DEFINE w == Cardinality(Waiting(b))
<1> DEFINE l == Cardinality(Late(b))
<1> DEFINE d == Cardinality(Dropped(b))
<1> DEFINE k == IF Deliverable(BookingConfirmed(b)) THEN 1 ELSE 0
<1>1. IsFiniteSet(Sources)
  BY FiniteAssumption, FS_Union DEF Sources
<1>2. w \in Nat /\ l \in Nat /\ d \in Nat
  <2>1. /\ Waiting(b) \subseteq Sources /\ Late(b) \subseteq Sources
        /\ Dropped(b) \subseteq Sources
    BY DEF Waiting, Late, Dropped, PaymentsOf
  <2>2. QED
    BY <1>1, <2>1, FS_Subset, FS_CardinalityType
<1>3. BookingConfirmed(b) \notin quarantined
  BY DEF HistoryInv, BookingConfirmed, Event
<1>4. InFlight(b) = w + l + k
  BY DEF InFlight, Waiting, Late
<1>5. MoneyIn(b) = credited[b] + Unmatched(b) + Price * (w + l + d + Confirmations(b))
  BY DEF Account, Places
<1>6. /\ Price \in Nat /\ refunds[b] \in Nat /\ credited[b] \in Nat
      /\ revenue[b] \in Revenue \cup {NoRevenue}
  BY PriceAssumption DEF SagaInv, TypeOK
<1>7. /\ k \in {0, 1} /\ Confirmations(b) \in {0, 1}
      /\ refunds[b] + RevenueLeft(b) = Price * (Confirmations(b) - k)
  <2>1. CASE revenue[b] = NoRevenue
    <3>1. refunds[b] = 0 /\ RevenueLeft(b) = 0
      BY <2>1 DEF RevenueLeft, SagaInv, RevenueHistory
    <3>2. k = Confirmations(b)
      BY <1>3, <2>1 DEF HistoryInv, RevenueIsConfirmed, Deliverable, Confirmations
    <3>3. QED
      BY <1>6, <3>1, <3>2 DEF Confirmations
  <2>2. CASE revenue[b] # NoRevenue
    <3>1. refunds[b] + RevenueLeft(b) = Price
      BY <1>6, <2>2 DEF RevenueLeft, SagaInv, RevenueConserved, Revenue
    <3>2. BookingConfirmed(b) \in financeDone /\ BookingConfirmed(b) \in sent
      BY <2>2 DEF HistoryInv, RevenueIsConfirmed, SagaInv, TypeOK
    <3>3. k = 0 /\ Confirmations(b) = 1
      BY <3>2 DEF Deliverable, Confirmations
    <3>4. QED
      BY <1>6, <3>1, <3>3
  <2>3. QED
    BY <2>1, <2>2
<1>8. RevenueLeft(b) \in Int
  BY <1>6 DEF RevenueLeft, Revenue
<1>9. Unmatched(b) \in Int
  <2>1. Brought(b, {"unmatched"}) \in [Transfers -> Int]
    BY BroughtIsLedger DEF HistoryInv, SagaInv
  <2>2. QED
    BY <2>1, FiniteAssumption, LedgerIsInteger DEF Unmatched
<1> HIDE DEF w, l, d, k
<1> DEFINE all == Price * (w + l + d + Confirmations(b))
<1> DEFINE rest == Price * ((w + l + k) + d)
<1> DEFINE row == Price * (Confirmations(b) - k)
<1>10. all = row + rest /\ all \in Int /\ rest \in Int /\ row \in Int
  <2>1. all = row + rest
    BY <1>2, <1>6, <1>7
  <2>2. all \in Int /\ rest \in Int
    BY <1>2, <1>6, <1>7
  <2>3. row \in Int
    BY <1>6, <1>7
  <2>4. QED
    BY <2>1, <2>2, <2>3
<1>11. MoneyIn(b) = credited[b] + Unmatched(b) + all /\ refunds[b] + RevenueLeft(b) = row
  BY <1>5, <1>7
<1> HIDE DEF all, rest, row
<1>12. MoneyIn(b) = credited[b] + refunds[b] + RevenueLeft(b) + Unmatched(b) + rest
  BY ONLY <1>6, <1>8, <1>9, <1>10, <1>11
<1>13. InFlight(b) + Cardinality(Dropped(b)) = (w + l + k) + d
  BY <1>4 DEF d
<1>14. QED
  BY <1>12, <1>13 DEF rest

\* Payments that have been published are those of the same booking for ever.
LEMMA BookingStays ==
  ASSUME SagaInv, HistoryInv, [Next]_vars, Grows, NEW s \in Sources,
         PaymentCompleted(s) \in sent' \/ PaymentTooLate(s) \in sent'
  PROVE  BookingOf(s)' = BookingOf(s) /\ BookingOf(s) \in Bookings
<1> USE DEF PaymentCompleted, PaymentTooLate, BookingConfirmed, BookingCancelled, Event
<1>1. s \in Bookings \/ transfer[s] # NoTransfer
  <2>1. CASE PaymentCompleted(s) \in sent \/ PaymentTooLate(s) \in sent
    BY <2>1 DEF SagaInv, PaymentsKnown
  <2>2. CASE PaymentCompleted(s) \in sent' \ sent
    <3>1. s \in Bookings \/ AcceptTransfer(s)
      BY <2>2, NewEvents
    <3>2. QED
      BY <3>1 DEF AcceptTransfer, Unrecorded
  <2>3. CASE PaymentTooLate(s) \in sent' \ sent
    <3>1. HandlePaymentCompleted(s)
      BY <2>3, NewEvents
    <3>2. PaymentCompleted(s) \in sent
      BY <3>1 DEF HandlePaymentCompleted
    <3>3. QED
      BY <3>2 DEF SagaInv, PaymentsKnown
  <2>4. QED
    BY <2>1, <2>2, <2>3
<1>2. BookingOf(s)' = BookingOf(s)
  BY <1>1, PaymentStays DEF Grows
<1>3. BookingOf(s) \in Bookings
  BY <1>1, PaymentHasBooking DEF SagaInv, Sources, BookingOf
<1>4. QED
  BY <1>2, <1>3

\* The payments of a booking after a step, by the booking they had before it.
LEMMA PaymentsNext ==
  ASSUME SagaInv, HistoryInv, [Next]_vars, NEW b \in Bookings
  PROVE  /\ Waiting(b)' = {s \in Sources : /\ PaymentCompleted(s) \in sent'
                                           /\ s \notin venueDone' /\ BookingOf(s) = b}
         /\ Dropped(b)' = {s \in Sources : /\ PaymentCompleted(s) \in sent'
                                           /\ s \in venueDone' /\ BookingOf(s) = b
                                           /\ status'[b] = "deleted"}
         /\ Late(b)' = {s \in Sources : /\ PaymentTooLate(s) \in sent' \ financeDone'
                                        /\ BookingOf(s) = b}
<1> USE DEF PaymentCompleted, PaymentTooLate, Event
<1>1. Grows
  BY EveryStepGrows
<1>2. \A s \in Sources : PaymentCompleted(s) \in sent' => BookingOf(s)' = BookingOf(s)
  BY <1>1, BookingStays
<1>3. \A s \in Sources : PaymentTooLate(s) \in sent' => BookingOf(s)' = BookingOf(s)
  BY <1>1, BookingStays
<1>4. \A s \in Sources : PaymentTooLate(s) \notin quarantined'
  BY SetAsideNext
<1>5. PaymentsOf(b)' = {s \in Sources : PaymentCompleted(s) \in sent' /\ BookingOf(s)' = b}
  BY DEF PaymentsOf
<1>6. PaymentsOf(b)' = {s \in Sources : PaymentCompleted(s) \in sent' /\ BookingOf(s) = b}
  BY <1>2, <1>5
<1>7. Late(b)' = {s \in Sources : /\ PaymentTooLate(s) \in sent' \ financeDone'
                                  /\ BookingOf(s)' = b}
  BY <1>4 DEF Late, Deliverable
<1>8. Late(b)' = {s \in Sources : /\ PaymentTooLate(s) \in sent' \ financeDone'
                                  /\ BookingOf(s) = b}
  BY <1>3, <1>7
<1>9. QED
  BY <1>6, <1>8 DEF Waiting, Dropped

LEMMA PaymentsNow ==
  ASSUME HistoryInv, NEW b \in Bookings
  PROVE  /\ Waiting(b) = {s \in Sources : /\ PaymentCompleted(s) \in sent
                                          /\ s \notin venueDone /\ BookingOf(s) = b}
         /\ Dropped(b) = {s \in Sources : /\ PaymentCompleted(s) \in sent
                                          /\ s \in venueDone /\ BookingOf(s) = b
                                          /\ status[b] = "deleted"}
         /\ Late(b) = {s \in Sources : /\ PaymentTooLate(s) \in sent \ financeDone
                                       /\ BookingOf(s) = b}
<1>1. \A s \in Sources : PaymentTooLate(s) \notin quarantined
  BY DEF HistoryInv, PaymentTooLate, Event
<1>2. QED
  BY <1>1 DEF Waiting, Dropped, Late, PaymentsOf, Deliverable

LEMMA WaitingNext ==
  ASSUME SagaInv, HistoryInv, [Next]_vars, NEW b \in Bookings
  PROVE  \A s : s \in Waiting(b)' <=> /\ s \in Sources /\ PaymentCompleted(s) \in sent'
                                       /\ s \notin venueDone' /\ BookingOf(s) = b
BY PaymentsNext

LEMMA DroppedNext ==
  ASSUME SagaInv, HistoryInv, [Next]_vars, NEW b \in Bookings
  PROVE  \A s : s \in Dropped(b)' <=> /\ s \in Sources /\ PaymentCompleted(s) \in sent'
                                       /\ s \in venueDone' /\ BookingOf(s) = b
                                       /\ status'[b] = "deleted"
BY PaymentsNext

LEMMA LateNext ==
  ASSUME SagaInv, HistoryInv, [Next]_vars, NEW b \in Bookings
  PROVE  \A s : s \in Late(b)' <=> /\ s \in Sources
                                    /\ PaymentTooLate(s) \in sent' \ financeDone'
                                    /\ BookingOf(s) = b
BY PaymentsNext

LEMMA WaitingNow ==
  ASSUME HistoryInv, NEW b \in Bookings
  PROVE  \A s : s \in Waiting(b) <=> /\ s \in Sources /\ PaymentCompleted(s) \in sent
                                      /\ s \notin venueDone /\ BookingOf(s) = b
BY PaymentsNow

LEMMA DroppedNow ==
  ASSUME HistoryInv, NEW b \in Bookings
  PROVE  \A s : s \in Dropped(b) <=> /\ s \in Sources /\ PaymentCompleted(s) \in sent
                                      /\ s \in venueDone /\ BookingOf(s) = b
                                      /\ status[b] = "deleted"
BY PaymentsNow

LEMMA LateNow ==
  ASSUME HistoryInv, NEW b \in Bookings
  PROVE  \A s : s \in Late(b) <=> /\ s \in Sources
                                   /\ PaymentTooLate(s) \in sent \ financeDone
                                   /\ BookingOf(s) = b
BY PaymentsNow

LEMMA PaymentsAreFinite ==
  ASSUME NEW b \in Bookings
  PROVE  IsFiniteSet(Waiting(b)) /\ IsFiniteSet(Late(b)) /\ IsFiniteSet(Dropped(b))
<1>1. IsFiniteSet(Sources)
  BY FiniteAssumption, FS_Union DEF Sources
<1>2. QED
  BY <1>1, FS_Subset DEF Waiting, Late, Dropped, PaymentsOf

LEMMA CountWith ==
  ASSUME NEW S, IsFiniteSet(S), NEW e, e \notin S
  PROVE  Cardinality(S \cup {e}) = Cardinality(S) + 1 /\ Cardinality(S) \in Nat
BY FS_AddElement, FS_CardinalityType

LEMMA CountWithout ==
  ASSUME NEW S, IsFiniteSet(S), NEW e, e \in S
  PROVE  Cardinality(S \ {e}) = Cardinality(S) - 1 /\ Cardinality(S) \in Nat
BY FS_RemoveElement, FS_CardinalityType

\* A recorded transfer stays what it was.
LEMMA RecordedStays ==
  ASSUME SagaInv, Grows, NEW t \in Transfers, transfer[t] # NoTransfer
  PROVE  transfer'[t] = transfer[t] /\ BookingOf(t)' = BookingOf(t)
BY PaymentStays DEF Grows, TransfersGrow, Sources

LEMMA BroughtStays ==
  ASSUME SagaInv, HistoryInv, Grows, UNCHANGED receipt,
         NEW b, NEW kinds, "none" \notin kinds
  PROVE  Brought(b, kinds)' = Brought(b, kinds)
<1>1. ASSUME NEW t \in Transfers, receipt[t] \in kinds
      PROVE  transfer'[t] = transfer[t] /\ BookingOf(t)' = BookingOf(t)
  BY <1>1, RecordedStays DEF HistoryInv
<1>2. \A t \in Transfers :
        (IF receipt'[t] \in kinds /\ BookingOf(t)' = b THEN transfer'[t].amount ELSE 0)
          = (IF receipt[t] \in kinds /\ BookingOf(t) = b THEN transfer[t].amount ELSE 0)
  BY <1>1
<1>3. QED
  BY <1>2 DEF Brought

\* One more transfer is in the ledger.
TransferAdded(b, t, kind, kinds) ==
  SumFunction(Brought(b, kinds)')
    = SumFunction(Brought(b, kinds))
        + (IF kind \in kinds /\ BookingOf(t) = b THEN transfer[t].amount ELSE 0)

LEMMA BroughtGrows ==
  ASSUME SagaInv, HistoryInv, [Next]_vars, NEW t \in Transfers, Unrecorded(t),
         NEW kind, kind # "none", Record(t, kind), NEW b, NEW kinds, "none" \notin kinds
  PROVE  TransferAdded(b, t, kind, kinds)
<1> USE DEF Record
<1> DEFINE f == Brought(b, kinds)
<1> DEFINE g == Brought(b, kinds)'
<1>1. Grows /\ SagaInv'
  BY EveryStepGrows, SagaInvIsInductive
<1>2. \A u \in Transfers : receipt'[u] # "none" => transfer'[u] # NoTransfer
  BY ReceiptsAreMade DEF HistoryInv
<1>3. f \in [Transfers -> Int]
  BY BroughtIsLedger DEF SagaInv, HistoryInv
<1>4. g \in [Transfers -> Int]
  <2>1. ASSUME NEW u \in Transfers, receipt'[u] \in kinds PROVE transfer'[u].amount \in Int
    <3>1. transfer'[u] \in Transfer
      BY <1>1, <1>2, <2>1 DEF SagaInv, TypeOK
    <3>2. transfer'[u].amount \in Amounts
      BY <3>1 DEF Transfer
    <3>3. Amounts \subseteq Int
      BY AmountsAssumption
    <3>4. QED
      BY ONLY <3>2, <3>3
  <2>2. QED
    BY <2>1 DEF Brought
<1>5. receipt'[t] = kind /\ \A u \in Transfers \ {t} : receipt'[u] = receipt[u]
  BY DEF SagaInv, TypeOK
<1>6. \A u \in Transfers \ {t} : g[u] = f[u]
  <2>1. ASSUME NEW u \in Transfers \ {t}, receipt[u] \in kinds
        PROVE  transfer'[u] = transfer[u] /\ BookingOf(u)' = BookingOf(u)
    BY <1>1, <2>1, RecordedStays DEF HistoryInv
  <2>2. QED
    BY <1>5, <2>1 DEF Brought
<1>7. f[t] = 0
  BY DEF Brought, Unrecorded
<1>8. g[t] = IF kind \in kinds /\ BookingOf(t) = b THEN transfer[t].amount ELSE 0
  <2>1. transfer'[t] = transfer[t] /\ BookingOf(t)' = BookingOf(t)
    BY <1>1, RecordedStays DEF Unrecorded
  <2>2. QED
    BY <1>5, <2>1 DEF Brought
<1> HIDE DEF f, g
<1>9. SumFunction(g) = SumFunction(f) - f[t] + g[t]
  BY <1>3, <1>4, <1>6, FiniteAssumption, LedgerChanged
<1>10. SumFunction(f) \in Int /\ g[t] \in Int
  BY <1>3, <1>4, FiniteAssumption, LedgerIsInteger
<1>11. SumFunction(g) = SumFunction(f) + g[t]
  BY <1>7, <1>9, <1>10
<1>12. QED
  BY <1>8, <1>11 DEF f, g, TransferAdded

LEMMA AccountIsInteger ==
  ASSUME SagaInv, HistoryInv, NEW b \in Bookings
  PROVE  /\ MoneyIn(b) \in Int /\ Unmatched(b) \in Int /\ credited[b] \in Int
         /\ Cardinality(Waiting(b)) \in Nat /\ Cardinality(Late(b)) \in Nat
         /\ Cardinality(Dropped(b)) \in Nat /\ Confirmations(b) \in {0, 1}
         /\ Places(b) \in Int
<1>1. SumFunction(Brought(b, {"unmatched", "late", "booking", "partial"})) \in Int
  <2>1. Brought(b, {"unmatched", "late", "booking", "partial"}) \in [Transfers -> Int]
    BY BroughtIsLedger DEF SagaInv, HistoryInv
  <2>2. QED
    BY <2>1, FiniteAssumption, LedgerIsInteger
<1>2. SumFunction(Brought(b, {"unmatched"})) \in Int
  <2>1. Brought(b, {"unmatched"}) \in [Transfers -> Int]
    BY BroughtIsLedger DEF SagaInv, HistoryInv
  <2>2. QED
    BY <2>1, FiniteAssumption, LedgerIsInteger
<1>3. MoneyIn(b) \in Int /\ Unmatched(b) \in Int /\ credited[b] \in Int
  BY <1>1, <1>2, PriceAssumption DEF MoneyIn, Unmatched, SagaInv, TypeOK
<1>4. /\ Cardinality(Waiting(b)) \in Nat /\ Cardinality(Late(b)) \in Nat
      /\ Cardinality(Dropped(b)) \in Nat /\ Confirmations(b) \in {0, 1}
  BY PaymentsAreFinite, FS_CardinalityType DEF Confirmations
<1>5. QED
  BY <1>3, <1>4 DEF Places

\* The account stays balanced when its parts move together.
LEMMA AccountMoves ==
  ASSUME SagaInv, HistoryInv, NEW b \in Bookings, Account(b),
         NEW paid \in Int, NEW credit \in Int, NEW wait \in Int, NEW place \in {-1, 0, 1},
         MoneyIn(b)' = MoneyIn(b) + paid,
         credited'[b] = credited[b] + credit,
         Unmatched(b)' = Unmatched(b) + wait,
         Places(b)' = Places(b) + place,
         paid = credit + wait + Price * place
  PROVE  Account(b)'
<1> DEFINE now == Price * Places(b)
<1> DEFINE next == Price * (Places(b) + place)
<1> DEFINE step == Price * place
<1>1. /\ MoneyIn(b) \in Int /\ Unmatched(b) \in Int /\ credited[b] \in Int
      /\ Places(b) \in Int /\ Price \in Int
  BY AccountIsInteger, PriceAssumption
<1>2. next = now + step
  <2>1. CASE place = 0
    BY <1>1, <2>1
  <2>2. CASE place = 1
    BY <1>1, <2>2
  <2>3. CASE place = -1
    BY <1>1, <2>3
  <2>4. QED
    BY <2>1, <2>2, <2>3
<1>3. now \in Int /\ step \in Int
  BY <1>1
<1>4. MoneyIn(b) = credited[b] + Unmatched(b) + now /\ paid = credit + wait + step
  BY DEF Account
<1>5. MoneyIn(b)' = MoneyIn(b) + paid
  OBVIOUS
<1> HIDE DEF now, next, step
<1>6. MoneyIn(b) + paid = (credited[b] + credit) + (Unmatched(b) + wait) + next
  BY <1>1, <1>2, <1>3, <1>4
<1>7. MoneyIn(b)' = credited'[b] + Unmatched(b)' + next
  BY <1>5, <1>6
<1>8. next = Price * Places(b)'
  BY DEF next
<1>9. QED
  BY <1>7, <1>8 DEF Account

\* What the payments of a booking are counted by.
SameEvents ==
  /\ \A s \in Sources : /\ PaymentCompleted(s) \in sent' <=> PaymentCompleted(s) \in sent
                        /\ PaymentTooLate(s) \in sent' <=> PaymentTooLate(s) \in sent
                        /\ PaymentTooLate(s) \in financeDone' <=> PaymentTooLate(s) \in financeDone
  /\ \A b \in Bookings : BookingConfirmed(b) \in sent' <=> BookingConfirmed(b) \in sent
  /\ UNCHANGED venueDone

SameDeleted(b) == status'[b] = "deleted" <=> status[b] = "deleted"

LEMMA PlacesStay ==
  ASSUME SagaInv, HistoryInv, [Next]_vars, NEW b \in Bookings, SameEvents, SameDeleted(b)
  PROVE  Places(b)' = Places(b)
<1>1. Waiting(b)' = Waiting(b)
  BY WaitingNext, WaitingNow DEF SameEvents
<1>2. Late(b)' = Late(b)
  BY LateNext, LateNow DEF SameEvents
<1>3. Dropped(b)' = Dropped(b)
  BY DroppedNext, DroppedNow DEF SameEvents, SameDeleted
<1>4. Confirmations(b)' = Confirmations(b)
  BY DEF SameEvents, Confirmations, BookingConfirmed, Event
<1>5. QED
  BY <1>1, <1>2, <1>3, <1>4 DEF Places

LEMMA MoneyStays ==
  ASSUME SagaInv, HistoryInv, [Next]_vars, NEW b \in Bookings, UNCHANGED receipt,
         b \in balancePaid' <=> b \in balancePaid
  PROVE  MoneyIn(b)' = MoneyIn(b) /\ Unmatched(b)' = Unmatched(b)
<1>1. Grows
  BY EveryStepGrows
<1>2. /\ Brought(b, {"unmatched", "late", "booking", "partial"})'
           = Brought(b, {"unmatched", "late", "booking", "partial"})
      /\ Brought(b, {"unmatched"})' = Brought(b, {"unmatched"})
  BY <1>1, BroughtStays
<1>3. QED
  BY <1>2 DEF MoneyIn, Unmatched

LEMMA AccountStays ==
  ASSUME SagaInv, HistoryInv, [Next]_vars, NEW b \in Bookings, Account(b),
         SameEvents, SameDeleted(b), UNCHANGED <<receipt, balancePaid, credited>>
  PROVE  Account(b)'
<1>1. Places(b)' = Places(b)
  BY PlacesStay
<1>2. MoneyIn(b)' = MoneyIn(b) /\ Unmatched(b)' = Unmatched(b)
  BY MoneyStays
<1>3. QED
  BY <1>1, <1>2 DEF Account

\* The steps that move no payment.
LEMMA OtherSteps ==
  ASSUME SagaInv, [Next]_vars
  PROVE  \/ \E b \in Bookings : PayWithBalance(b) /\ b \notin balancePaid
         \/ \E t \in Transfers : RecordUnmatched(t) \/ CreditLateTransfer(t)
                                   \/ AcceptTransfer(t) \/ CreditPartialTransfer(t)
         \/ \E s \in Sources : HandlePaymentCompleted(s)
         \/ \E s \in Sources : CreditLatePayment(s)
         \/ \E b \in Bookings : LeaveCheckout(b)
         \/ /\ SameEvents /\ \A b \in Bookings : SameDeleted(b)
            /\ UNCHANGED <<receipt, balancePaid, credited>>
<1> USE DEF PaymentCompleted, PaymentTooLate, BookingConfirmed, BookingCancelled, Event
<1> DEFINE Still == /\ SameEvents /\ \A b \in Bookings : SameDeleted(b)
                    /\ UNCHANGED <<receipt, balancePaid, credited>>
<1>1. status \in [Bookings ->
                    {"held", "confirmed", "cancelled", "completed", "deleted"}]
  BY DEF SagaInv, TypeOK
<1>2. ASSUME NEW b \in Bookings, Venue(b), ~LeaveCheckout(b) PROVE Still
  <2>1. CASE Lapse(b) \/ Advance(b) \/ ReapExpiredBooking(b) \/ CompleteBooking(b)
    BY <1>1, <2>1
    DEF Lapse, Advance, ReapExpiredBooking, CompleteBooking, paymentVars, moneyVars,
        eventVars, SameEvents, SameDeleted
  <2>2. ASSUME NEW p \in RefundPercents, CancelBooking(b, p) PROVE Still
    BY <1>1, <2>2 DEF CancelBooking, paymentVars, moneyVars, SameEvents, SameDeleted
  <2>3. CASE ReadExpiredBooking(b) \/ HealBooking(b)
    BY <1>1, <2>3
    DEF ReadExpiredBooking, HealBooking, paymentVars, moneyVars, eventVars, SameEvents,
        SameDeleted
  <2>4. QED
    BY <1>2, <2>1, <2>2, <2>3 DEF Venue
<1>3. ASSUME Player PROVE Still
  BY <1>3
  DEF Player, AskForBalancePayment, CreateIntent, MakeTransfer, CreateDispute,
      bookingVars, paymentVars, moneyVars, eventVars, SameEvents, SameDeleted
<1>4. ASSUME NEW b \in Bookings, PayWithBalance(b), b \in balancePaid PROVE Still
  BY <1>4 DEF PayWithBalance, bookingVars, moneyVars, SameEvents, SameDeleted
<1>5. ASSUME NEW t \in Transfers,
             AskForTransfer(t) \/ IgnoreRecordedTransfer(t) \/ AllocationRefused(t)
      PROVE  Still
  BY <1>1, <1>5
  DEF AskForTransfer, ReadExpiredBooking, IgnoreRecordedTransfer, AllocationRefused,
      bookingVars, paymentVars, moneyVars, eventVars, SameEvents, SameDeleted
<1>6. ASSUME FinanceEvent, ~ \E s \in Sources : CreditLatePayment(s) PROVE Still
  <2>1. UNCHANGED <<bookingVars, paymentVars, sent>>
    BY <1>6, FinanceEventLeaves
  <2>2. /\ UNCHANGED credited
        /\ \A s \in Sources :
             PaymentTooLate(s) \in financeDone' <=> PaymentTooLate(s) \in financeDone
    BY <1>6
    DEF FinanceEvent, RecordBookingRevenue, RefundCancelledBooking, CloseCancelledBooking,
        RefundFails, Fail, Done, moneyVars
  <2>3. QED
    BY <2>1, <2>2 DEF bookingVars, paymentVars, SameEvents, SameDeleted
<1>7. ASSUME \/ \E b \in Bookings : ReleaseBookingRevenue(b)
             \/ \E b \in Bookings :
                  dispute[b] = "open" /\ \E a \in Decisions(b) : ResolveDispute(b, a)
      PROVE  Still
  <2>1. UNCHANGED <<bookingVars, paymentVars, eventVars>>
    BY <1>7, ReleaseLeaves
  <2>2. UNCHANGED credited
    BY <1>7 DEF ReleaseBookingRevenue, ResolveDispute
  <2>3. QED
    BY <2>1, <2>2 DEF bookingVars, paymentVars, eventVars, SameEvents, SameDeleted
<1>8. ASSUME UNCHANGED vars PROVE Still
  BY <1>8 DEF vars, bookingVars, paymentVars, moneyVars, eventVars, SameEvents, SameDeleted
<1> HIDE DEF Still
<1>9. \/ \E b \in Bookings : PayWithBalance(b) /\ b \notin balancePaid
      \/ \E t \in Transfers : RecordUnmatched(t) \/ CreditLateTransfer(t)
                                \/ AcceptTransfer(t) \/ CreditPartialTransfer(t)
      \/ \E s \in Sources : HandlePaymentCompleted(s)
      \/ \E s \in Sources : CreditLatePayment(s)
      \/ \E b \in Bookings : LeaveCheckout(b)
      \/ Still
  <2>1. CASE Finance
    BY <1>4, <1>5, <1>6, <1>7, <2>1 DEF Finance, TransferStep
  <2>2. CASE \E b \in Bookings : Venue(b)
    BY <1>2, <2>2
  <2>3. CASE \E s \in Sources : HandlePaymentCompleted(s)
    BY <2>3
  <2>4. QED
    BY <1>3, <1>8, <2>1, <2>2, <2>3 DEF Next
<1>10. QED
  BY <1>9 DEF Still

LEMMA BalancePaymentAccounted ==
  ASSUME SagaInv, HistoryInv, [Next]_vars, NEW b \in Bookings, Account(b),
         NEW c \in Bookings, PayWithBalance(c), c \notin balancePaid
  PROVE  Account(b)'
<1> USE DEF PaymentCompleted, PaymentTooLate, BookingConfirmed, BookingCancelled, Event
<1>1. /\ balancePaid' = balancePaid \cup {c} /\ sent' = sent \cup {PaymentCompleted(c)}
      /\ UNCHANGED <<receipt, credited, venueDone, status, financeDone>>
  BY DEF PayWithBalance, bookingVars, moneyVars
<1>2. PaymentCompleted(c) \notin sent /\ c \notin venueDone /\ BookingOf(c) = c
  BY SourcesAssumption DEF HistoryInv, PaymentIsTaken, VenueAnswered, Sources, BookingOf
<1>3. Late(b)' = Late(b) /\ Confirmations(b)' = Confirmations(b)
  <2>1. Late(b)' = Late(b)
    BY <1>1, LateNext, LateNow
  <2>2. Confirmations(b)' = Confirmations(b)
    BY <1>1 DEF Confirmations
  <2>3. QED
    BY <2>1, <2>2
<1>4. \A s \in Sources : PaymentCompleted(s) \in sent' <=> s = c \/ PaymentCompleted(s) \in sent
  BY <1>1
<1>5. Dropped(b)' = Dropped(b)
  <2>1. \A s : s \in Dropped(b)' <=> s \in Dropped(b)
    <3>1. \A s : s \in Dropped(b)' <=> /\ s \in Sources /\ PaymentCompleted(s) \in sent'
                                        /\ s \in venueDone' /\ BookingOf(s) = b
                                        /\ status'[b] = "deleted"
      BY DroppedNext
    <3>2. \A s : s \in Dropped(b) <=> /\ s \in Sources /\ PaymentCompleted(s) \in sent
                                       /\ s \in venueDone /\ BookingOf(s) = b
                                       /\ status[b] = "deleted"
      BY DroppedNow
    <3>3. QED
      BY ONLY <1>1, <1>2, <1>4, <3>1, <3>2
  <2>2. QED
    BY ONLY <2>1
<1>6. CASE b = c
  <2>1. Waiting(b)' = Waiting(b) \cup {c} /\ c \notin Waiting(b)
    <3>1. Waiting(b)' = {s \in Sources : /\ PaymentCompleted(s) \in sent'
                                         /\ s \notin venueDone' /\ BookingOf(s) = b}
      BY PaymentsNext
    <3>2. Waiting(b) = {s \in Sources : /\ PaymentCompleted(s) \in sent
                                        /\ s \notin venueDone /\ BookingOf(s) = b}
      BY PaymentsNow
    <3>3. c \in Sources /\ \A s \in Sources : PaymentCompleted(s) \in sent'
                             <=> s = c \/ PaymentCompleted(s) \in sent
      BY <1>1 DEF Sources
    <3>4. QED
      BY <1>1, <1>2, <1>6, <3>1, <3>2, <3>3
  <2>2. Cardinality(Waiting(b)') = Cardinality(Waiting(b)) + 1
    BY <2>1, CountWith, PaymentsAreFinite
  <2>3. Places(b)' = Places(b) + 1
    BY <1>3, <1>5, <2>2, AccountIsInteger DEF Places
  <2>4. MoneyIn(b)' = MoneyIn(b) + Price /\ Unmatched(b)' = Unmatched(b)
    <3>1. Grows
      BY EveryStepGrows
    <3>2. /\ Brought(b, {"unmatched", "late", "booking", "partial"})'
               = Brought(b, {"unmatched", "late", "booking", "partial"})
          /\ Brought(b, {"unmatched"})' = Brought(b, {"unmatched"})
      BY <1>1, <3>1, BroughtStays
    <3>3. b \in balancePaid' /\ b \notin balancePaid
      BY <1>1, <1>6
    <3>4. MoneyIn(b) \in Int /\ Price \in Int
      BY AccountIsInteger, PriceAssumption
    <3>5. SumFunction(Brought(b, {"unmatched", "late", "booking", "partial"})) = MoneyIn(b)
      <4>1. SumFunction(Brought(b, {"unmatched", "late", "booking", "partial"})) \in Int
        <5>1. Brought(b, {"unmatched", "late", "booking", "partial"}) \in [Transfers -> Int]
          BY BroughtIsLedger DEF SagaInv, HistoryInv
        <5>2. QED
          BY <5>1, FiniteAssumption, LedgerIsInteger
      <4>2. QED
        BY <3>3, <4>1 DEF MoneyIn
    <3>6. MoneyIn(b)' = Price + SumFunction(Brought(b, {"unmatched", "late", "booking", "partial"})')
      BY <3>3 DEF MoneyIn
    <3>7. QED
      BY <3>2, <3>4, <3>5, <3>6 DEF Unmatched
  <2>5. credited'[b] = credited[b] + 0 /\ Unmatched(b)' = Unmatched(b) + 0
    BY <1>1, <2>4, AccountIsInteger
  <2>6. Price \in Int /\ Price = 0 + 0 + Price * 1
    BY PriceAssumption
  <2>7. QED
    BY <2>3, <2>4, <2>5, <2>6, AccountMoves
<1>7. CASE b # c
  <2>1. Waiting(b)' = Waiting(b)
    <3>1. \A s : s \in Waiting(b)' <=> /\ s \in Sources /\ PaymentCompleted(s) \in sent'
                                        /\ s \notin venueDone' /\ BookingOf(s) = b
      BY WaitingNext
    <3>2. \A s : s \in Waiting(b) <=> /\ s \in Sources /\ PaymentCompleted(s) \in sent
                                       /\ s \notin venueDone /\ BookingOf(s) = b
      BY WaitingNow
    <3>3. \A s : s \in Waiting(b)' <=> s \in Waiting(b)
      BY ONLY <1>1, <1>2, <1>7, <1>4, <3>1, <3>2
    <3>4. QED
      BY ONLY <3>3
  <2>2. Places(b)' = Places(b)
    BY <1>3, <1>5, <2>1 DEF Places
  <2>3. MoneyIn(b)' = MoneyIn(b) /\ Unmatched(b)' = Unmatched(b)
    BY <1>1, <1>7, MoneyStays
  <2>4. QED
    BY <1>1, <2>2, <2>3 DEF Account
<1>8. QED
  BY <1>6, <1>7

\* What a recorded transfer brings, and to whom.
LEMMA TransferBrings ==
  ASSUME SagaInv, HistoryInv, [Next]_vars, NEW b \in Bookings,
         NEW t \in Transfers, Unrecorded(t),
         NEW kind \in {"unmatched", "late", "booking", "partial"},
         Record(t, kind), UNCHANGED balancePaid
  PROVE  /\ MoneyIn(b)' = MoneyIn(b) + (IF BookingOf(t) = b THEN transfer[t].amount ELSE 0)
         /\ Unmatched(b)' = Unmatched(b) + (IF kind = "unmatched" /\ BookingOf(t) = b
                                            THEN transfer[t].amount ELSE 0)
<1> DEFINE paid == IF BookingOf(t) = b THEN transfer[t].amount ELSE 0
<1>1. PICK all : all = {"unmatched", "late", "booking", "partial"}
  OBVIOUS
<1>2. PICK waiting : waiting = {"unmatched"}
  OBVIOUS
<1>3. kind # "none" /\ "none" \notin all /\ "none" \notin waiting
  BY <1>1, <1>2
<1>4. SumFunction(Brought(b, all)')
        = SumFunction(Brought(b, all))
            + (IF kind \in all /\ BookingOf(t) = b THEN transfer[t].amount ELSE 0)
  <2>1. TransferAdded(b, t, kind, all)
    BY <1>3, BroughtGrows
  <2>2. QED
    BY <2>1 DEF TransferAdded
<1>5. SumFunction(Brought(b, all)') = SumFunction(Brought(b, all)) + paid
  BY <1>4, <1>1
<1>6. SumFunction(Brought(b, waiting)')
        = SumFunction(Brought(b, waiting))
            + (IF kind \in waiting /\ BookingOf(t) = b THEN transfer[t].amount ELSE 0)
  <2>1. TransferAdded(b, t, kind, waiting)
    BY <1>3, BroughtGrows
  <2>2. QED
    BY <2>1 DEF TransferAdded
<1>7. Unmatched(b)' = Unmatched(b) + (IF kind = "unmatched" /\ BookingOf(t) = b
                                      THEN transfer[t].amount ELSE 0)
  BY <1>6, <1>2 DEF Unmatched
<1>8. SumFunction(Brought(b, all)) \in Int
  <2>1. Brought(b, all) \in [Transfers -> Int]
    BY <1>3, BroughtIsLedger DEF SagaInv, HistoryInv
  <2>2. QED
    BY <2>1, FiniteAssumption, LedgerIsInteger
<1>9. paid \in Int
  <2>1. transfer[t] \in Transfer
    BY DEF Unrecorded, SagaInv, TypeOK
  <2>2. transfer[t].amount \in Amounts /\ Amounts \subseteq Int
    BY <2>1, AmountsAssumption DEF Transfer
  <2>3. transfer[t].amount \in Int
    BY ONLY <2>2
  <2>4. QED
    BY <2>3
<1> DEFINE before == IF b \in balancePaid THEN Price ELSE 0
<1>10. before \in Int
  BY PriceAssumption
<1>11. /\ MoneyIn(b) = before + SumFunction(Brought(b, all))
      /\ MoneyIn(b)' = before + SumFunction(Brought(b, all)')
  BY <1>1 DEF MoneyIn
<1> HIDE DEF before, paid
<1>12. MoneyIn(b)' = MoneyIn(b) + paid
  BY ONLY <1>5, <1>8, <1>9, <1>10, <1>11
<1>13. QED
  BY <1>7, <1>12 DEF paid

\* A transfer that is recorded without a payment.
LEMMA TransferAccounted ==
  ASSUME SagaInv, HistoryInv, [Next]_vars, NEW b \in Bookings, Account(b),
         NEW t \in Transfers,
         RecordUnmatched(t) \/ CreditLateTransfer(t) \/ CreditPartialTransfer(t)
  PROVE  Account(b)'
<1> DEFINE amount == transfer[t].amount
<1>1. /\ Unrecorded(t)
      /\ UNCHANGED <<balancePaid, status, venueDone, sent, financeDone>>
  BY DEF RecordUnmatched, CreditLateTransfer, CreditPartialTransfer, bookingVars, eventVars
<1>2. Places(b)' = Places(b)
  <2>1. SameEvents /\ SameDeleted(b)
    BY <1>1 DEF SameEvents, SameDeleted, PaymentCompleted, PaymentTooLate, BookingConfirmed, Event
  <2>2. QED
    BY <2>1, PlacesStay
<1>3. amount \in Int
  <2>1. transfer[t] \in Transfer
    BY <1>1 DEF Unrecorded, SagaInv, TypeOK
  <2>2. amount \in Amounts /\ Amounts \subseteq Int
    BY <2>1, AmountsAssumption DEF Transfer
  <2>3. QED
    BY ONLY <2>2
<1>4. BookingOf(t) \in Bookings
  BY <1>1, PaymentHasBooking DEF SagaInv, Unrecorded, Sources
<1>5. /\ credited \in [Bookings -> Int] /\ credited[b] \in Int
      /\ MoneyIn(b) \in Int /\ Unmatched(b) \in Int /\ Places(b) \in Int /\ Price \in Int
  BY AccountIsInteger, PriceAssumption DEF SagaInv, TypeOK
<1> DEFINE paid == IF BookingOf(t) = b THEN amount ELSE 0
<1>6. paid \in Int
  BY <1>3
<1>7. CASE RecordUnmatched(t)
  <2>1. /\ MoneyIn(b)' = MoneyIn(b) + paid
        /\ Unmatched(b)' = Unmatched(b) + paid
    <3>1. receipt' = [receipt EXCEPT ![t] = "unmatched"]
      BY <1>7 DEF RecordUnmatched, Record
    <3>2. QED
      BY <1>1, <3>1, TransferBrings DEF Record
  <2>2. credited'[b] = credited[b] + 0 /\ Places(b)' = Places(b) + 0
    BY <1>2, <1>5, <1>7 DEF RecordUnmatched, moneyVars
  <2> HIDE DEF paid
  <2>3. paid = 0 + paid + Price * 0
    BY <1>5, <1>6
  <2>4. QED
    BY <1>6, <2>1, <2>2, <2>3, AccountMoves
<1>8. CASE CreditLateTransfer(t) \/ CreditPartialTransfer(t)
  <2>1. PICK kind \in {"late", "partial"} : receipt' = [receipt EXCEPT ![t] = kind]
    BY <1>8 DEF CreditLateTransfer, CreditPartialTransfer, Record
  <2>2. MoneyIn(b)' = MoneyIn(b) + paid /\ Unmatched(b)' = Unmatched(b) + 0
    BY <1>1, <1>5, <2>1, TransferBrings DEF Record
  <2>3. credited' = [credited EXCEPT ![BookingOf(t)] = credited[BookingOf(t)] + amount]
    BY <1>8 DEF CreditLateTransfer, CreditPartialTransfer, Credit
  <2>4. credited'[b] = credited[b] + paid /\ Places(b)' = Places(b) + 0
    BY <1>2, <1>4, <1>5, <2>3
  <2> HIDE DEF paid
  <2>5. paid = paid + 0 + Price * 0
    BY <1>5, <1>6
  <2>6. QED
    BY <1>6, <2>2, <2>4, <2>5, AccountMoves
<1>9. QED
  BY <1>7, <1>8

\* A transfer that pays for its booking.
LEMMA AcceptanceAccounted ==
  ASSUME SagaInv, HistoryInv, [Next]_vars, NEW b \in Bookings, Account(b),
         NEW t \in Transfers, AcceptTransfer(t)
  PROVE  Account(b)'
<1> USE DEF PaymentCompleted, PaymentTooLate, BookingConfirmed, BookingCancelled, Event
<1> DEFINE amount == transfer[t].amount
<1>1. /\ Unrecorded(t) /\ sent' = sent \cup {PaymentCompleted(t)}
      /\ receipt' = [receipt EXCEPT ![t] = "booking"]
      /\ credited' = [credited EXCEPT ![BookingOf(t)] = credited[BookingOf(t)] + (amount - Price)]
      /\ UNCHANGED <<balancePaid, status, venueDone, financeDone>>
  BY DEF AcceptTransfer, Record, Credit, bookingVars
<1>2. PaymentCompleted(t) \notin sent /\ t \notin venueDone /\ t \in Sources
  BY <1>1, SourcesAssumption DEF Unrecorded, HistoryInv, PaymentIsTaken, VenueAnswered, Sources
<1>3. amount \in Int
  <2>1. transfer[t] \in Transfer
    BY <1>1 DEF Unrecorded, SagaInv, TypeOK
  <2>2. amount \in Amounts /\ Amounts \subseteq Int
    BY <2>1, AmountsAssumption DEF Transfer
  <2>3. QED
    BY ONLY <2>2
<1>4. BookingOf(t) \in Bookings
  BY <1>1, PaymentHasBooking DEF SagaInv, Unrecorded, Sources
<1>5. /\ credited \in [Bookings -> Int] /\ credited[b] \in Int
      /\ MoneyIn(b) \in Int /\ Unmatched(b) \in Int /\ Places(b) \in Int /\ Price \in Int
  BY AccountIsInteger, PriceAssumption DEF SagaInv, TypeOK
<1>6. \A s \in Sources : PaymentCompleted(s) \in sent' <=> s = t \/ PaymentCompleted(s) \in sent
  BY <1>1
<1>7. Late(b)' = Late(b) /\ Confirmations(b)' = Confirmations(b)
  <2>1. Late(b)' = Late(b)
    BY <1>1, LateNext, LateNow
  <2>2. Confirmations(b)' = Confirmations(b)
    BY <1>1 DEF Confirmations
  <2>3. QED
    BY <2>1, <2>2
<1>8. Dropped(b)' = Dropped(b)
  <2>1. \A s : s \in Dropped(b)' <=> /\ s \in Sources /\ PaymentCompleted(s) \in sent'
                                      /\ s \in venueDone' /\ BookingOf(s) = b
                                      /\ status'[b] = "deleted"
    BY DroppedNext
  <2>2. \A s : s \in Dropped(b) <=> /\ s \in Sources /\ PaymentCompleted(s) \in sent
                                     /\ s \in venueDone /\ BookingOf(s) = b
                                     /\ status[b] = "deleted"
    BY DroppedNow
  <2>3. \A s : s \in Dropped(b)' <=> s \in Dropped(b)
    BY ONLY <1>1, <1>2, <1>6, <2>1, <2>2
  <2>4. QED
    BY ONLY <2>3
<1>9. \A s : s \in Waiting(b)' <=> s \in Waiting(b) \/ (s = t /\ BookingOf(t) = b)
  <2>1. \A s : s \in Waiting(b)' <=> /\ s \in Sources /\ PaymentCompleted(s) \in sent'
                                      /\ s \notin venueDone' /\ BookingOf(s) = b
    BY WaitingNext
  <2>2. \A s : s \in Waiting(b) <=> /\ s \in Sources /\ PaymentCompleted(s) \in sent
                                     /\ s \notin venueDone /\ BookingOf(s) = b
    BY WaitingNow
  <2>3. QED
    BY ONLY <1>1, <1>2, <1>6, <2>1, <2>2
<1>10. CASE BookingOf(t) = b
  <2>1. Waiting(b)' = Waiting(b) \cup {t} /\ t \notin Waiting(b)
    BY <1>2, <1>9, <1>10, WaitingNow
  <2>2. Cardinality(Waiting(b)') = Cardinality(Waiting(b)) + 1
    BY <2>1, CountWith, PaymentsAreFinite
  <2>3. Places(b)' = Places(b) + 1
    BY <1>7, <1>8, <2>2, AccountIsInteger DEF Places
  <2>4. MoneyIn(b)' = MoneyIn(b) + amount /\ Unmatched(b)' = Unmatched(b) + 0
    BY <1>1, <1>5, <1>10, TransferBrings DEF Record
  <2>5. credited'[b] = credited[b] + (amount - Price)
    BY <1>1, <1>4, <1>5, <1>10
  <2> HIDE DEF amount
  <2>6. amount = (amount - Price) + 0 + Price * 1 /\ amount - Price \in Int
    BY <1>3, <1>5
  <2>7. QED
    BY <1>3, <2>3, <2>4, <2>5, <2>6, AccountMoves
<1>11. CASE BookingOf(t) # b
  <2>1. Waiting(b)' = Waiting(b)
    BY <1>9, <1>11
  <2>2. Places(b)' = Places(b)
    BY <1>7, <1>8, <2>1 DEF Places
  <2>3. MoneyIn(b)' = MoneyIn(b) + 0 /\ Unmatched(b)' = Unmatched(b) + 0
    BY <1>1, <1>5, <1>11, TransferBrings DEF Record
  <2>4. credited'[b] = credited[b]
    BY <1>1, <1>4, <1>5, <1>11
  <2>5. QED
    BY <1>5, <2>2, <2>3, <2>4 DEF Account
<1>12. QED
  BY <1>10, <1>11

\* Reading a booking moves no payment.
LEMMA ReadAccounted ==
  ASSUME SagaInv, HistoryInv, [Next]_vars, NEW b \in Bookings, Account(b),
         NEW r \in Sources, ReadPayableBooking(r)
  PROVE  Account(b)'
<1>1. SameEvents /\ SameDeleted(b) /\ UNCHANGED <<receipt, balancePaid, credited>>
  BY DEF ReadPayableBooking, SameEvents, SameDeleted, PaymentCompleted, PaymentTooLate,
         BookingConfirmed, Event, paymentVars, moneyVars, eventVars
<1>2. QED
  BY <1>1, AccountStays

\* Venue answers a payment: it is dropped, confirms its booking or is late.
LEMMA AnswerAccounted ==
  ASSUME SagaInv, HistoryInv, [Next]_vars, NEW b \in Bookings, Account(b),
         NEW r \in Sources, HandlePaymentCompleted(r), ~ReadPayableBooking(r)
  PROVE  Account(b)'
<1> USE DEF PaymentCompleted, PaymentTooLate, BookingConfirmed, BookingCancelled, Event
<1>1. /\ PaymentCompleted(r) \in sent /\ r \notin venueDone
      /\ venueDone' = venueDone \cup {r}
      /\ UNCHANGED <<receipt, balancePaid, credited, financeDone>>
  BY AnswerLeaves
  DEF HandlePaymentCompleted, ConfirmBooking, FindNoBooking, RefusePayment, paymentVars,
      moneyVars
<1>2. BookingOf(r) \in Bookings
  BY <1>1, PaymentHasBooking DEF SagaInv
<1> DEFINE c == BookingOf(r)
<1>3. PaymentTooLate(r) \notin sent /\ PaymentTooLate(r) \notin financeDone
  BY <1>1 DEF HistoryInv, VenueAnswered, SagaInv, TypeOK
<1>4. status \in [Bookings ->
                    {"held", "confirmed", "cancelled", "completed", "deleted"}]
  BY DEF SagaInv, TypeOK
<1>5. \/ status[c] = "deleted" /\ UNCHANGED <<status, sent>>
      \/ /\ status[c] # "deleted" /\ status' = [status EXCEPT ![c] = "confirmed"]
         /\ sent' = sent \cup {BookingConfirmed(c)} /\ BookingConfirmed(c) \notin sent
      \/ /\ status[c] # "deleted"
         /\ status' = [status EXCEPT ![c] = IF status[c] = "held" THEN "cancelled" ELSE status[c]]
         /\ sent' = sent \cup {PaymentTooLate(r)}
  <2>1. CASE ConfirmBooking(r)
    BY <2>1 DEF ConfirmBooking, HistoryInv, ConfirmingIsFresh
  <2>2. CASE FindNoBooking(r)
    BY <2>2 DEF FindNoBooking, eventVars
  <2>3. CASE RefusePayment(r)
    BY <2>3 DEF RefusePayment, CancelHeld
  <2>4. QED
    BY <2>1, <2>2, <2>3 DEF HandlePaymentCompleted
<1>6. \A s \in Sources : PaymentCompleted(s) \in sent' <=> PaymentCompleted(s) \in sent
  BY <1>5
<1>7. MoneyIn(b)' = MoneyIn(b) /\ Unmatched(b)' = Unmatched(b)
  BY <1>1, MoneyStays
<1>8. status'[c] = "deleted" <=> status[c] = "deleted"
  BY <1>2, <1>4, <1>5
<1>9. \A d \in Bookings : d # c => status'[d] = status[d]
  BY <1>2, <1>4, <1>5
<1> HIDE DEF c
<1>10. \A s : s \in Waiting(b)' <=> s \in Waiting(b) /\ s # r
  <2>1. \A s : s \in Waiting(b)' <=> /\ s \in Sources /\ PaymentCompleted(s) \in sent'
                                      /\ s \notin venueDone' /\ BookingOf(s) = b
    BY WaitingNext
  <2>2. \A s : s \in Waiting(b) <=> /\ s \in Sources /\ PaymentCompleted(s) \in sent
                                     /\ s \notin venueDone /\ BookingOf(s) = b
    BY WaitingNow
  <2>3. QED
    BY ONLY <1>1, <1>6, <2>1, <2>2
<1>11. \A s : s \in Dropped(b)' <=> s \in Dropped(b) \/ (s = r /\ c = b /\ status[b] = "deleted")
  <2>1. \A s : s \in Dropped(b)' <=> /\ s \in Sources /\ PaymentCompleted(s) \in sent'
                                      /\ s \in venueDone' /\ BookingOf(s) = b
                                      /\ status'[b] = "deleted"
    BY DroppedNext
  <2>2. \A s : s \in Dropped(b) <=> /\ s \in Sources /\ PaymentCompleted(s) \in sent
                                     /\ s \in venueDone /\ BookingOf(s) = b
                                     /\ status[b] = "deleted"
    BY DroppedNow
  <2>3. status'[b] = "deleted" <=> status[b] = "deleted"
    BY <1>8, <1>9
  <2>4. c = BookingOf(r)
    BY DEF c
  <2>5. QED
    BY ONLY <1>1, <1>6, <2>1, <2>2, <2>3, <2>4
<1>12. \A s : s \in Late(b)'
              <=> s \in Late(b) \/ (s = r /\ c = b /\ PaymentTooLate(r) \in sent')
  <2>1. \A s : s \in Late(b)' <=> /\ s \in Sources
                                   /\ PaymentTooLate(s) \in sent' \ financeDone'
                                   /\ BookingOf(s) = b
    BY LateNext
  <2>2. \A s : s \in Late(b) <=> /\ s \in Sources
                                  /\ PaymentTooLate(s) \in sent \ financeDone
                                  /\ BookingOf(s) = b
    BY LateNow
  <2>3. \A s \in Sources : s # r => (PaymentTooLate(s) \in sent' <=> PaymentTooLate(s) \in sent)
    BY <1>5
  <2>4. c = BookingOf(r) /\ r \in Sources
    BY DEF c
  <2>5. r \notin Late(b) /\ (r \in Late(b)' <=> c = b /\ PaymentTooLate(r) \in sent')
    BY ONLY <1>1, <1>3, <2>1, <2>2, <2>4
  <2>6. \A s : s # r => (s \in Late(b)' <=> s \in Late(b))
    BY ONLY <1>1, <2>1, <2>2, <2>3
  <2>7. QED
    BY ONLY <2>5, <2>6
<1>13. CASE c # b
  <2>1. Waiting(b)' = Waiting(b) /\ Dropped(b)' = Dropped(b) /\ Late(b)' = Late(b)
    <3>1. r \notin Waiting(b)
      BY <1>13, WaitingNow DEF c
    <3>2. Waiting(b)' = Waiting(b)
      BY ONLY <1>10, <3>1
    <3>3. Dropped(b)' = Dropped(b)
      BY ONLY <1>11, <1>13
    <3>4. Late(b)' = Late(b)
      BY ONLY <1>12, <1>13
    <3>5. QED
      BY <3>2, <3>3, <3>4
  <2>2. Confirmations(b)' = Confirmations(b)
    BY <1>5, <1>13 DEF Confirmations
  <2>3. Places(b)' = Places(b)
    BY <2>1, <2>2 DEF Places
  <2>4. QED
    BY <1>1, <1>7, <2>3 DEF Account
<1>14. CASE c = b
  <2>1. Waiting(b)' = Waiting(b) \ {r} /\ r \in Waiting(b)
    BY <1>1, <1>10, <1>14, WaitingNow DEF c
  <2>2. Cardinality(Waiting(b)') = Cardinality(Waiting(b)) - 1
    BY <2>1, CountWithout, PaymentsAreFinite
  <2>3. r \notin Dropped(b) /\ r \notin Late(b)
    BY <1>1, <1>3, DroppedNow, LateNow
  <2>4. /\ Cardinality(Late(b)) \in Nat /\ Cardinality(Dropped(b)) \in Nat
        /\ Cardinality(Waiting(b)) \in Nat /\ Confirmations(b) \in {0, 1}
    BY AccountIsInteger
  <2>5. CASE status[b] = "deleted" /\ UNCHANGED <<status, sent>>
    <3>1. Dropped(b)' = Dropped(b) \cup {r}
      BY <1>11, <1>14, <2>5
    <3>2. Late(b)' = Late(b)
      <4>1. PaymentTooLate(r) \notin sent'
        BY <1>3, <2>5
      <4>2. QED
        BY ONLY <1>12, <4>1
    <3>3. Confirmations(b)' = Confirmations(b)
      BY <2>5 DEF Confirmations
    <3>4. Cardinality(Dropped(b)') = Cardinality(Dropped(b)) + 1
      BY <2>3, <3>1, CountWith, PaymentsAreFinite
    <3>5. Places(b)' = Places(b)
      BY <2>2, <2>4, <3>2, <3>3, <3>4 DEF Places
    <3>6. QED
      BY <1>1, <1>7, <3>5 DEF Account
  <2>6. CASE /\ status[b] # "deleted" /\ BookingConfirmed(b) \notin sent
             /\ sent' = sent \cup {BookingConfirmed(b)}
    <3>1. Dropped(b)' = Dropped(b)
      BY <1>11, <2>6
    <3>2. Late(b)' = Late(b)
      <4>1. PaymentTooLate(r) \notin sent'
        BY <1>3, <2>6
      <4>2. QED
        BY ONLY <1>12, <4>1
    <3>3. Confirmations(b) = 0 /\ Confirmations(b)' = 1
      BY <2>6 DEF Confirmations
    <3>4. Places(b)' = Places(b)
      BY <2>2, <2>4, <3>1, <3>2, <3>3 DEF Places
    <3>5. QED
      BY <1>1, <1>7, <3>4 DEF Account
  <2>7. CASE status[b] # "deleted" /\ sent' = sent \cup {PaymentTooLate(r)}
    <3>1. Dropped(b)' = Dropped(b)
      BY <1>11, <2>7
    <3>2. Late(b)' = Late(b) \cup {r}
      BY <1>12, <1>14, <2>7
    <3>3. Confirmations(b)' = Confirmations(b)
      BY <2>7 DEF Confirmations
    <3>4. Cardinality(Late(b)') = Cardinality(Late(b)) + 1
      BY <2>3, <3>2, CountWith, PaymentsAreFinite
    <3>5. Places(b)' = Places(b)
      BY <2>2, <2>4, <3>1, <3>3, <3>4 DEF Places
    <3>6. QED
      BY <1>1, <1>7, <3>5 DEF Account
  <2>8. QED
    BY <1>5, <1>14, <2>5, <2>6, <2>7
<1>15. QED
  BY <1>13, <1>14

\* A late payment becomes balance.
LEMMA LateCreditAccounted ==
  ASSUME SagaInv, HistoryInv, [Next]_vars, NEW b \in Bookings, Account(b),
         NEW r \in Sources, CreditLatePayment(r)
  PROVE  Account(b)'
<1> USE DEF PaymentCompleted, PaymentTooLate, BookingConfirmed, BookingCancelled, Event
<1>1. /\ PaymentTooLate(r) \in sent /\ PaymentTooLate(r) \notin financeDone
      /\ financeDone' = financeDone \cup {PaymentTooLate(r)}
      /\ credited' = [credited EXCEPT ![BookingOf(r)] = credited[BookingOf(r)] + Price]
      /\ UNCHANGED <<receipt, balancePaid, status, venueDone, sent>>
  BY DEF CreditLatePayment, Deliverable, Done, Credit, bookingVars, paymentVars
<1>2. BookingOf(r) \in Bookings
  BY <1>1, PaymentHasBooking DEF SagaInv
<1>3. /\ credited \in [Bookings -> Int] /\ credited[b] \in Int
      /\ MoneyIn(b) \in Int /\ Unmatched(b) \in Int /\ Places(b) \in Int /\ Price \in Int
  BY AccountIsInteger, PriceAssumption DEF SagaInv, TypeOK
<1>4. MoneyIn(b)' = MoneyIn(b) + 0 /\ Unmatched(b)' = Unmatched(b) + 0
  BY <1>1, <1>3, MoneyStays
<1>5. Waiting(b)' = Waiting(b)
  BY <1>1, WaitingNext, WaitingNow
<1>6. Dropped(b)' = Dropped(b)
  BY <1>1, DroppedNext, DroppedNow
<1>7. Confirmations(b)' = Confirmations(b)
  BY <1>1 DEF Confirmations
<1>8. \A s : s \in Late(b)' <=> s \in Late(b) /\ s # r
  BY <1>1, LateNext, LateNow
<1>9. CASE BookingOf(r) = b
  <2>1. Late(b)' = Late(b) \ {r} /\ r \in Late(b)
    BY <1>1, <1>8, <1>9, LateNow
  <2>2. Cardinality(Late(b)') = Cardinality(Late(b)) - 1
    BY <2>1, CountWithout, PaymentsAreFinite
  <2>3. Places(b)' = Places(b) + (-1)
    BY <1>5, <1>6, <1>7, <2>2, AccountIsInteger DEF Places
  <2>4. credited'[b] = credited[b] + Price
    BY <1>1, <1>2, <1>3, <1>9
  <2>5. 0 = Price + 0 + Price * (-1)
    BY <1>3
  <2>6. QED
    BY <1>3, <1>4, <2>3, <2>4, <2>5, AccountMoves
<1>10. CASE BookingOf(r) # b
  <2>1. Late(b)' = Late(b)
    <3>1. r \notin Late(b)
      BY <1>10, LateNow
    <3>2. QED
      BY ONLY <1>8, <3>1
  <2>2. Places(b)' = Places(b)
    BY <1>5, <1>6, <1>7, <2>1 DEF Places
  <2>3. credited'[b] = credited[b]
    BY <1>1, <1>2, <1>3, <1>10
  <2>4. QED
    BY <1>3, <1>4, <2>2, <2>3 DEF Account
<1>11. QED
  BY <1>9, <1>10

\* The player leaves a booking that venue has not answered a payment for.
LEMMA LeavingAccounted ==
  ASSUME SagaInv, HistoryInv, [Next]_vars, NEW b \in Bookings, Account(b),
         NEW c \in Bookings, LeaveCheckout(c)
  PROVE  Account(b)'
<1> USE DEF PaymentCompleted, PaymentTooLate, BookingConfirmed, BookingCancelled, Event
<1>1. /\ status[c] = "held" /\ status' = [status EXCEPT ![c] = "deleted"]
      /\ UNCHANGED <<receipt, balancePaid, credited, venueDone, sent, financeDone>>
  BY DEF LeaveCheckout, paymentVars, moneyVars, eventVars
<1>2. MoneyIn(b)' = MoneyIn(b) /\ Unmatched(b)' = Unmatched(b)
  BY <1>1, MoneyStays
<1>3. Waiting(b)' = Waiting(b) /\ Late(b)' = Late(b)
  <2>1. Waiting(b)' = Waiting(b)
    BY <1>1, WaitingNext, WaitingNow
  <2>2. Late(b)' = Late(b)
    BY <1>1, LateNext, LateNow
  <2>3. QED
    BY <2>1, <2>2
<1>4. Confirmations(b)' = Confirmations(b)
  BY <1>1 DEF Confirmations
<1>5. Dropped(b)' = Dropped(b)
  <2>1. \A s : s \in Dropped(b)' <=> /\ s \in Sources /\ PaymentCompleted(s) \in sent'
                                      /\ s \in venueDone' /\ BookingOf(s) = b
                                      /\ status'[b] = "deleted"
    BY DroppedNext
  <2>2. \A s : s \in Dropped(b) <=> /\ s \in Sources /\ PaymentCompleted(s) \in sent
                                     /\ s \in venueDone /\ BookingOf(s) = b
                                     /\ status[b] = "deleted"
    BY DroppedNow
  <2>3. CASE c # b
    <3>1. status'[b] = status[b]
      BY <1>1, <2>3 DEF SagaInv, TypeOK
    <3>2. \A s : s \in Dropped(b)' <=> s \in Dropped(b)
      BY ONLY <1>1, <2>1, <2>2, <3>1
    <3>3. QED
      BY ONLY <3>2
  <2>4. CASE c = b
    <3>1. \A s \in Sources : s \in venueDone => BookingOf(s) # b
      BY <1>1, <2>4 DEF HistoryInv, VenueAnswered
    <3>2. \A s : s \notin Dropped(b)' /\ s \notin Dropped(b)
      BY ONLY <1>1, <2>1, <2>2, <3>1
    <3>3. QED
      BY ONLY <3>2
  <2>5. QED
    BY <2>3, <2>4
<1>6. Places(b)' = Places(b)
  BY <1>3, <1>4, <1>5 DEF Places
<1>7. QED
  BY <1>1, <1>2, <1>6 DEF Account

LEMMA AccountNext ==
  ASSUME SagaInv, HistoryInv, [Next]_vars, NEW b \in Bookings, Account(b)
  PROVE  Account(b)'
BY OtherSteps, BalancePaymentAccounted, TransferAccounted, AcceptanceAccounted,
   AnswerAccounted, ReadAccounted, LateCreditAccounted, LeavingAccounted, AccountStays

LEMMA AccountStarts == ASSUME Init, NEW b \in Bookings PROVE Account(b)
<1> USE DEF PaymentCompleted, PaymentTooLate, BookingConfirmed, Event
<1>1. /\ Brought(b, {"unmatched", "late", "booking", "partial"}) = [t \in Transfers |-> 0]
      /\ Brought(b, {"unmatched"}) = [t \in Transfers |-> 0]
  BY DEF Init, Brought
<1>2. SumFunction([t \in Transfers |-> 0]) = 0
  BY FiniteAssumption, LedgerOfZeros
<1>3. MoneyIn(b) = 0 /\ Unmatched(b) = 0 /\ credited[b] = 0
  BY <1>1, <1>2 DEF Init, MoneyIn, Unmatched
<1>4. Waiting(b) = {} /\ Late(b) = {} /\ Dropped(b) = {} /\ Confirmations(b) = 0
  BY DEF Init, Waiting, Late, Dropped, PaymentsOf, Deliverable, Confirmations
<1>5. Places(b) = 0
  BY <1>4, FS_EmptySet DEF Places
<1>6. QED
  BY <1>3, <1>5, PriceAssumption DEF Account

\* BR-FIN-15 and BR-FIN-17 for every set of bookings, intents and transfers,
\* and with events in any order, late, repeated or set aside: every amount
\* paid for a booking is in exactly one place.
THEOREM MoneyIsConserved == Spec => []MoneyConserved
<1> DEFINE Accounts == \A b \in Bookings : Account(b)
<1>1. Init => Accounts
  BY AccountStarts
<1>2. SagaInv /\ HistoryInv /\ Accounts /\ [Next]_vars => Accounts'
  BY AccountNext
<1>3. SagaInv /\ HistoryInv /\ Accounts => MoneyConserved
  BY AccountIsConservation
<1> HIDE DEF Accounts
<1>4. QED
  BY <1>1, <1>2, <1>3, SagaCorrect, HistoryCorrect, PTL DEF Spec
=============================================================================
