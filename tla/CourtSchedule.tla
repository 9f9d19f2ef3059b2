---------------------------- MODULE CourtSchedule ----------------------------
(***************************************************************************)
(* The court schedule of venue-booking-service: the tables holds and       *)
(* bookings of some courts, and every transaction that changes them.       *)
(*                                                                         *)
(* A transaction that takes its locks first and reads and writes under     *)
(* them is one action.  Three transactions are split in two, because what  *)
(* they read is used after another transaction may have committed:         *)
(*   - createBookingFromHold reads the hold under the lock of the hold and *)
(*     only then waits for the lock of the court;                          *)
(*   - handlePaymentCompleted reads the clock and the booking, and then    *)
(*     updates the booking by its id, while the unlocked reapers run;      *)
(*   - getPaymentStatus / getMatchContext read an expired held booking and *)
(*     cancel it by its id, under no lock at all.                          *)
(*                                                                         *)
(* A booking made from hold i is booking i: bookings.holdId is unique.     *)
(* Operational shutdowns, the opening hours and the approval of a venue    *)
(* only restrict which requests are accepted; they are left out, and a     *)
(* request of this module is one that passed them.                         *)
(***************************************************************************)
EXTENDS Integers, FiniteSets

CONSTANTS
  Users,             \* players
  Courts,            \* the courts of one venue
  Ranges,            \* time ranges <<startAt, endAt>> that are requested
  HoldIds,           \* ids of holds (and of the bookings made from them)
  NoHold,            \* a row that is not in the table holds
  NoBooking,         \* a row that is not in the table bookings
  HoldDuration,      \* HOLD_DURATION_MS, in ticks of the clock
  MaxTime,           \* bound on the clock
  ParallelRequests   \* may one player have two requests running at once?

ASSUME TimeAssumption == HoldDuration \in Nat \ {0} /\ MaxTime \in Nat
ASSUME RangeAssumption == Ranges \subseteq Nat \X Nat
ASSUME FlagAssumption == ParallelRequests \in BOOLEAN

VARIABLES
  now,       \* the clock every Date.now() reads
  used,      \* hold ids given out so far
  hold,      \* table holds
  booking,   \* marketplace rows of the table bookings
  internal,  \* confirmed internal bookings, as <<court, range>>
  tx         \* transactions that have read and not yet written

vars == <<now, used, hold, booking, internal, tx>>

-----------------------------------------------------------------------------
(* Types *)

Time == 0..MaxTime

Hold == [user : Users, court : Courts, range : Ranges,
         purpose : {"checkout", "match"}, exp : Time]

\* reason: null, or the cancellationReason a cancellation endpoint wrote
Booking == [user : Users, court : Courts, range : Ranges, exp : Time,
            status : {"held", "confirmed", "cancelled", "completed"},
            reason : {"null", "cancelled_on_request"}]

Transaction ==
  [op : {"book"}, id : HoldIds, snapshot : Hold]
    \cup [op : {"pay"}, id : HoldIds, court : Courts,
          seen : {"held", "confirmed", "cancelled", "completed"},
          payable : BOOLEAN]
    \cup [op : {"heal"}, id : HoldIds]

\* A missing row is not mistaken for a row.
ASSUME RowAssumption == NoHold \notin Hold /\ NoBooking \notin Booking

TypeOK ==
  /\ now \in Time
  /\ used \subseteq HoldIds
  /\ hold \in [HoldIds -> Hold \cup {NoHold}]
  /\ booking \in [HoldIds -> Booking \cup {NoBooking}]
  /\ internal \subseteq Courts \X Ranges
  /\ tx \subseteq Transaction

-----------------------------------------------------------------------------
(* The tables and the locks *)

Holds == {i \in HoldIds : hold[i] # NoHold}
Bookings == {i \in HoldIds : booking[i] # NoBooking}

Overlap(r, s) == r[1] < s[2] /\ s[1] < r[2]

LiveHold(i) == i \in Holds /\ hold[i].exp > now

Held(i) == i \in Bookings /\ booking[i].status = "held"
Confirmed(i) == i \in Bookings /\ booking[i].status = "confirmed"

\* isStillPayable: held, and the hold it was made from has not expired
StillPayable(i) == Held(i) /\ booking[i].exp > now

\* Mutant: bookings that were entered at the counter are not looked at.
SoldOverlapsOfPlayers(c, r) ==
  \E i \in HoldIds : /\ Confirmed(i) /\ booking[i].court = c
                     /\ Overlap(booking[i].range, r)

\* a confirmed booking, of a player or internal, overlaps range r of court c
SoldOverlaps(c, r) ==
  \/ \E i \in HoldIds : /\ Confirmed(i) /\ booking[i].court = c
                        /\ Overlap(booking[i].range, r)
  \/ \E b \in internal : b[1] = c /\ Overlap(b[2], r)

HoldOverlaps(c, r) ==
  \E i \in HoldIds : /\ LiveHold(i) /\ hold[i].court = c
                     /\ Overlap(hold[i].range, r)

\* lockCourtSchedule: held by the transactions that are between read and write
CourtLocked(c) == \E t \in tx : t.op = "pay" /\ t.court = c

\* the advisory lock on a bookingId, and the one on a holdId
BookingLocked(i) == \E t \in tx : t.op = "pay" /\ t.id = i
HoldLocked(i) == \E t \in tx : t.op = "book" /\ t.id = i

\* With one request at a time, a player waits for a booking before asking more.
MayRequest(u) ==
  ParallelRequests \/ ~ \E t \in tx : t.op = "book" /\ t.snapshot.user = u

-----------------------------------------------------------------------------
(* Holds *)

CheckoutHolds(u) ==
  {i \in Holds : hold[i].user = u /\ hold[i].purpose = "checkout"}

\* Mutant: the hold under a booking that waits for its payment is replaced too.
CheckoutInProgressNever(u) == FALSE

\* CHECKOUT_IN_PROGRESS: a live checkout hold of u carries a payable booking
CheckoutInProgress(u) ==
  \E i \in CheckoutHolds(u) :
    LiveHold(i) /\ StillPayable(i) /\ booking[i].user = u

\* what createHold deletes: expired holds of the court, checkout holds of u
ReplacedHolds(u, c) ==
  {i \in Holds : hold[i].court = c /\ ~LiveHold(i)} \cup CheckoutHolds(u)

\* Mutant: no exclusion constraint on the table holds.
SlotFreeOfSalesOnly(c, r, gone) == ~SoldOverlaps(c, r)

\* no confirmed booking, and holds_no_overlap over the rows that remain
SlotFree(c, r, gone) ==
  /\ ~SoldOverlaps(c, r)
  /\ ~ \E i \in Holds \ gone : hold[i].court = c /\ Overlap(hold[i].range, r)

CreateHold(u, c, r, i) ==
  /\ i \notin used
  /\ MayRequest(u)
  /\ r[1] >= now /\ r[1] < r[2]
  /\ now + HoldDuration <= MaxTime
  /\ ~CourtLocked(c)
  /\ ~CheckoutInProgress(u)
  /\ SlotFree(c, r, ReplacedHolds(u, c))
  /\ used' = used \cup {i}
  /\ hold' = [j \in HoldIds |->
                IF j = i THEN [user |-> u, court |-> c, range |-> r,
                               purpose |-> "checkout",
                               exp |-> now + HoldDuration]
                ELSE IF j \in ReplacedHolds(u, c) THEN NoHold ELSE hold[j]]
  /\ UNCHANGED <<now, booking, internal, tx>>

\* reapExpiredHolds deletes the expired rows, under no lock
ReapExpiredHolds ==
  /\ \E i \in Holds : ~LiveHold(i)
  /\ hold' = [i \in HoldIds |-> IF LiveHold(i) THEN hold[i] ELSE NoHold]
  /\ UNCHANGED <<now, used, booking, internal, tx>>

-----------------------------------------------------------------------------
(* Bookings from holds *)

\* First half of createBookingFromHold, under the lock of the hold.  A hold
\* that has a booking already answers with it and changes nothing.
ReadHoldForBooking(i) ==
  /\ LiveHold(i)
  /\ booking[i] = NoBooking
  /\ ~HoldLocked(i)
  /\ MayRequest(hold[i].user)
  /\ tx' = tx \cup {[op |-> "book", id |-> i, snapshot |-> hold[i]]}
  /\ UNCHANGED <<now, used, hold, booking, internal>>

\* Second half, once the lock of the court is granted: it inserts the booking
\* from the hold as it was read, and leaves the hold in place.
CreateBookingFromHold(t) ==
  /\ t.op = "book"
  /\ ~CourtLocked(t.snapshot.court)
  /\ booking' = [booking EXCEPT ![t.id] =
                   [user |-> t.snapshot.user, court |-> t.snapshot.court,
                    range |-> t.snapshot.range, exp |-> t.snapshot.exp,
                    status |-> "held", reason |-> "null"]]
  /\ tx' = tx \ {t}
  /\ UNCHANGED <<now, used, hold, internal>>

\* activateMatchHold moves both deadlines to the one of the match.
ActivateMatchHold(i, deadline) ==
  /\ Held(i) /\ LiveHold(i)
  /\ MayRequest(booking[i].user)
  /\ deadline > now /\ deadline # booking[i].exp
  /\ ~CourtLocked(booking[i].court) /\ ~BookingLocked(i)
  /\ hold' = [hold EXCEPT ![i].purpose = "match", ![i].exp = deadline]
  /\ booking' = [booking EXCEPT ![i].exp = deadline]
  /\ UNCHANGED <<now, used, internal, tx>>

\* cancelBookingByPlayer on a held booking deletes the booking and its hold.
LeaveCheckout(i) ==
  /\ Held(i)
  /\ MayRequest(booking[i].user)
  /\ ~CourtLocked(booking[i].court) /\ ~BookingLocked(i)
  /\ booking' = [booking EXCEPT ![i] = NoBooking]
  /\ hold' = [hold EXCEPT ![i] = NoHold]
  /\ UNCHANGED <<now, used, internal, tx>>

-----------------------------------------------------------------------------
(* PaymentCompleted *)

\* First half of handlePaymentCompleted: under the locks of the court and of
\* the booking, it reads the booking and the clock.
ReadBookingForPayment(i) ==
  /\ i \in Bookings
  /\ ~CourtLocked(booking[i].court) /\ ~BookingLocked(i)
  /\ tx' = tx \cup {[op |-> "pay", id |-> i, court |-> booking[i].court,
                     seen |-> booking[i].status, payable |-> StillPayable(i)]}
  /\ UNCHANGED <<now, used, hold, booking, internal>>

\* the holds a confirmation deletes: same court, user and range
HoldsOfBooking(i) ==
  {j \in Holds : /\ hold[j].court = booking[i].court
                 /\ hold[j].user = booking[i].user
                 /\ hold[j].range = booking[i].range}

\* bookings_confirmed_no_overlap would refuse to confirm booking i
ConfirmationExcluded(i) == SoldOverlaps(booking[i].court, booking[i].range)

\* Second half, payable: the update is by id, whatever the status is by then.
ConfirmBooking(t) ==
  /\ t.op = "pay" /\ t.payable
  /\ ~ConfirmationExcluded(t.id)
  /\ booking' = [booking EXCEPT ![t.id].status = "confirmed"]
  /\ hold' = [j \in HoldIds |->
                IF j \in HoldsOfBooking(t.id) THEN NoHold ELSE hold[j]]
  /\ tx' = tx \ {t}
  /\ UNCHANGED <<now, used, internal>>

\* Second half, payable, and the exclusion constraint aborts the transaction.
ConfirmationRefused(t) ==
  /\ t.op = "pay" /\ t.payable
  /\ ConfirmationExcluded(t.id)
  /\ tx' = tx \ {t}
  /\ UNCHANGED <<now, used, hold, booking, internal>>

\* Second half, too late: a booking that was held is cancelled.
RejectLatePayment(t) ==
  /\ t.op = "pay" /\ ~t.payable
  /\ booking' = IF t.seen = "held"
                THEN [booking EXCEPT ![t.id].status = "cancelled"]
                ELSE booking
  /\ tx' = tx \ {t}
  /\ UNCHANGED <<now, used, hold, internal>>

-----------------------------------------------------------------------------
(* Expiry, completion, cancellation *)

\* First half of getPaymentStatus and getMatchContext: an expired held booking
\* is found.
ReadExpiredBooking(i) ==
  /\ Held(i) /\ ~StillPayable(i)
  /\ tx' = tx \cup {[op |-> "heal", id |-> i]}
  /\ tx' # tx
  /\ UNCHANGED <<now, used, hold, booking, internal>>

\* Second half: update by id, with no condition on the status (a row that is
\* gone makes the request fail).
CancelExpiredBooking(t) ==
  /\ t.op = "heal"
  /\ booking' = IF t.id \in Bookings
                THEN [booking EXCEPT ![t.id].status = "cancelled"]
                ELSE booking
  /\ tx' = tx \ {t}
  /\ UNCHANGED <<now, used, hold, internal>>

\* Mutant: only a booking that still has its hold is found.
ReapBookingsWithHold ==
  /\ \E i \in Holds : Held(i) /\ ~StillPayable(i)
  /\ booking' = [i \in HoldIds |->
                   IF Held(i) /\ ~StillPayable(i) /\ i \in Holds
                   THEN [booking[i] EXCEPT !.status = "cancelled"]
                   ELSE booking[i]]
  /\ UNCHANGED <<now, used, hold, internal, tx>>

\* reapExpiredHeldBookings, and the same conditional update of listMyBookings
\* and getMatchContexts
ReapExpiredBookings ==
  /\ \E i \in HoldIds : Held(i) /\ ~StillPayable(i)
  /\ booking' = [i \in HoldIds |->
                   IF Held(i) /\ ~StillPayable(i)
                   THEN [booking[i] EXCEPT !.status = "cancelled"]
                   ELSE booking[i]]
  /\ UNCHANGED <<now, used, hold, internal, tx>>

\* completeEndedBookings
CompleteEndedBooking(i) ==
  /\ Confirmed(i) /\ booking[i].range[2] <= now
  /\ ~BookingLocked(i)
  /\ booking' = [booking EXCEPT ![i].status = "completed"]
  /\ UNCHANGED <<now, used, hold, internal, tx>>

\* cancelBookingByPlayer on a confirmed booking, and the cancellations by the
\* provider and by an administrator: before the start, under the court's lock
CancelConfirmedBooking(i) ==
  /\ Confirmed(i) /\ booking[i].range[1] > now
  /\ ~CourtLocked(booking[i].court)
  /\ booking' = [booking EXCEPT ![i].status = "cancelled",
                                ![i].reason = "cancelled_on_request"]
  /\ UNCHANGED <<now, used, hold, internal, tx>>

\* changeBookingCourt locks the replacement court only
ChangeBookingCourt(i, c) ==
  /\ Confirmed(i) /\ booking[i].range[1] > now
  /\ c # booking[i].court
  /\ ~CourtLocked(c)
  /\ ~SoldOverlaps(c, booking[i].range)
  /\ ~HoldOverlaps(c, booking[i].range)
  /\ booking' = [booking EXCEPT ![i].court = c]
  /\ UNCHANGED <<now, used, hold, internal, tx>>

\* Mutant: a counter booking is entered without looking at holds.
CreateInternalBookingOverHolds(c, r) ==
  /\ r[1] < r[2]
  /\ ~CourtLocked(c)
  /\ ~SoldOverlaps(c, r)
  /\ internal' = internal \cup {<<c, r>>}
  /\ UNCHANGED <<now, used, hold, booking, tx>>

CreateInternalBooking(c, r) ==
  /\ r[1] < r[2]
  /\ ~CourtLocked(c)
  /\ ~SoldOverlaps(c, r)
  /\ ~HoldOverlaps(c, r)
  /\ internal' = internal \cup {<<c, r>>}
  /\ UNCHANGED <<now, used, hold, booking, tx>>

\* cancelInternalBooking, and completeEndedBookings on an internal booking
RemoveInternalBooking(b) ==
  /\ b \in internal
  /\ internal' = internal \ {b}
  /\ UNCHANGED <<now, used, hold, booking, tx>>

Tick ==
  /\ now < MaxTime
  /\ now' = now + 1
  /\ UNCHANGED <<used, hold, booking, internal, tx>>

-----------------------------------------------------------------------------
(* The specification *)

Init ==
  /\ now = 0
  /\ used = {}
  /\ hold = [i \in HoldIds |-> NoHold]
  /\ booking = [i \in HoldIds |-> NoBooking]
  /\ internal = {}
  /\ tx = {}

Requests ==
  \/ \E u \in Users, c \in Courts, r \in Ranges, i \in HoldIds :
       CreateHold(u, c, r, i)
  \/ \E i \in HoldIds : ReadHoldForBooking(i)
  \/ \E i \in HoldIds, d \in Time : ActivateMatchHold(i, d)
  \/ \E i \in HoldIds : LeaveCheckout(i)
  \/ \E i \in HoldIds : ReadBookingForPayment(i)
  \/ \E i \in HoldIds : ReadExpiredBooking(i)
  \/ \E i \in HoldIds : CancelConfirmedBooking(i)
  \/ \E i \in HoldIds, c \in Courts : ChangeBookingCourt(i, c)
  \/ \E c \in Courts, r \in Ranges : CreateInternalBooking(c, r)
  \/ \E b \in internal : RemoveInternalBooking(b)

Commits ==
  \E t \in tx : \/ CreateBookingFromHold(t)
                \/ ConfirmBooking(t)
                \/ ConfirmationRefused(t)
                \/ RejectLatePayment(t)
                \/ CancelExpiredBooking(t)

Scheduler ==
  \/ ReapExpiredHolds
  \/ ReapExpiredBookings
  \/ \E i \in HoldIds : CompleteEndedBooking(i)

Next == Requests \/ Commits \/ Scheduler \/ Tick

Spec == Init /\ [][Next]_vars

\* The clock runs, a transaction that has its locks ends, and startReapScheduler
\* runs its jobs again and again.
Fairness ==
  /\ WF_vars(Tick) /\ WF_vars(Commits)
  /\ WF_vars(ReapExpiredHolds) /\ WF_vars(ReapExpiredBookings)

FairSpec == Spec /\ Fairness

-----------------------------------------------------------------------------
(* Properties *)

\* While a booking can still be paid, the hold it was made from is in place,
\* alive, on the same court and range: nobody else can take the slot during
\* the payment (createBookingFromHold keeps the hold for this reason).
PayableBookingKeepsItsHold ==
  \A i \in HoldIds : StillPayable(i) =>
    /\ LiveHold(i)
    /\ hold[i].court = booking[i].court
    /\ hold[i].range = booking[i].range
    /\ hold[i].exp = booking[i].exp

\* Two players are never asked to pay for overlapping ranges of one court
\* ("two people paying for one slot", the comment of createBookingFromHold).
OnePayerPerSlot ==
  \A i, j \in HoldIds :
    /\ i # j /\ StillPayable(i) /\ StillPayable(j)
    /\ booking[i].court = booking[j].court
    => ~Overlap(booking[i].range, booking[j].range)

\* A payment that was found in time is never turned down by the exclusion
\* constraint of the bookings: the slot it paid for has not been sold.
PaidInTimeIsNeverExcluded ==
  \A t \in tx : t.op = "pay" /\ t.payable => ~ConfirmationExcluded(t.id)

\* A live hold stands on unsold time: createHold, createInternalBooking,
\* changeBookingCourt and the confirmation each respect the other table.
LiveHoldsAreUnsold ==
  \A i \in HoldIds : LiveHold(i) => ~SoldOverlaps(hold[i].court, hold[i].range)

\* A player has at most one live checkout hold (A-BOK-01).
OneCheckoutHoldPerPlayer ==
  \A i, j \in HoldIds :
    /\ i # j /\ LiveHold(i) /\ LiveHold(j)
    /\ hold[i].purpose = "checkout" /\ hold[j].purpose = "checkout"
    => hold[i].user # hold[j].user

\* Time is sold once per court, to players and at the counter together, even
\* when a player's parallel requests have taken the hold from under a booking.
NoDoubleSale ==
  /\ \A i, j \in HoldIds :
       /\ i # j /\ Confirmed(i) /\ Confirmed(j)
       /\ booking[i].court = booking[j].court
       => ~Overlap(booking[i].range, booking[j].range)
  /\ \A i \in HoldIds, b \in internal :
       Confirmed(i) /\ booking[i].court = b[1] => ~Overlap(booking[i].range, b[2])
  /\ \A a, b \in internal : a # b /\ a[1] = b[1] => ~Overlap(a[2], b[2])

\* What the proofs add to TypeOK and to the properties above, when a player has
\* one request at a time.  The rows of a table exclude each other, an id is
\* used once, and a booking agrees with the hold it was made from.
RowsAgree ==
  /\ \A i \in Holds : i \in used /\ hold[i].range[1] < hold[i].range[2]
  /\ \A i, j \in Holds : i # j /\ hold[i].court = hold[j].court
                         => ~Overlap(hold[i].range, hold[j].range)
  /\ \A i \in Bookings : i \in used
  /\ \A i \in Holds \cap Bookings :
       /\ booking[i].user = hold[i].user /\ booking[i].court = hold[i].court
       /\ booking[i].range = hold[i].range
  /\ \A i \in HoldIds : Confirmed(i) => i \notin Holds

\* What createBookingFromHold read is still true when it comes to write.
SnapshotIsCurrent ==
  /\ \A t, v \in tx : t.op = "book" /\ v.op = "book" /\ t # v => t.id # v.id
  /\ \A t \in tx : t.op = "book" =>
       /\ t.id \in used /\ t.id \notin Bookings
       /\ t.id \in Holds => hold[t.id] = t.snapshot
       /\ t.snapshot.exp > now => t.id \in Holds

\* While handlePaymentCompleted is between read and write, its court stays as
\* it was: no other hold comes to the time it is about to sell.
PaymentIsAlone ==
  /\ \A t, v \in tx : t.op = "pay" /\ v.op = "pay" /\ t # v
                      => t.id # v.id /\ t.court # v.court
  /\ \A t \in tx : t.op = "pay" => t.id \in Bookings
  /\ \A t \in tx : t.op = "pay" /\ t.payable =>
       /\ booking[t.id].status \in {"held", "cancelled"}
       /\ booking[t.id].court = t.court
       /\ \A j \in Holds : j # t.id /\ hold[j].court = t.court
                          => ~Overlap(hold[j].range, booking[t.id].range)

ScheduleInv ==
  /\ TypeOK
  /\ RowsAgree
  /\ SnapshotIsCurrent
  /\ PaymentIsAlone
  /\ PayableBookingKeepsItsHold
  /\ PaidInTimeIsNeverExcluded
  /\ LiveHoldsAreUnsold

\* An unpaid booking does not stay held: it is confirmed, cancelled or left.
HeldBookingsEnd == \A i \in HoldIds : Held(i) ~> ~Held(i)

\* A confirmed booking becomes cancelled only by a cancellation the player, the
\* provider or an administrator asked for, which records its reason.
ConfirmedLeavesWithReason ==
  [][\A i \in HoldIds :
       Confirmed(i) /\ i \in Bookings' /\ booking'[i].status = "cancelled"
       => booking'[i].reason = "cancelled_on_request"]_vars
=============================================================================
