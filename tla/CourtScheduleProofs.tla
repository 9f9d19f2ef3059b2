------------------------- MODULE CourtScheduleProofs -------------------------
(***************************************************************************)
(* Proofs about module CourtSchedule, for every set of players, courts,    *)
(* ranges and ids, and for every value of HoldDuration and MaxTime.        *)
(***************************************************************************)
EXTENDS CourtSchedule, TLAPS

-----------------------------------------------------------------------------
(* Types *)

\* TypeOK is inductive once the booking of a payment is known to exist: it is
\* updated by its id, and only the advisory lock keeps it from being deleted.
PaymentHasBooking == \A t \in tx : t.op = "pay" => t.id \in Bookings

TypeInv == TypeOK /\ PaymentHasBooking

LEMMA InitTypeInv == Init => TypeInv
  BY TimeAssumption DEF Init, TypeInv, TypeOK, Time, PaymentHasBooking

\* A row that is updated is still a row.
LEMMA UpdatedBooking ==
  ASSUME TypeOK, NEW i \in Bookings,
         NEW row \in Booking, booking' = [booking EXCEPT ![i] = row]
  PROVE  /\ booking' \in [HoldIds -> Booking \cup {NoBooking}]
         /\ Bookings' = Bookings
  BY RowAssumption DEF TypeOK, Bookings

LEMMA BookingRow ==
  ASSUME TypeOK, NEW i \in Bookings
  PROVE  i \in HoldIds /\ booking[i] \in Booking
  BY DEF TypeOK, Bookings

LEMMA HoldRow ==
  ASSUME TypeOK, NEW i \in Holds
  PROVE  i \in HoldIds /\ hold[i] \in Hold
  BY DEF TypeOK, Holds

\* A new status, and a reason with it, leave a row of the table bookings.
LEMMA StatusUpdate ==
  ASSUME TypeOK, NEW i \in Bookings,
         NEW s \in {"held", "confirmed", "cancelled", "completed"},
         booking' = [booking EXCEPT ![i].status = s]
  PROVE  /\ booking' \in [HoldIds -> Booking \cup {NoBooking}]
         /\ Bookings' = Bookings
<1>1. [booking[i] EXCEPT !.status = s] \in Booking
  BY BookingRow DEF Booking
<1>2. booking' = [booking EXCEPT ![i] = [booking[i] EXCEPT !.status = s]]
  OBVIOUS
<1>3. QED
  BY <1>1, <1>2, UpdatedBooking

\* Every request of a player, a provider or a reader keeps the types.
LEMMA RequestsTypeInv == TypeInv /\ Requests => TypeInv'
<1> SUFFICES ASSUME TypeInv, Requests PROVE TypeInv'
  OBVIOUS
<1> USE DEF TypeInv
<1>1. ASSUME NEW u \in Users, NEW c \in Courts, NEW r \in Ranges,
             NEW i \in HoldIds, CreateHold(u, c, r, i)
      PROVE  TypeInv'
  <2>1. [user |-> u, court |-> c, range |-> r, purpose |-> "checkout",
         exp |-> now + HoldDuration] \in Hold
    BY <1>1, TimeAssumption DEF CreateHold, Hold, Time, TypeOK
  <2>2. hold' \in [HoldIds -> Hold \cup {NoHold}]
    BY <1>1, <2>1 DEF CreateHold, TypeOK
  <2>3. QED
    BY <1>1, <2>2 DEF CreateHold, TypeOK, PaymentHasBooking, Bookings
<1>2. ASSUME NEW i \in HoldIds, ReadHoldForBooking(i) PROVE TypeInv'
  <2>1. [op |-> "book", id |-> i, snapshot |-> hold[i]] \in Transaction
    BY <1>2, HoldRow DEF ReadHoldForBooking, LiveHold, Transaction
  <2>2. QED
    BY <1>2, <2>1 DEF ReadHoldForBooking, TypeOK, PaymentHasBooking, Bookings
<1>3. ASSUME NEW i \in HoldIds, NEW d \in Time, ActivateMatchHold(i, d)
      PROVE  TypeInv'
  <2>1. i \in Bookings /\ hold[i] \in Hold /\ booking[i] \in Booking
    BY <1>3, HoldRow, BookingRow DEF ActivateMatchHold, LiveHold, Held
  <2>2. hold' \in [HoldIds -> Hold \cup {NoHold}]
    BY <1>3, <2>1 DEF ActivateMatchHold, Hold, TypeOK
  <2>3. [booking[i] EXCEPT !.exp = d] \in Booking
    BY <2>1 DEF Booking
  <2>4. booking' = [booking EXCEPT ![i] = [booking[i] EXCEPT !.exp = d]]
    BY <1>3 DEF ActivateMatchHold
  <2>5. /\ booking' \in [HoldIds -> Booking \cup {NoBooking}]
        /\ Bookings' = Bookings
    BY <2>1, <2>3, <2>4, UpdatedBooking
  <2>6. QED
    BY <1>3, <2>2, <2>5 DEF ActivateMatchHold, TypeOK, PaymentHasBooking
<1>4. ASSUME NEW i \in HoldIds, LeaveCheckout(i) PROVE TypeInv'
  BY <1>4 DEF LeaveCheckout, TypeOK, PaymentHasBooking, Bookings, BookingLocked
<1>5. ASSUME NEW i \in HoldIds, ReadBookingForPayment(i) PROVE TypeInv'
  <2>1. i \in Bookings /\ booking[i] \in Booking
    BY <1>5, BookingRow DEF ReadBookingForPayment
  <2>2. StillPayable(i) \in BOOLEAN
    BY DEF StillPayable
  <2>3. [op |-> "pay", id |-> i, court |-> booking[i].court,
         seen |-> booking[i].status, payable |-> StillPayable(i)] \in Transaction
    BY <2>1, <2>2 DEF Booking, Transaction
  <2>4. QED
    BY <1>5, <2>1, <2>3
       DEF ReadBookingForPayment, TypeOK, PaymentHasBooking, Bookings
<1>6. ASSUME NEW i \in HoldIds, ReadExpiredBooking(i) PROVE TypeInv'
  <2>1. [op |-> "heal", id |-> i] \in Transaction
    BY DEF Transaction
  <2>2. QED
    BY <1>6, <2>1 DEF ReadExpiredBooking, TypeOK, PaymentHasBooking, Bookings
<1>7. ASSUME NEW i \in HoldIds, CancelConfirmedBooking(i) PROVE TypeInv'
  <2>1. i \in Bookings /\ booking[i] \in Booking
    BY <1>7, BookingRow DEF CancelConfirmedBooking, Confirmed
  <2> DEFINE row == [booking[i] EXCEPT !.status = "cancelled",
                                       !.reason = "cancelled_on_request"]
  <2>2. row \in Booking
    BY <2>1 DEF Booking
  <2>3. booking' = [booking EXCEPT ![i] = row]
    BY <1>7 DEF CancelConfirmedBooking
  <2>4. /\ booking' \in [HoldIds -> Booking \cup {NoBooking}]
        /\ Bookings' = Bookings
    BY <2>1, <2>2, <2>3, UpdatedBooking
  <2>5. QED
    BY <1>7, <2>4 DEF CancelConfirmedBooking, TypeOK, PaymentHasBooking
<1>8. ASSUME NEW i \in HoldIds, NEW c \in Courts, ChangeBookingCourt(i, c)
      PROVE  TypeInv'
  <2>1. i \in Bookings /\ booking[i] \in Booking
    BY <1>8, BookingRow DEF ChangeBookingCourt, Confirmed
  <2>2. [booking[i] EXCEPT !.court = c] \in Booking
    BY <2>1 DEF Booking
  <2>3. booking' = [booking EXCEPT ![i] = [booking[i] EXCEPT !.court = c]]
    BY <1>8 DEF ChangeBookingCourt
  <2>4. /\ booking' \in [HoldIds -> Booking \cup {NoBooking}]
        /\ Bookings' = Bookings
    BY <2>1, <2>2, <2>3, UpdatedBooking
  <2>5. QED
    BY <1>8, <2>4 DEF ChangeBookingCourt, TypeOK, PaymentHasBooking
<1>9. ASSUME NEW c \in Courts, NEW r \in Ranges, CreateInternalBooking(c, r)
      PROVE  TypeInv'
  BY <1>9 DEF CreateInternalBooking, TypeOK, PaymentHasBooking, Bookings
<1>10. ASSUME NEW b \in internal, RemoveInternalBooking(b) PROVE TypeInv'
  BY <1>10 DEF RemoveInternalBooking, TypeOK, PaymentHasBooking, Bookings
<1>11. QED
  BY <1>1, <1>2, <1>3, <1>4, <1>5, <1>6, <1>7, <1>8, <1>9, <1>10 DEF Requests

\* The second halves of the transactions keep the types.
LEMMA CommitsTypeInv == TypeInv /\ Commits => TypeInv'
<1> SUFFICES ASSUME TypeInv, NEW t \in tx,
                    \/ CreateBookingFromHold(t) \/ ConfirmBooking(t)
                    \/ ConfirmationRefused(t) \/ RejectLatePayment(t)
                    \/ CancelExpiredBooking(t)
             PROVE  TypeInv'
  BY DEF Commits
<1> USE DEF TypeInv
<1>1. t.id \in HoldIds
  BY DEF Transaction, TypeOK
<1>2. CASE CreateBookingFromHold(t)
  <2>1. t.snapshot \in Hold
    BY <1>2 DEF CreateBookingFromHold, Transaction, TypeOK
  <2>2. [user |-> t.snapshot.user, court |-> t.snapshot.court,
         range |-> t.snapshot.range, exp |-> t.snapshot.exp,
         status |-> "held", reason |-> "null"] \in Booking
    BY <2>1 DEF Hold, Booking
  <2>3. QED
    BY <1>1, <1>2, <2>2, RowAssumption
       DEF CreateBookingFromHold, TypeOK, PaymentHasBooking, Bookings
<1>3. CASE ConfirmBooking(t)
  <2>1. t.id \in Bookings
    BY <1>3 DEF ConfirmBooking, PaymentHasBooking
  <2>2. QED
    BY <1>3, <2>1, StatusUpdate DEF ConfirmBooking, TypeOK, PaymentHasBooking
<1>4. CASE ConfirmationRefused(t)
  BY <1>4 DEF ConfirmationRefused, TypeOK, PaymentHasBooking, Bookings
<1>5. CASE RejectLatePayment(t)
  <2>1. t.id \in Bookings
    BY <1>5 DEF RejectLatePayment, PaymentHasBooking
  <2>2. CASE booking' = booking
    BY <1>5, <2>2 DEF RejectLatePayment, TypeOK, PaymentHasBooking, Bookings
  <2>3. CASE booking' = [booking EXCEPT ![t.id].status = "cancelled"]
    BY <1>5, <2>1, <2>3, StatusUpdate
       DEF RejectLatePayment, TypeOK, PaymentHasBooking
  <2>4. QED
    BY <1>5, <2>2, <2>3 DEF RejectLatePayment
<1>6. CASE CancelExpiredBooking(t)
  <2>1. CASE t.id \notin Bookings
    BY <1>6, <2>1 DEF CancelExpiredBooking, TypeOK, PaymentHasBooking, Bookings
  <2>2. CASE t.id \in Bookings
    BY <1>6, <2>2, StatusUpdate DEF CancelExpiredBooking, TypeOK, PaymentHasBooking
  <2>3. QED
    BY <2>1, <2>2
<1>7. QED
  BY <1>2, <1>3, <1>4, <1>5, <1>6

\* The jobs of startReapScheduler keep the types.
LEMMA SchedulerTypeInv == TypeInv /\ Scheduler => TypeInv'
<1> SUFFICES ASSUME TypeInv, Scheduler PROVE TypeInv'
  OBVIOUS
<1> USE DEF TypeInv
<1>1. CASE ReapExpiredHolds
  BY <1>1, HoldRow
     DEF ReapExpiredHolds, LiveHold, TypeOK, PaymentHasBooking, Bookings
<1>2. CASE ReapExpiredBookings
  <2>1. \A i \in Bookings : [booking[i] EXCEPT !.status = "cancelled"] \in Booking
    BY BookingRow DEF Booking
  <2>2. booking' \in [HoldIds -> Booking \cup {NoBooking}]
    BY <1>2, <2>1 DEF ReapExpiredBookings, Held, TypeOK
  <2>3. Bookings' = Bookings
    BY <1>2, <2>1, RowAssumption DEF ReapExpiredBookings, Held, Bookings
  <2>4. QED
    BY <1>2, <2>2, <2>3 DEF ReapExpiredBookings, TypeOK, PaymentHasBooking
<1>3. ASSUME NEW i \in HoldIds, CompleteEndedBooking(i) PROVE TypeInv'
  BY <1>3, StatusUpdate
     DEF CompleteEndedBooking, Confirmed, TypeOK, PaymentHasBooking
<1>4. QED
  BY <1>1, <1>2, <1>3 DEF Scheduler

LEMMA NextTypeInv == TypeInv /\ [Next]_vars => TypeInv'
<1> SUFFICES ASSUME TypeInv, [Next]_vars PROVE TypeInv'
  OBVIOUS
<1>1. CASE Tick
  BY <1>1, TimeAssumption
     DEF Tick, Time, TypeInv, TypeOK, PaymentHasBooking, Bookings
<1>2. CASE UNCHANGED vars
  BY <1>2 DEF vars, TypeInv, TypeOK, PaymentHasBooking, Bookings
<1>3. QED
  BY <1>1, <1>2, RequestsTypeInv, CommitsTypeInv, SchedulerTypeInv DEF Next

\* Every state has well-formed tables, whatever requests run in parallel.
THEOREM TypeCorrect == Spec => []TypeOK
<1>1. Spec => []TypeInv
  BY InitTypeInv, NextTypeInv, PTL DEF Spec
<1>2. TypeInv => TypeOK
  BY DEF TypeInv
<1>3. QED
  BY <1>1, <1>2, PTL

-----------------------------------------------------------------------------
(* One request at a time *)

\* ScheduleInv is inductive when no player has two requests running at once.
\* There is one lemma for each action that writes a table or the set tx.

LEMMA InitScheduleInv == Init => ScheduleInv
<1> SUFFICES ASSUME Init PROVE ScheduleInv
  OBVIOUS
<1>1. Holds = {} /\ Bookings = {} /\ tx = {}
  BY DEF Init, Holds, Bookings
<1>2. QED
  BY <1>1, InitTypeInv
     DEF Init, TypeInv, ScheduleInv, RowsAgree, SnapshotIsCurrent, PaymentIsAlone,
         PayableBookingKeepsItsHold, PaidInTimeIsNeverExcluded,
         LiveHoldsAreUnsold, Confirmed, StillPayable, Held, LiveHold

LEMMA CreateHoldInv ==
  ASSUME ScheduleInv, TypeOK', ~ParallelRequests,
         NEW u \in Users, NEW c \in Courts, NEW r \in Ranges,
         NEW i \in HoldIds, CreateHold(u, c, r, i)
  PROVE  ScheduleInv'
<1> DEFINE gone == ReplacedHolds(u, c)
<1> USE DEF ScheduleInv
<1>1. i \notin Holds /\ i \notin Bookings
  BY DEF CreateHold, RowsAgree
<1>2. /\ Holds' \subseteq (Holds \ gone) \cup {i}
      /\ Holds \ gone \subseteq Holds'
      /\ \A j \in Holds \ gone : hold'[j] = hold[j]
      /\ hold'[i].user = u /\ hold'[i].court = c /\ hold'[i].range = r
  BY <1>1 DEF CreateHold, Holds
<1>3. \A j \in HoldIds : StillPayable(j) => j \in Holds \ gone
  BY DEF PayableBookingKeepsItsHold, CreateHold, CheckoutInProgress,
         ReplacedHolds, CheckoutHolds, RowsAgree, LiveHold, StillPayable, Held
<1>4. \A t \in tx : t.op = "book" /\ t.snapshot.exp > now => t.id \in Holds \ gone
  BY DEF SnapshotIsCurrent, CreateHold, MayRequest, ReplacedHolds, CheckoutHolds,
         LiveHold
<1>5. RowsAgree'
  <2>1. \A j \in Holds \ gone : hold[j].court = c
                             => ~Overlap(hold[j].range, r) /\ ~Overlap(r, hold[j].range)
    BY DEF CreateHold, SlotFree, Overlap
  <2>2. used' = used \cup {i} /\ booking' = booking /\ Bookings' = Bookings
    BY DEF CreateHold, Bookings
  <2>3. r[1] < r[2]
    BY DEF CreateHold
  <2>4. QED
    BY <1>1, <1>2, <2>1, <2>2, <2>3 DEF RowsAgree, Confirmed, Overlap
<1>6. SnapshotIsCurrent'
  BY <1>1, <1>2, <1>4 DEF SnapshotIsCurrent, CreateHold, Bookings
<1>7. PaymentIsAlone'
  BY <1>2 DEF PaymentIsAlone, CreateHold, Bookings, CourtLocked, Overlap
<1>8. PayableBookingKeepsItsHold'
  BY <1>2, <1>3 DEF PayableBookingKeepsItsHold, CreateHold, StillPayable, Held,
                    Bookings, LiveHold
<1>9. PaidInTimeIsNeverExcluded'
  BY DEF PaidInTimeIsNeverExcluded, CreateHold, ConfirmationExcluded,
         SoldOverlaps, Confirmed, Bookings
<1>10. LiveHoldsAreUnsold'
  <2>1. \A d, q : SoldOverlaps(d, q)' <=> SoldOverlaps(d, q)
    BY DEF CreateHold, SoldOverlaps, Confirmed, Bookings, Overlap
  <2>2. QED
    BY <1>2, <2>1 DEF LiveHoldsAreUnsold, CreateHold, SlotFree, LiveHold
<1>11. QED
  BY <1>5, <1>6, <1>7, <1>8, <1>9, <1>10

LEMMA ReadHoldForBookingInv ==
  ASSUME ScheduleInv, TypeOK', NEW i \in HoldIds, ReadHoldForBooking(i)
  PROVE  ScheduleInv'
<1> DEFINE new == [op |-> "book", id |-> i, snapshot |-> hold[i]]
<1> USE DEF ScheduleInv
<1>1. /\ tx' = tx \cup {new} /\ new.op = "book" /\ new.id = i
      /\ new.snapshot = hold[i]
  BY DEF ReadHoldForBooking
<1>2. /\ RowsAgree' /\ PayableBookingKeepsItsHold' /\ LiveHoldsAreUnsold'
  BY DEF ReadHoldForBooking, RowsAgree, PayableBookingKeepsItsHold,
         LiveHoldsAreUnsold, Holds, Bookings, Confirmed, LiveHold, StillPayable,
         Held, SoldOverlaps
<1>3. SnapshotIsCurrent'
  BY <1>1 DEF ReadHoldForBooking, SnapshotIsCurrent, RowsAgree, LiveHold, Holds,
              Bookings, HoldLocked
<1>4. PaymentIsAlone'
  BY <1>1 DEF ReadHoldForBooking, PaymentIsAlone, Holds, Bookings
<1>5. PaidInTimeIsNeverExcluded'
  BY <1>1 DEF ReadHoldForBooking, PaidInTimeIsNeverExcluded,
              ConfirmationExcluded, SoldOverlaps, Confirmed, Bookings
<1>6. QED
  BY <1>2, <1>3, <1>4, <1>5

LEMMA CreateBookingFromHoldInv ==
  ASSUME ScheduleInv, TypeOK', NEW t \in tx, CreateBookingFromHold(t)
  PROVE  ScheduleInv'
<1> USE DEF ScheduleInv
<1>1. /\ t.id \in HoldIds /\ t.id \notin Bookings /\ t.id \in used
      /\ t.id \in Holds => hold[t.id] = t.snapshot
  BY DEF CreateBookingFromHold, SnapshotIsCurrent, TypeOK, Transaction
<1>2. /\ booking'[t.id].user = t.snapshot.user
      /\ booking'[t.id].court = t.snapshot.court
      /\ booking'[t.id].range = t.snapshot.range
      /\ booking'[t.id].exp = t.snapshot.exp
      /\ booking'[t.id].status = "held"
      /\ \A j \in HoldIds \ {t.id} : booking'[j] = booking[j]
      /\ Bookings \subseteq Bookings' /\ Bookings' \subseteq Bookings \cup {t.id}
      /\ Holds' = Holds
  BY <1>1 DEF CreateBookingFromHold, TypeOK, Bookings, Holds
<1>3. \A j \in HoldIds : Confirmed(j)' <=> Confirmed(j)
  BY <1>1, <1>2 DEF Confirmed, Bookings
<1>4. \A j \in HoldIds : Confirmed(j) => booking'[j] = booking[j]
  BY <1>1, <1>2 DEF Confirmed
<1>5. \A d, q : SoldOverlaps(d, q)' <=> SoldOverlaps(d, q)
  BY <1>3, <1>4 DEF SoldOverlaps, CreateBookingFromHold, Overlap
<1>6. RowsAgree'
  BY <1>1, <1>2, <1>3 DEF RowsAgree, CreateBookingFromHold, Bookings, Holds
<1>7. SnapshotIsCurrent'
  <2>1. \A v \in tx' : v.op = "book" => v.id # t.id
    BY DEF CreateBookingFromHold, SnapshotIsCurrent
  <2>2. QED
    BY <1>2, <2>1 DEF SnapshotIsCurrent, CreateBookingFromHold
<1>8. PaymentIsAlone'
  BY <1>1, <1>2 DEF PaymentIsAlone, CreateBookingFromHold, Bookings
<1>9. PayableBookingKeepsItsHold'
  BY <1>1, <1>2 DEF PayableBookingKeepsItsHold, SnapshotIsCurrent,
       CreateBookingFromHold, StillPayable, Held, LiveHold, Bookings
<1>10. PaidInTimeIsNeverExcluded'
  BY <1>1, <1>2, <1>5 DEF PaidInTimeIsNeverExcluded, PaymentIsAlone,
       ConfirmationExcluded, CreateBookingFromHold, Bookings
<1>11. LiveHoldsAreUnsold'
  BY <1>5 DEF LiveHoldsAreUnsold, CreateBookingFromHold, LiveHold, Holds
<1>12. QED
  BY <1>6, <1>7, <1>8, <1>9, <1>10, <1>11

LEMMA ActivateMatchHoldInv ==
  ASSUME ScheduleInv, TypeOK', NEW i \in HoldIds, NEW d \in Time,
         ActivateMatchHold(i, d)
  PROVE  ScheduleInv'
<1> USE DEF ScheduleInv
<1>1. i \in Holds /\ i \in Bookings /\ hold[i] \in Hold /\ booking[i] \in Booking
  BY HoldRow, BookingRow DEF ActivateMatchHold, LiveHold, Held
<1>2. /\ \A j \in HoldIds : /\ booking'[j].court = booking[j].court
                            /\ booking'[j].range = booking[j].range
                            /\ booking'[j].user = booking[j].user
                            /\ booking'[j].status = booking[j].status
      /\ Bookings' = Bookings
  BY <1>1, RowAssumption DEF ActivateMatchHold, TypeOK, Bookings, Booking
<1>3. /\ Holds' = Holds
      /\ \A j \in HoldIds : /\ hold'[j].court = hold[j].court
                            /\ hold'[j].range = hold[j].range
                            /\ hold'[j].user = hold[j].user
      /\ \A j \in HoldIds \ {i} : hold'[j] = hold[j] /\ booking'[j] = booking[j]
      /\ hold'[i].exp = d /\ booking'[i].exp = d
  BY <1>1, RowAssumption DEF ActivateMatchHold, TypeOK, Holds, Hold, Booking
<1>4. \A j \in HoldIds : Confirmed(j)' <=> Confirmed(j)
  BY <1>2 DEF Confirmed
<1>5. \A e, q : SoldOverlaps(e, q)' <=> SoldOverlaps(e, q)
  BY <1>2, <1>4 DEF SoldOverlaps, ActivateMatchHold, Overlap
<1>6. \A j \in HoldIds : LiveHold(j)' <=> LiveHold(j)
  BY <1>1, <1>3 DEF LiveHold, ActivateMatchHold
<1>7. RowsAgree'
  <2>1. used' = used
    BY DEF ActivateMatchHold
  <2>2. \A j \in Holds \cup Bookings : j \in HoldIds
    BY DEF Holds, Bookings
  <2>3. QED
    BY <1>2, <1>3, <1>4, <2>1, <2>2 DEF RowsAgree
<1>8. SnapshotIsCurrent'
  BY <1>1, <1>2, <1>3 DEF SnapshotIsCurrent, ActivateMatchHold, Holds
<1>9. PaymentIsAlone'
  <2>1. tx' = tx
    BY DEF ActivateMatchHold
  <2>2. \A j \in Holds \cup Bookings : j \in HoldIds
    BY DEF Holds, Bookings
  <2>3. QED
    BY <1>2, <1>3, <2>1, <2>2 DEF PaymentIsAlone
<1>10. PayableBookingKeepsItsHold'
  <2>1. LiveHold(i)' /\ hold'[i].exp = booking'[i].exp
    BY <1>1, <1>3, <1>6 DEF ActivateMatchHold
  <2>2. hold'[i].court = booking'[i].court /\ hold'[i].range = booking'[i].range
    BY <1>1, <1>2, <1>3 DEF RowsAgree
  <2>3. \A j \in HoldIds \ {i} : StillPayable(j)' <=> StillPayable(j)
    BY <1>2, <1>3 DEF StillPayable, Held, ActivateMatchHold
  <2>4. QED
    BY <1>3, <1>6, <2>1, <2>2, <2>3 DEF PayableBookingKeepsItsHold
<1>11. PaidInTimeIsNeverExcluded'
  BY <1>2, <1>5 DEF PaidInTimeIsNeverExcluded, PaymentIsAlone,
       ConfirmationExcluded, ActivateMatchHold, Bookings
<1>12. LiveHoldsAreUnsold'
  BY <1>3, <1>5, <1>6 DEF LiveHoldsAreUnsold
<1>13. QED
  BY <1>7, <1>8, <1>9, <1>10, <1>11, <1>12

LEMMA LeaveCheckoutInv ==
  ASSUME ScheduleInv, TypeOK', NEW i \in HoldIds, LeaveCheckout(i)
  PROVE  ScheduleInv'
<1> USE DEF ScheduleInv
<1>1. /\ Holds' = Holds \ {i} /\ Bookings' = Bookings \ {i} /\ i \in Bookings
      /\ \A j \in HoldIds \ {i} : hold'[j] = hold[j] /\ booking'[j] = booking[j]
  BY DEF LeaveCheckout, TypeOK, Holds, Bookings, Held
<1>2. \A t \in tx : t.op = "pay" => t.id # i
  BY DEF LeaveCheckout, BookingLocked
<1>3. \A j \in HoldIds : Confirmed(j)' <=> Confirmed(j)
  BY <1>1 DEF Confirmed, LeaveCheckout, Held
<1>4. \A d, q : SoldOverlaps(d, q)' <=> SoldOverlaps(d, q)
  BY <1>1, <1>3 DEF SoldOverlaps, Confirmed, LeaveCheckout, Overlap
<1>5. RowsAgree'
  BY <1>1, <1>3 DEF RowsAgree, LeaveCheckout, Holds, Bookings
<1>6. SnapshotIsCurrent'
  BY <1>1 DEF SnapshotIsCurrent, LeaveCheckout, Holds
<1>7. PaymentIsAlone'
  BY <1>1, <1>2 DEF PaymentIsAlone, LeaveCheckout, Holds, Bookings
<1>8. PayableBookingKeepsItsHold'
  BY <1>1 DEF PayableBookingKeepsItsHold, LeaveCheckout, StillPayable, Held,
              LiveHold
<1>9. PaidInTimeIsNeverExcluded'
  BY <1>1, <1>2, <1>4 DEF PaidInTimeIsNeverExcluded, PaymentIsAlone,
       ConfirmationExcluded, LeaveCheckout, Bookings
<1>10. LiveHoldsAreUnsold'
  BY <1>1, <1>4 DEF LiveHoldsAreUnsold, LeaveCheckout, LiveHold
<1>11. QED
  BY <1>5, <1>6, <1>7, <1>8, <1>9, <1>10

LEMMA ReadBookingForPaymentInv ==
  ASSUME ScheduleInv, TypeOK', NEW i \in HoldIds, ReadBookingForPayment(i)
  PROVE  ScheduleInv'
<1> DEFINE new == [op |-> "pay", id |-> i, court |-> booking[i].court,
                   seen |-> booking[i].status, payable |-> StillPayable(i)]
<1> USE DEF ScheduleInv
<1>1. /\ tx' = tx \cup {new} /\ new.op = "pay" /\ new.id = i
      /\ new.court = booking[i].court /\ new.payable = StillPayable(i)
  BY DEF ReadBookingForPayment
<1>2. /\ RowsAgree' /\ PayableBookingKeepsItsHold' /\ LiveHoldsAreUnsold'
  BY DEF ReadBookingForPayment, RowsAgree, PayableBookingKeepsItsHold,
         LiveHoldsAreUnsold, Holds, Bookings, Confirmed, LiveHold, StillPayable,
         Held, SoldOverlaps
<1>3. SnapshotIsCurrent'
  BY <1>1 DEF ReadBookingForPayment, SnapshotIsCurrent, Holds, Bookings
<1>4. StillPayable(i) =>
        /\ i \in Holds /\ LiveHold(i)
        /\ hold[i].court = booking[i].court /\ hold[i].range = booking[i].range
        /\ booking[i].status = "held"
  BY DEF PayableBookingKeepsItsHold, LiveHold, StillPayable, Held
<1>5. PaymentIsAlone'
  <2>1. \A t \in tx : t.op = "pay" => t.id # i /\ t.court # booking[i].court
    BY DEF ReadBookingForPayment, CourtLocked, BookingLocked
  <2>2. StillPayable(i) =>
          \A j \in Holds : j # i /\ hold[j].court = booking[i].court
                           => ~Overlap(hold[j].range, booking[i].range)
    BY <1>4 DEF RowsAgree
  <2>3. QED
    BY <1>1, <1>4, <2>1, <2>2 DEF ReadBookingForPayment, PaymentIsAlone, Holds,
         Bookings
<1>6. PaidInTimeIsNeverExcluded'
  BY <1>1, <1>4 DEF ReadBookingForPayment, PaidInTimeIsNeverExcluded,
       LiveHoldsAreUnsold, ConfirmationExcluded, SoldOverlaps, Confirmed,
       Bookings
<1>7. QED
  BY <1>2, <1>3, <1>5, <1>6

\* Letting go of bookings, internal bookings or transactions keeps ScheduleInv:
\* a row may only become cancelled, or completed if it was confirmed.
LEMMA LettingGoInv ==
  ASSUME ScheduleInv, TypeOK',
         UNCHANGED <<now, used, hold>>,
         internal' \subseteq internal,
         \A t \in tx' : t \in tx \/ t.op = "heal",
         Bookings' = Bookings,
         \A j \in Bookings :
           /\ booking'[j].user = booking[j].user
           /\ booking'[j].court = booking[j].court
           /\ booking'[j].range = booking[j].range
           /\ booking'[j].exp = booking[j].exp
           /\ \/ booking'[j].status = booking[j].status
              \/ booking'[j].status = "cancelled"
              \/ booking'[j].status = "completed" /\ booking[j].status = "confirmed"
  PROVE  ScheduleInv'
<1> USE DEF ScheduleInv
<1>1. Holds' = Holds /\ \A j \in HoldIds : LiveHold(j)' <=> LiveHold(j)
  BY DEF Holds, LiveHold
<1>2. \A j \in HoldIds : Confirmed(j)' => Confirmed(j)
  BY DEF Confirmed
<1>3. \A j \in HoldIds : StillPayable(j)' => StillPayable(j) /\ j \in Bookings
  BY DEF StillPayable, Held
<1>4. \A d, q : SoldOverlaps(d, q)' => SoldOverlaps(d, q)
  BY <1>2 DEF SoldOverlaps, Confirmed, Overlap
<1>5. RowsAgree'
  BY <1>1, <1>2 DEF RowsAgree, Overlap
<1>6. SnapshotIsCurrent'
  BY <1>1 DEF SnapshotIsCurrent
<1>7. PaymentIsAlone'
  BY <1>1 DEF PaymentIsAlone
<1>8. PayableBookingKeepsItsHold'
  BY <1>1, <1>3 DEF PayableBookingKeepsItsHold
<1>9. PaidInTimeIsNeverExcluded'
  BY <1>4 DEF PaidInTimeIsNeverExcluded, PaymentIsAlone, ConfirmationExcluded
<1>10. LiveHoldsAreUnsold'
  BY <1>1, <1>4 DEF LiveHoldsAreUnsold
<1>11. QED
  BY <1>5, <1>6, <1>7, <1>8, <1>9, <1>10

LEMMA ConfirmBookingInv ==
  ASSUME ScheduleInv, TypeOK', NEW t \in tx, ConfirmBooking(t)
  PROVE  ScheduleInv'
<1> DEFINE gone == HoldsOfBooking(t.id)
<1> USE DEF ScheduleInv
<1>1. /\ t.op = "pay" /\ t.payable /\ t.id \in Bookings /\ t.id \in HoldIds
      /\ booking[t.id].court = t.court
  BY DEF ConfirmBooking, PaymentIsAlone, Bookings
<1>2. /\ Bookings' = Bookings
      /\ \A j \in HoldIds \ {t.id} : booking'[j] = booking[j]
      /\ booking'[t.id].user = booking[t.id].user
      /\ booking'[t.id].court = booking[t.id].court
      /\ booking'[t.id].range = booking[t.id].range
      /\ booking'[t.id].status = "confirmed"
  BY <1>1, StatusUpdate, BookingRow DEF ConfirmBooking, TypeOK, Booking
<1>3. Holds' = Holds \ gone /\ \A j \in Holds \ gone : hold'[j] = hold[j]
  BY DEF ConfirmBooking, Holds
<1>4. t.id \in Holds => t.id \in gone
  BY <1>1 DEF RowsAgree, HoldsOfBooking
<1>5. gone \subseteq {t.id}
  BY <1>1 DEF PaymentIsAlone, RowsAgree, HoldsOfBooking, Overlap
<1>6. \A j \in Holds' : hold[j].court = t.court
                        => ~Overlap(hold[j].range, booking[t.id].range)
  BY <1>1, <1>3, <1>4 DEF PaymentIsAlone
<1>7. \A j \in HoldIds : Confirmed(j)' => Confirmed(j) \/ j = t.id
  BY <1>2 DEF Confirmed
<1>8. \A d, q : SoldOverlaps(d, q)'
                => \/ SoldOverlaps(d, q)
                   \/ d = t.court /\ Overlap(booking[t.id].range, q)
  BY <1>1, <1>2, <1>7 DEF SoldOverlaps, ConfirmBooking, Confirmed, Overlap
<1>9. RowsAgree'
  <2>1. t.id \notin Holds'
    BY <1>3, <1>4
  <2>2. used' = used /\ \A j \in Holds \cup Bookings : j \in HoldIds
    BY DEF ConfirmBooking, Holds, Bookings
  <2>3. QED
    BY <1>2, <1>3, <1>7, <2>1, <2>2 DEF RowsAgree, Overlap
<1>10. SnapshotIsCurrent'
  <2>1. \A v \in tx : v.op = "book" => v.id # t.id
    BY <1>1 DEF SnapshotIsCurrent
  <2>2. QED
    BY <1>2, <1>3, <1>5, <2>1 DEF SnapshotIsCurrent, ConfirmBooking
<1>11. \A v \in tx' : v.op = "pay" => v.id # t.id /\ v.court # t.court
  BY <1>1 DEF PaymentIsAlone, ConfirmBooking
<1>12. PaymentIsAlone'
  BY <1>2, <1>3, <1>11 DEF PaymentIsAlone, ConfirmBooking, Bookings
<1>13. PayableBookingKeepsItsHold'
  <2>1. \A j \in HoldIds : StillPayable(j)' => StillPayable(j) /\ j # t.id
    BY <1>2 DEF StillPayable, Held, ConfirmBooking
  <2>2. QED
    BY <1>2, <1>3, <1>5, <2>1 DEF PayableBookingKeepsItsHold, LiveHold,
         ConfirmBooking
<1>14. PaidInTimeIsNeverExcluded'
  <2>1. \A v \in tx' : v.op = "pay" /\ v.payable
           => /\ v \in tx /\ v.id \in HoldIds /\ booking[v.id].court = v.court
              /\ booking'[v.id] = booking[v.id]
    BY <1>2, <1>11 DEF PaymentIsAlone, ConfirmBooking, Bookings
  <2>2. QED
    BY <1>8, <1>11, <2>1 DEF PaidInTimeIsNeverExcluded, ConfirmationExcluded
<1>15. LiveHoldsAreUnsold'
  BY <1>3, <1>6, <1>8 DEF LiveHoldsAreUnsold, LiveHold, ConfirmBooking, Overlap
<1>16. QED
  BY <1>9, <1>10, <1>12, <1>13, <1>14, <1>15

LEMMA ChangeBookingCourtInv ==
  ASSUME ScheduleInv, TypeOK', NEW i \in HoldIds, NEW c \in Courts,
         ChangeBookingCourt(i, c)
  PROVE  ScheduleInv'
<1> USE DEF ScheduleInv
<1>1. i \in Bookings /\ i \notin Holds /\ booking[i].status = "confirmed"
  BY DEF ChangeBookingCourt, Confirmed, RowsAgree
<1>2. /\ Bookings' = Bookings
      /\ \A j \in HoldIds \ {i} : booking'[j] = booking[j]
      /\ booking'[i].court = c /\ booking'[i].range = booking[i].range
      /\ booking'[i].status = "confirmed"
  BY <1>1, BookingRow, RowAssumption
     DEF ChangeBookingCourt, TypeOK, Booking, Bookings
<1>3. \A j \in HoldIds : Confirmed(j)' <=> Confirmed(j)
  BY <1>1, <1>2 DEF Confirmed
<1>4. \A d, q : SoldOverlaps(d, q)'
                => \/ SoldOverlaps(d, q)
                   \/ d = c /\ Overlap(booking[i].range, q)
  <2>1. internal' = internal
    BY DEF ChangeBookingCourt
  <2>2. \A d, q : \A j \in HoldIds :
          Confirmed(j)' /\ booking'[j].court = d /\ Overlap(booking'[j].range, q)
          => \/ Confirmed(j) /\ booking[j].court = d /\ Overlap(booking[j].range, q)
             \/ d = c /\ Overlap(booking[i].range, q)
    BY <1>2, <1>3
  <2>3. QED
    BY <2>1, <2>2 DEF SoldOverlaps
<1>5. Holds' = Holds /\ \A j \in HoldIds : LiveHold(j)' <=> LiveHold(j)
  BY DEF ChangeBookingCourt, Holds, LiveHold
<1>6. RowsAgree'
  BY <1>1, <1>2, <1>3, <1>5 DEF RowsAgree, ChangeBookingCourt, Overlap, Holds
<1>7. SnapshotIsCurrent'
  BY <1>2, <1>5 DEF SnapshotIsCurrent, ChangeBookingCourt
<1>8. PaymentIsAlone'
  BY <1>1, <1>2, <1>5 DEF PaymentIsAlone, ChangeBookingCourt, Bookings
<1>9. PayableBookingKeepsItsHold'
  <2>1. \A j \in HoldIds : StillPayable(j)' => StillPayable(j) /\ j # i
    BY <1>2 DEF StillPayable, Held, ChangeBookingCourt
  <2>2. QED
    BY <1>2, <1>5, <2>1 DEF PayableBookingKeepsItsHold, ChangeBookingCourt
<1>10. PaidInTimeIsNeverExcluded'
  <2>1. \A t \in tx : t.op = "pay" /\ t.payable
          => t.id \in HoldIds /\ t.id # i /\ booking[t.id].court # c
    BY <1>1 DEF PaymentIsAlone, ChangeBookingCourt, CourtLocked, Bookings
  <2>2. QED
    BY <1>2, <1>4, <2>1 DEF PaidInTimeIsNeverExcluded, ConfirmationExcluded,
         ChangeBookingCourt
<1>11. LiveHoldsAreUnsold'
  BY <1>4, <1>5 DEF LiveHoldsAreUnsold, HoldOverlaps, ChangeBookingCourt, Overlap
<1>12. QED
  BY <1>6, <1>7, <1>8, <1>9, <1>10, <1>11

LEMMA CreateInternalBookingInv ==
  ASSUME ScheduleInv, TypeOK', NEW c \in Courts, NEW r \in Ranges,
         CreateInternalBooking(c, r)
  PROVE  ScheduleInv'
<1> USE DEF ScheduleInv
<1>1. \A d, q : SoldOverlaps(d, q)' =>
           \/ SoldOverlaps(d, q)
           \/ d = c /\ Overlap(r, q)
  <2>1. booking' = booking /\ \A j \in HoldIds : Confirmed(j)' <=> Confirmed(j)
    BY DEF CreateInternalBooking, Confirmed, Bookings
  <2>2. \A b \in internal' : b \in internal \/ (b[1] = c /\ b[2] = r)
    BY DEF CreateInternalBooking
  <2>3. QED
    BY <2>1, <2>2 DEF SoldOverlaps
<1>2. /\ RowsAgree' /\ SnapshotIsCurrent' /\ PaymentIsAlone'
      /\ PayableBookingKeepsItsHold'
  BY DEF CreateInternalBooking, RowsAgree, SnapshotIsCurrent, PaymentIsAlone,
         PayableBookingKeepsItsHold, Holds, Bookings, Confirmed, LiveHold,
         StillPayable, Held
<1>3. PaidInTimeIsNeverExcluded'
  <2>1. \A t \in tx : t.op = "pay" /\ t.payable => booking[t.id].court # c
    BY DEF PaymentIsAlone, CreateInternalBooking, CourtLocked
  <2>2. QED
    BY <1>1, <2>1 DEF PaidInTimeIsNeverExcluded, ConfirmationExcluded,
         CreateInternalBooking
<1>4. LiveHoldsAreUnsold'
  BY <1>1 DEF LiveHoldsAreUnsold, HoldOverlaps, CreateInternalBooking, LiveHold,
              Holds, Overlap
<1>5. QED
  BY <1>2, <1>3, <1>4

LEMMA ReapExpiredHoldsInv ==
  ASSUME ScheduleInv, TypeOK', ReapExpiredHolds
  PROVE  ScheduleInv'
<1> USE DEF ScheduleInv
<1>1. /\ Holds' \subseteq Holds
      /\ \A j \in HoldIds : LiveHold(j) => j \in Holds'
      /\ \A j \in Holds' : hold'[j] = hold[j]
      /\ \A j \in HoldIds : LiveHold(j)' <=> LiveHold(j)
  BY DEF ReapExpiredHolds, LiveHold, Holds
<1>2. UNCHANGED <<now, used, booking, internal, tx>> /\ Bookings' = Bookings
  BY DEF ReapExpiredHolds, Bookings
<1>3. RowsAgree'
  BY <1>1, <1>2 DEF RowsAgree, Confirmed
<1>4. SnapshotIsCurrent'
  BY <1>1, <1>2 DEF SnapshotIsCurrent, LiveHold, TypeOK, Transaction
<1>5. PaymentIsAlone'
  BY <1>1, <1>2 DEF PaymentIsAlone
<1>6. PayableBookingKeepsItsHold'
  BY <1>1, <1>2 DEF PayableBookingKeepsItsHold, StillPayable, Held
<1>7. PaidInTimeIsNeverExcluded'
  BY <1>2 DEF PaidInTimeIsNeverExcluded, ConfirmationExcluded, SoldOverlaps,
       Confirmed
<1>8. LiveHoldsAreUnsold'
  BY <1>1, <1>2 DEF LiveHoldsAreUnsold, SoldOverlaps, Confirmed
<1>9. QED
  BY <1>3, <1>4, <1>5, <1>6, <1>7, <1>8

LEMMA TickInv ==
  ASSUME ScheduleInv, TypeOK', Tick
  PROVE  ScheduleInv'
<1> USE DEF ScheduleInv
<1>1. now \in Int /\ now' = now + 1
  BY TimeAssumption DEF Tick, TypeOK, Time
<1>2. UNCHANGED <<used, hold, booking, internal, tx>> /\ Holds' = Holds
      /\ Bookings' = Bookings
  BY DEF Tick, Holds, Bookings
<1>3. \A j \in HoldIds : LiveHold(j)' => LiveHold(j)
  BY <1>1, <1>2, HoldRow, TimeAssumption DEF LiveHold, Hold, Time
<1>4. \A j \in HoldIds : StillPayable(j)' => StillPayable(j)
  BY <1>1, <1>2, BookingRow, TimeAssumption DEF StillPayable, Held, Booking, Time
<1>5. RowsAgree'
  BY <1>2 DEF RowsAgree, Confirmed
<1>6. SnapshotIsCurrent'
  <2>1. \A t \in tx : t.op = "book" => t.snapshot.exp \in Int
    BY TimeAssumption DEF TypeOK, Transaction, Hold, Time
  <2>2. QED
    BY <1>1, <1>2, <2>1 DEF SnapshotIsCurrent
<1>7. PaymentIsAlone'
  BY <1>2 DEF PaymentIsAlone
<1>8. PayableBookingKeepsItsHold'
  BY <1>2, <1>4 DEF PayableBookingKeepsItsHold, LiveHold, StillPayable
<1>9. PaidInTimeIsNeverExcluded'
  BY <1>2 DEF PaidInTimeIsNeverExcluded, ConfirmationExcluded, SoldOverlaps,
       Confirmed
<1>10. LiveHoldsAreUnsold'
  BY <1>2, <1>3 DEF LiveHoldsAreUnsold, SoldOverlaps, Confirmed
<1>11. QED
  BY <1>5, <1>6, <1>7, <1>8, <1>9, <1>10

\* Every step of the system keeps ScheduleInv.
LEMMA NextScheduleInv ==
  ASSUME ScheduleInv, [Next]_vars, ~ParallelRequests
  PROVE  ScheduleInv'
<1> USE DEF ScheduleInv
<1>1. TypeInv /\ TypeOK'
  BY NextTypeInv DEF TypeInv, PaymentHasBooking, PaymentIsAlone
<1>2. CASE Requests
  <2>1. ASSUME NEW u \in Users, NEW c \in Courts, NEW r \in Ranges,
               NEW i \in HoldIds, CreateHold(u, c, r, i)
        PROVE  ScheduleInv'
    BY <1>1, <2>1, CreateHoldInv
  <2>2. ASSUME NEW i \in HoldIds, ReadHoldForBooking(i) PROVE ScheduleInv'
    BY <1>1, <2>2, ReadHoldForBookingInv
  <2>3. ASSUME NEW i \in HoldIds, NEW d \in Time, ActivateMatchHold(i, d)
        PROVE  ScheduleInv'
    BY <1>1, <2>3, ActivateMatchHoldInv
  <2>4. ASSUME NEW i \in HoldIds, LeaveCheckout(i) PROVE ScheduleInv'
    BY <1>1, <2>4, LeaveCheckoutInv
  <2>5. ASSUME NEW i \in HoldIds, ReadBookingForPayment(i) PROVE ScheduleInv'
    BY <1>1, <2>5, ReadBookingForPaymentInv
  <2>6. ASSUME NEW i \in HoldIds, ReadExpiredBooking(i) PROVE ScheduleInv'
    BY <1>1, <2>6, LettingGoInv DEF ReadExpiredBooking, Bookings
  <2>7. ASSUME NEW i \in HoldIds, CancelConfirmedBooking(i) PROVE ScheduleInv'
    <3>1. i \in Bookings /\ booking[i] \in Booking
      BY <2>7, BookingRow DEF CancelConfirmedBooking, Confirmed
    <3>2. /\ booking'[i].user = booking[i].user
          /\ booking'[i].court = booking[i].court
          /\ booking'[i].range = booking[i].range
          /\ booking'[i].exp = booking[i].exp
          /\ booking'[i].status = "cancelled"
          /\ \A j \in Bookings \ {i} : booking'[j] = booking[j]
          /\ Bookings' = Bookings
      BY <2>7, <3>1, RowAssumption
         DEF CancelConfirmedBooking, TypeOK, Bookings, Booking
    <3>3. QED
      BY <1>1, <2>7, <3>2, LettingGoInv DEF CancelConfirmedBooking
  <2>8. ASSUME NEW i \in HoldIds, NEW c \in Courts, ChangeBookingCourt(i, c)
        PROVE  ScheduleInv'
    BY <1>1, <2>8, ChangeBookingCourtInv
  <2>9. ASSUME NEW c \in Courts, NEW r \in Ranges, CreateInternalBooking(c, r)
        PROVE  ScheduleInv'
    BY <1>1, <2>9, CreateInternalBookingInv
  <2>10. ASSUME NEW b \in internal, RemoveInternalBooking(b) PROVE ScheduleInv'
    BY <1>1, <2>10, LettingGoInv DEF RemoveInternalBooking, Bookings
  <2>11. QED
    BY <1>2, <2>1, <2>2, <2>3, <2>4, <2>5, <2>6, <2>7, <2>8, <2>9, <2>10
       DEF Requests
<1>3. \A i \in Bookings, s \in {"cancelled", "completed"} :
        booking' = [booking EXCEPT ![i].status = s]
        => /\ Bookings' = Bookings
           /\ booking'[i].user = booking[i].user
           /\ booking'[i].court = booking[i].court
           /\ booking'[i].range = booking[i].range
           /\ booking'[i].exp = booking[i].exp
           /\ booking'[i].status = s
           /\ \A j \in Bookings \ {i} : booking'[j] = booking[j]
  BY BookingRow, StatusUpdate DEF TypeOK, Booking
<1>4. CASE Commits
  <2> SUFFICES ASSUME NEW t \in tx,
                      \/ CreateBookingFromHold(t) \/ ConfirmBooking(t)
                      \/ ConfirmationRefused(t) \/ RejectLatePayment(t)
                      \/ CancelExpiredBooking(t)
               PROVE  ScheduleInv'
    BY <1>4 DEF Commits
  <2>1. CASE CreateBookingFromHold(t)
    BY <1>1, <2>1, CreateBookingFromHoldInv
  <2>2. CASE ConfirmBooking(t)
    BY <1>1, <2>2, ConfirmBookingInv
  <2>3. CASE ConfirmationRefused(t)
    BY <1>1, <2>3, LettingGoInv DEF ConfirmationRefused, Bookings
  <2>4. CASE RejectLatePayment(t)
    <3>1. t.id \in Bookings
      BY <1>1, <2>4 DEF TypeInv, PaymentHasBooking, RejectLatePayment
    <3>2. CASE booking' = booking
      BY <1>1, <2>4, <3>2, LettingGoInv DEF RejectLatePayment, Bookings
    <3>3. CASE booking' = [booking EXCEPT ![t.id].status = "cancelled"]
      BY <1>1, <1>3, <2>4, <3>1, <3>3, LettingGoInv DEF RejectLatePayment
    <3>4. QED
      BY <2>4, <3>2, <3>3 DEF RejectLatePayment
  <2>5. CASE CancelExpiredBooking(t)
    <3>1. CASE t.id \notin Bookings
      BY <1>1, <2>5, <3>1, LettingGoInv DEF CancelExpiredBooking, Bookings
    <3>2. CASE t.id \in Bookings
      <4>1. booking' = [booking EXCEPT ![t.id].status = "cancelled"]
        BY <2>5, <3>2 DEF CancelExpiredBooking
      <4>2. UNCHANGED <<now, used, hold, internal>> /\ tx' \subseteq tx
        BY <2>5 DEF CancelExpiredBooking
      <4>3. QED
        BY <1>1, <1>3, <3>2, <4>1, <4>2, LettingGoInv
    <3>3. QED
      BY <3>1, <3>2
  <2>6. QED
    BY <2>1, <2>2, <2>3, <2>4, <2>5
<1>5. CASE Scheduler
  <2>1. CASE ReapExpiredHolds
    BY <1>1, <2>1, ReapExpiredHoldsInv
  <2>2. CASE ReapExpiredBookings
    <3>1. /\ \A j \in Bookings : /\ booking[j] \in Booking
                                /\ j \in HoldIds
                                /\ \/ booking'[j] = booking[j]
                                   \/ booking'[j] = [booking[j] EXCEPT !.status = "cancelled"]
          /\ \A j \in HoldIds \ Bookings : booking'[j] = booking[j]
      BY <2>2, BookingRow DEF ReapExpiredBookings, Held
    <3>2. Bookings' = Bookings
      <4>1. \A row \in Booking : [row EXCEPT !.status = "cancelled"] \in Booking
        BY DEF Booking
      <4>2. \A j \in Bookings : booking'[j] \in Booking
        BY <3>1, <4>1
      <4>3. QED
        BY <3>1, <4>2, RowAssumption DEF Bookings
    <3>3. QED
      BY <1>1, <2>2, <3>1, <3>2, LettingGoInv DEF ReapExpiredBookings, Booking
  <2>3. ASSUME NEW i \in HoldIds, CompleteEndedBooking(i) PROVE ScheduleInv'
    <3>1. i \in Bookings /\ booking[i].status = "confirmed"
      BY <2>3 DEF CompleteEndedBooking, Confirmed
    <3>2. QED
      BY <1>1, <1>3, <2>3, <3>1, LettingGoInv DEF CompleteEndedBooking
  <2>4. QED
    BY <1>5, <2>1, <2>2, <2>3 DEF Scheduler
<1>6. CASE Tick
  BY <1>1, <1>6, TickInv
<1>7. CASE UNCHANGED vars
  BY <1>1, <1>7, LettingGoInv DEF vars, Bookings
<1>8. QED
  BY <1>2, <1>4, <1>5, <1>6, <1>7 DEF Next

\* With one request at a time for each player, the inductive invariant holds.
THEOREM ScheduleCorrect ==
  ASSUME ~ParallelRequests
  PROVE  Spec => []ScheduleInv
<1>1. ScheduleInv /\ [Next]_vars => ScheduleInv'
  BY NextScheduleInv
<1>2. QED
  BY <1>1, InitScheduleInv, PTL DEF Spec

\* While a booking can be paid its hold is in place, so that nobody else takes
\* the slot during the payment.
THEOREM PayableBookingsAreHeld ==
  ASSUME ~ParallelRequests
  PROVE  Spec => []PayableBookingKeepsItsHold
<1>1. ScheduleInv => PayableBookingKeepsItsHold
  BY DEF ScheduleInv
<1>2. QED
  BY <1>1, ScheduleCorrect, PTL

\* Two bookings of overlapping time are never payable together: each has its
\* hold, and the holds of a court exclude each other.
THEOREM PayersExclude ==
  ASSUME ~ParallelRequests
  PROVE  Spec => []OnePayerPerSlot
<1>1. ScheduleInv => OnePayerPerSlot
  BY DEF ScheduleInv, PayableBookingKeepsItsHold, OnePayerPerSlot, RowsAgree,
         LiveHold
<1>2. QED
  BY <1>1, ScheduleCorrect, PTL

\* A payment found in time is not refused by the exclusion constraint, even
\* when the hold expires between the read and the write.
THEOREM PaidInTimeIsAccepted ==
  ASSUME ~ParallelRequests
  PROVE  Spec => []PaidInTimeIsNeverExcluded
<1>1. ScheduleInv => PaidInTimeIsNeverExcluded
  BY DEF ScheduleInv
<1>2. QED
  BY <1>1, ScheduleCorrect, PTL

\* Live holds and sales of one court do not overlap.
THEOREM HoldsAreUnsold ==
  ASSUME ~ParallelRequests
  PROVE  Spec => []LiveHoldsAreUnsold
<1>1. ScheduleInv => LiveHoldsAreUnsold
  BY DEF ScheduleInv
<1>2. QED
  BY <1>1, ScheduleCorrect, PTL

-----------------------------------------------------------------------------
(* Requests in parallel *)

\* Sales that stay, or go, keep NoDoubleSale.
LEMMA NoNewSale ==
  ASSUME NoDoubleSale, internal' \subseteq internal,
         \A j \in HoldIds : Confirmed(j)' =>
           /\ Confirmed(j)
           /\ booking'[j].court = booking[j].court
           /\ booking'[j].range = booking[j].range
  PROVE  NoDoubleSale'
  BY DEF NoDoubleSale

LEMMA RequestsNoDoubleSale ==
  ASSUME TypeInv, NoDoubleSale, Requests
  PROVE  NoDoubleSale'
<1> USE DEF Confirmed, Bookings
<1>1. ASSUME NEW u \in Users, NEW c \in Courts, NEW r \in Ranges,
             NEW i \in HoldIds, CreateHold(u, c, r, i)
      PROVE  NoDoubleSale'
  BY <1>1, NoNewSale DEF CreateHold
<1>2. ASSUME NEW i \in HoldIds, ReadHoldForBooking(i) PROVE NoDoubleSale'
  BY <1>2, NoNewSale DEF ReadHoldForBooking
<1>3. ASSUME NEW i \in HoldIds, NEW d \in Time, ActivateMatchHold(i, d)
      PROVE  NoDoubleSale'
  BY <1>3, NoNewSale DEF ActivateMatchHold, Held, TypeInv, TypeOK
<1>4. ASSUME NEW i \in HoldIds, LeaveCheckout(i) PROVE NoDoubleSale'
  BY <1>4, NoNewSale DEF LeaveCheckout, TypeInv, TypeOK
<1>5. ASSUME NEW i \in HoldIds, ReadBookingForPayment(i) PROVE NoDoubleSale'
  BY <1>5, NoNewSale DEF ReadBookingForPayment
<1>6. ASSUME NEW i \in HoldIds, ReadExpiredBooking(i) PROVE NoDoubleSale'
  BY <1>6, NoNewSale DEF ReadExpiredBooking
<1>7. ASSUME NEW i \in HoldIds, CancelConfirmedBooking(i) PROVE NoDoubleSale'
  <2>1. \A j \in HoldIds : Confirmed(j)' => j # i /\ booking'[j] = booking[j]
    BY <1>7, BookingRow DEF CancelConfirmedBooking, TypeInv, TypeOK, Booking
  <2>2. QED
    BY <1>7, <2>1, NoNewSale DEF CancelConfirmedBooking
<1>8. ASSUME NEW i \in HoldIds, NEW c \in Courts, ChangeBookingCourt(i, c)
      PROVE  NoDoubleSale'
  <2>1. /\ booking'[i].court = c /\ booking'[i].range = booking[i].range
        /\ \A j \in HoldIds \ {i} : booking'[j] = booking[j]
        /\ internal' = internal
    BY <1>8, BookingRow DEF ChangeBookingCourt, TypeInv, TypeOK, Booking
  <2>2. /\ \A j \in HoldIds : Confirmed(j) /\ booking[j].court = c
                             => ~Overlap(booking[j].range, booking[i].range)
        /\ \A b \in internal : b[1] = c => ~Overlap(b[2], booking[i].range)
    BY <1>8 DEF ChangeBookingCourt, SoldOverlaps
  <2>3. \A q, w : Overlap(q, w) <=> Overlap(w, q)
    BY DEF Overlap
  <2>4. QED
    BY <2>1, <2>2, <2>3 DEF NoDoubleSale
<1>9. ASSUME NEW c \in Courts, NEW r \in Ranges, CreateInternalBooking(c, r)
      PROVE  NoDoubleSale'
  <2>1. /\ \A j \in HoldIds : Confirmed(j) /\ booking[j].court = c
                             => ~Overlap(booking[j].range, r)
        /\ \A b \in internal : b[1] = c => ~Overlap(b[2], r)
    BY <1>9 DEF CreateInternalBooking, SoldOverlaps
  <2>2. /\ booking' = booking
        /\ \A b \in internal' : b \in internal \/ (b[1] = c /\ b[2] = r /\ b = <<c, r>>)
    BY <1>9 DEF CreateInternalBooking
  <2>3. \A q, w : Overlap(q, w) <=> Overlap(w, q)
    BY DEF Overlap
  <2>4. QED
    BY <2>1, <2>2, <2>3 DEF NoDoubleSale
<1>10. ASSUME NEW b \in internal, RemoveInternalBooking(b) PROVE NoDoubleSale'
  BY <1>10, NoNewSale DEF RemoveInternalBooking
<1>11. QED
  BY <1>1, <1>2, <1>3, <1>4, <1>5, <1>6, <1>7, <1>8, <1>9, <1>10 DEF Requests

\* A confirmation is guarded by the exclusion constraint; no other step makes
\* a sale.
LEMMA NextNoDoubleSale ==
  ASSUME TypeInv, NoDoubleSale, [Next]_vars
  PROVE  NoDoubleSale'
<1> USE DEF Confirmed, Bookings
<1>1. CASE Commits
  <2> SUFFICES ASSUME NEW t \in tx,
                      \/ CreateBookingFromHold(t) \/ ConfirmBooking(t)
                      \/ ConfirmationRefused(t) \/ RejectLatePayment(t)
                      \/ CancelExpiredBooking(t)
               PROVE  NoDoubleSale'
    BY <1>1 DEF Commits
  <2>1. t.id \in HoldIds /\ booking \in [HoldIds -> Booking \cup {NoBooking}]
    BY DEF TypeInv, TypeOK, Transaction
  <2>2. ASSUME NEW s \in {"confirmed", "cancelled"}, t.id \in Bookings,
               booking' = [booking EXCEPT ![t.id].status = s]
        PROVE  /\ booking'[t.id].court = booking[t.id].court
               /\ booking'[t.id].range = booking[t.id].range
               /\ booking'[t.id].status = s
               /\ \A j \in HoldIds \ {t.id} : booking'[j] = booking[j]
    BY <2>1, <2>2, BookingRow DEF TypeInv, Booking
  <2>3. CASE CreateBookingFromHold(t)
    BY <2>1, <2>3, NoNewSale DEF CreateBookingFromHold
  <2>4. CASE ConfirmBooking(t)
    <3>1. t.id \in Bookings
      BY <2>4 DEF TypeInv, PaymentHasBooking, ConfirmBooking
    <3>2. /\ \A j \in HoldIds : Confirmed(j) /\ booking[j].court = booking[t.id].court
                               => ~Overlap(booking[j].range, booking[t.id].range)
          /\ \A b \in internal : b[1] = booking[t.id].court
                               => ~Overlap(b[2], booking[t.id].range)
      BY <2>4 DEF ConfirmBooking, ConfirmationExcluded, SoldOverlaps
    <3>3. \A q, w : Overlap(q, w) <=> Overlap(w, q)
      BY DEF Overlap
    <3>4. QED
      BY <2>1, <2>2, <2>4, <3>1, <3>2, <3>3 DEF NoDoubleSale, ConfirmBooking
  <2>5. CASE ConfirmationRefused(t)
    BY <2>5, NoNewSale DEF ConfirmationRefused
  <2>6. CASE RejectLatePayment(t)
    <3>1. t.id \in Bookings
      BY <2>6 DEF TypeInv, PaymentHasBooking, RejectLatePayment
    <3>2. QED
      BY <2>1, <2>2, <2>6, <3>1, NoNewSale DEF RejectLatePayment
  <2>7. CASE CancelExpiredBooking(t)
    BY <2>1, <2>2, <2>7, NoNewSale DEF CancelExpiredBooking
  <2>8. QED
    BY <2>3, <2>4, <2>5, <2>6, <2>7
<1>2. CASE Scheduler
  <2>1. CASE ReapExpiredHolds
    BY <2>1, NoNewSale DEF ReapExpiredHolds
  <2>2. CASE ReapExpiredBookings
    <3>1. \A j \in HoldIds : Confirmed(j)' => booking'[j] = booking[j]
      BY <2>2, BookingRow DEF ReapExpiredBookings, Held, TypeInv, Booking
    <3>2. QED
      BY <2>2, <3>1, NoNewSale DEF ReapExpiredBookings
  <2>3. ASSUME NEW i \in HoldIds, CompleteEndedBooking(i) PROVE NoDoubleSale'
    <3>1. \A j \in HoldIds : Confirmed(j)' => j # i /\ booking'[j] = booking[j]
      BY <2>3, BookingRow DEF CompleteEndedBooking, TypeInv, TypeOK, Booking
    <3>2. QED
      BY <2>3, <3>1, NoNewSale DEF CompleteEndedBooking
  <2>4. QED
    BY <1>2, <2>1, <2>2, <2>3 DEF Scheduler
<1>3. CASE Tick
  BY <1>3, NoNewSale DEF Tick
<1>4. CASE UNCHANGED vars
  BY <1>4, NoNewSale DEF vars
<1>5. QED
  BY <1>1, <1>2, <1>3, <1>4, RequestsNoDoubleSale DEF Next

\* Time is sold once per court, whatever requests run in parallel.
THEOREM SoldOnce == Spec => []NoDoubleSale
<1>1. Init => TypeInv /\ NoDoubleSale
  BY InitTypeInv DEF Init, NoDoubleSale, Confirmed, Bookings
<1>2. TypeInv /\ NoDoubleSale /\ [Next]_vars => TypeInv' /\ NoDoubleSale'
  BY NextTypeInv, NextNoDoubleSale
<1>3. QED
  BY <1>1, <1>2, PTL DEF Spec

\* createHold makes the only new checkout hold, after deleting the player's
\* other ones.
LEMMA NextOneCheckout ==
  ASSUME TypeInv, OneCheckoutHoldPerPlayer, [Next]_vars
  PROVE  OneCheckoutHoldPerPlayer'
<1> DEFINE Kept == \A j \in HoldIds :
                     LiveHold(j)' /\ hold'[j].purpose = "checkout"
                     => /\ LiveHold(j) /\ hold[j].purpose = "checkout"
                        /\ hold'[j].user = hold[j].user
<1>1. Kept => OneCheckoutHoldPerPlayer'
  BY DEF OneCheckoutHoldPerPlayer
<1>2. UNCHANGED <<now, hold>> => Kept
  BY DEF LiveHold, Holds
<1>3. ASSUME NEW u \in Users, NEW c \in Courts, NEW r \in Ranges,
             NEW i \in HoldIds, CreateHold(u, c, r, i)
      PROVE  OneCheckoutHoldPerPlayer'
  <2>1. hold'[i].user = u
    BY <1>3 DEF CreateHold
  <2>2. \A j \in HoldIds \ {i} :
          LiveHold(j)' => /\ LiveHold(j) /\ hold'[j] = hold[j]
                          /\ hold[j].purpose = "checkout" => hold[j].user # u
    BY <1>3 DEF CreateHold, ReplacedHolds, CheckoutHolds, LiveHold, Holds
  <2>3. QED
    BY <2>1, <2>2 DEF OneCheckoutHoldPerPlayer
<1>4. ASSUME NEW i \in HoldIds, NEW d \in Time, ActivateMatchHold(i, d)
      PROVE  OneCheckoutHoldPerPlayer'
  <2>1. hold'[i].purpose = "match" /\ now' = now
        /\ \A j \in HoldIds \ {i} : hold'[j] = hold[j]
    BY <1>4, HoldRow DEF ActivateMatchHold, LiveHold, TypeInv, TypeOK, Hold
  <2>2. Kept
    BY <2>1 DEF LiveHold, Holds
  <2>3. QED
    BY <1>1, <2>2
<1>5. ASSUME NEW i \in HoldIds, LeaveCheckout(i) PROVE OneCheckoutHoldPerPlayer'
  <2>1. Kept
    BY <1>5 DEF LeaveCheckout, LiveHold, Holds, TypeInv, TypeOK
  <2>2. QED
    BY <1>1, <2>1
<1>6. CASE Requests
  BY <1>1, <1>2, <1>3, <1>4, <1>5, <1>6
     DEF Requests, ReadHoldForBooking, ReadBookingForPayment, ReadExpiredBooking,
         CancelConfirmedBooking, ChangeBookingCourt, CreateInternalBooking,
         RemoveInternalBooking
<1>7. CASE Commits
  <2>1. ASSUME NEW t \in tx, ConfirmBooking(t) PROVE Kept
    BY <2>1 DEF ConfirmBooking, LiveHold, Holds
  <2>2. QED
    BY <1>1, <1>2, <1>7, <2>1
       DEF Commits, CreateBookingFromHold, ConfirmationRefused,
           RejectLatePayment, CancelExpiredBooking
<1>8. CASE Scheduler
  <2>1. ReapExpiredHolds => Kept
    BY DEF ReapExpiredHolds, LiveHold, Holds
  <2>2. QED
    BY <1>1, <1>2, <1>8, <2>1
       DEF Scheduler, ReapExpiredBookings, CompleteEndedBooking
<1>9. CASE Tick
  <2>1. now \in Int /\ now' = now + 1 /\ hold' = hold
    BY <1>9, TimeAssumption DEF Tick, TypeInv, TypeOK, Time
  <2>2. \A j \in Holds : hold[j].exp \in Int
    BY HoldRow, TimeAssumption DEF TypeInv, Hold, Time
  <2>3. Kept
    BY <2>1, <2>2 DEF LiveHold, Holds
  <2>4. QED
    BY <1>1, <2>3
<1>10. CASE UNCHANGED vars
  BY <1>1, <1>2, <1>10 DEF vars
<1>11. QED
  BY <1>6, <1>7, <1>8, <1>9, <1>10 DEF Next

\* A player has one live checkout hold, however many requests are running.
THEOREM OneCheckoutHold == Spec => []OneCheckoutHoldPerPlayer
<1>1. Init => TypeInv /\ OneCheckoutHoldPerPlayer
  BY InitTypeInv DEF Init, OneCheckoutHoldPerPlayer, LiveHold, Holds
<1>2. TypeInv /\ OneCheckoutHoldPerPlayer /\ [Next]_vars
      => TypeInv' /\ OneCheckoutHoldPerPlayer'
  BY NextTypeInv, NextOneCheckout
<1>3. QED
  BY <1>1, <1>2, PTL DEF Spec

=============================================================================
