-------------------------- MODULE MatchFundingProofs --------------------------
(***************************************************************************)
(* Proofs about the money of a match, for any number of joins, commands    *)
(* and places and any prices that calculateMatchFunding can return.        *)
(* FundingInv ties the reserve of the platform to the contributions, the   *)
(* contributions to the joins and to the events that are still to come,    *)
(* and the attempt that is settled to the answer that venue has stored.    *)
(* MatchInv adds the places and the events that return the money of a      *)
(* match that is cancelled; CourtPaidInv, the course of a settlement from  *)
(* its command to the court it buys.  PurchaseInv maps the three services  *)
(* to CourtPurchase.                                                       *)
(***************************************************************************)
EXTENDS MatchFunding, MatchRules, FeeReceipts, SetSums, TLAPS

JoinStatus == {"none", "approved", "confirmed", "rejected", "withdrawn"}
Contribution == {"none", "pending", "paid", "settled", "refunded"}
Columns == {"status", "attempt", "revision", "reserve"}
IsRow(f) == f = [c \in Columns |-> f[c]]

\* What finance keeps of the match has the shape of its tables.
Shapes ==
  /\ source \in {"hold", "paid_booking"}
  /\ joins \in [Joins -> JoinStatus]
  /\ contributions \in [Payers -> Contribution]
  /\ IsRow(funding)
  /\ funding.status \in {"none", "collecting", "settling", "settled", "cancelled"}
  /\ paying \subseteq Payers

\* A payment that is under way is for a pending contribution; before the match
\* is known, and before a join is approved, there is none to pay; the organizer
\* of a paid booking has nothing to pay.
PaymentsFit ==
  /\ source = "paid_booking" => contributions[Organizer] # "pending"
  /\ \A p \in paying : contributions[p] = "pending"
  /\ funding.status = "none" => \A p \in Payers : contributions[p] = "none"
  /\ \A j \in Joins : joins[j] = "none" => contributions[j] = "none"

\* The result reserve is locked by a settlement only, and the match that was
\* made from a paid booking never waits for venue.
ReserveFits ==
  /\ funding.status \in {"none", "collecting", "settling"} => funding.reserve = "none"
  /\ source = "paid_booking" => funding.status # "settling"

Created == Event("finance", "MatchCreated", None)
Approved(j) == Event("finance", "JoinApproved", j)
Resolved(k) == Event("finance", "MatchBookingResolved", k)

\* The events that finance has still to handle come from something that has
\* happened, and has not been handled before.
MailFits ==
  /\ Created \in mail => funding.status = "none"
  /\ \A j \in Joins : Approved(j) \in mail
       => joins[j] # "none" /\ contributions[j] = "none"
  /\ \A k \in Commands : Resolved(k) \in mail => k \in DOMAIN commands

\* The money of a match that holds its court is spent only on a booking that
\* venue has confirmed for the very attempt finance was settling
SpentOnlyOnTheWinner ==
  source = "hold" /\ funding.status = "settled"
    => /\ funding.attempt \in DOMAIN commands
       /\ commands[funding.attempt].decision = "confirmed"
       /\ commands[funding.attempt].winner = funding.attempt

FundingInv ==
  /\ Shapes /\ PaymentsFit /\ ReserveFits /\ MailFits
  /\ ReserveIsOwed /\ SpentOnlyOnTheWinner

-----------------------------------------------------------------------------
(* The reserve behind the contributions.                                   *)

Paid(c) == {j \in Joins : c[j] = "paid"}
OwnShare(c) == IF source = "hold" /\ c[Organizer] = "paid" THEN OrganizerShare ELSE 0

LEMMA PaidReserveIs ==
  ASSUME NEW c
  PROVE  PaidReserve(c) = FeePerSlot * Cardinality(Paid(c)) + OwnShare(c)
BY DEF PaidReserve, Paid, OwnShare

LEMMA PaidIsFinite ==
  ASSUME NEW c
  PROVE  IsFiniteSet(Paid(c)) /\ Cardinality(Paid(c)) \in Nat
<1>1. IsFiniteSet(Joins) /\ Paid(c) \subseteq Joins
  BY FundingAssumption DEF Paid
<1>2. IsFiniteSet(Paid(c))
  BY <1>1, FS_Subset
<1> QED
  BY <1>2, FS_CardinalityType

LEMMA OwnShareIsNat ==
  ASSUME NEW c
  PROVE  OwnShare(c) \in Nat
BY FundingAssumption DEF OwnShare

LEMMA FeeTimes ==
  ASSUME NEW n \in Nat
  PROVE  /\ FeePerSlot * n \in Nat
         /\ FeePerSlot * (n + 1) = FeePerSlot * n + FeePerSlot
BY FundingAssumption

LEMMA PaidReserveIsNat ==
  ASSUME NEW c
  PROVE  PaidReserve(c) \in Nat
<1>1. FeePerSlot * Cardinality(Paid(c)) \in Nat /\ OwnShare(c) \in Nat
  BY PaidIsFinite, OwnShareIsNat, FeeTimes
<1> QED
  BY <1>1, PaidReserveIs

\* A contribution that is paid adds its amount.
LEMMA PaidReserveGrows ==
  ASSUME NEW c \in [Payers -> Contribution], NEW p \in Payers,
         c[p] # "paid", Cash(p)
  PROVE  PaidReserve([c EXCEPT ![p] = "paid"]) = PaidReserve(c) + Amount(p)
<1> DEFINE d == [c EXCEPT ![p] = "paid"]
<1>1. d[p] = "paid" /\ \A q \in Payers : q # p => d[q] = c[q]
  OBVIOUS
<1>2. Joins \subseteq Payers /\ Organizer \in Payers /\ Organizer \notin Joins
  BY FundingAssumption DEF Payers
<1> HIDE DEF d
<1>3. CASE p = Organizer
  <2>1. Paid(d) = Paid(c)
    BY <1>1, <1>2, <1>3 DEF Paid
  <2>2. OwnShare(d) = OrganizerShare /\ OwnShare(c) = 0
    BY <1>1, <1>3 DEF OwnShare, Cash
  <2>3. PaidReserve(d) = FeePerSlot * Cardinality(Paid(c)) + OrganizerShare
    BY <2>1, <2>2, PaidReserveIs
  <2>4. PaidReserve(c) = FeePerSlot * Cardinality(Paid(c)) + 0
    BY <2>2, PaidReserveIs
  <2>5. FeePerSlot * Cardinality(Paid(c)) \in Nat
    BY PaidIsFinite, FeeTimes
  <2> QED
    BY <1>3, <2>3, <2>4, <2>5, FundingAssumption DEF Amount, d
<1>4. CASE p # Organizer
  <2>1. p \in Joins
    BY <1>4 DEF Payers
  <2>2. Paid(d) = Paid(c) \cup {p} /\ p \notin Paid(c)
    BY <1>1, <1>2, <2>1 DEF Paid
  <2>3. OwnShare(d) = OwnShare(c)
    BY <1>1, <1>2, <1>4 DEF OwnShare
  <2>4. Cardinality(Paid(d)) = Cardinality(Paid(c)) + 1
    BY <2>2, PaidIsFinite, FS_AddElement
  <2>5. PaidReserve(d) = FeePerSlot * (Cardinality(Paid(c)) + 1) + OwnShare(c)
    BY <2>3, <2>4, PaidReserveIs
  <2>6. PaidReserve(c) = FeePerSlot * Cardinality(Paid(c)) + OwnShare(c)
    BY PaidReserveIs
  <2>7. /\ FeePerSlot * Cardinality(Paid(c)) \in Nat
        /\ FeePerSlot * (Cardinality(Paid(c)) + 1) = FeePerSlot * Cardinality(Paid(c)) + FeePerSlot
    BY PaidIsFinite, FeeTimes
  <2> QED
    BY <1>4, <2>5, <2>6, <2>7, OwnShareIsNat, FundingAssumption DEF Amount, d
<1> QED
  BY <1>3, <1>4

\* A contribution that is neither paid before nor after adds nothing.
LEMMA PaidReserveStays ==
  ASSUME NEW c, NEW d,
         \A p \in Payers : c[p] = "paid" <=> d[p] = "paid"
  PROVE  PaidReserve(d) = PaidReserve(c)
<1>1. Paid(d) = Paid(c) /\ OwnShare(d) = OwnShare(c)
  BY DEF Paid, OwnShare, Payers
<1> QED
  BY <1>1, PaidReserveIs

\* A fee that is returned leaves the reserve.
LEMMA PaidReserveShrinks ==
  ASSUME NEW c \in [Payers -> Contribution], NEW j \in Joins, c[j] = "paid"
  PROVE  PaidReserve([c EXCEPT ![j] = "refunded"]) = PaidReserve(c) - FeePerSlot
<1> DEFINE d == [c EXCEPT ![j] = "refunded"]
           e == [d EXCEPT ![j] = "paid"]
<1>1. j \in Payers /\ j # Organizer /\ Cash(j) /\ Amount(j) = FeePerSlot
  BY FundingAssumption DEF Payers, Cash, Amount
<1>2. d \in [Payers -> Contribution] /\ d[j] # "paid"
  BY <1>1 DEF Contribution
<1>3. \A p \in Payers : e[p] = "paid" <=> c[p] = "paid"
  BY <1>1
<1> HIDE DEF d
<1>4. PaidReserve(e) = PaidReserve(d) + FeePerSlot
  BY <1>1, <1>2, PaidReserveGrows
<1> HIDE DEF e
<1>5. PaidReserve(e) = PaidReserve(c)
  BY <1>3, PaidReserveStays
<1>6. PaidReserve(d) = PaidReserve(c) - FeePerSlot
  BY <1>4, <1>5, PaidReserveIsNat, FundingAssumption
<1> QED
  BY <1>6 DEF d

\* Nothing is paid any more once every paid contribution with money behind it
\* has been refunded or settled.
LEMMA PaidReserveIsZero ==
  ASSUME NEW c, \A p \in Payers : Cash(p) => c[p] # "paid"
  PROVE  PaidReserve(c) = 0
<1>1. Paid(c) = {}
  BY FundingAssumption DEF Paid, Payers, Cash
<1>2. Cardinality(Paid(c)) = 0
  BY <1>1, FS_EmptySet
<1>3. OwnShare(c) = 0
  BY DEF OwnShare, Payers, Cash
<1>4. FeePerSlot * 0 = 0
  BY FundingAssumption
<1> QED
  BY <1>2, <1>3, <1>4, PaidReserveIs

\* The full reserve is the price of the court and the result reserve.
LEMMA FullReserve ==
  ASSUME FullyReserved
  PROVE  PaidReserve(contributions)
           = BookingPrice + ResultReserve - (IF source = "hold" THEN 0 ELSE OrganizerShare)
<1>1. Cardinality(Paid(contributions)) = Slots
  BY DEF FullyReserved, PaidJoins, Paid
<1>2. OwnShare(contributions) = IF source = "hold" THEN OrganizerShare ELSE 0
  BY DEF FullyReserved, OwnShare
<1>3. PaidReserve(contributions) = FeePerSlot * Slots + OwnShare(contributions)
  BY <1>1, PaidReserveIs
<1>4. FeePerSlot * Slots \in Nat
  BY FundingAssumption
<1> QED
  BY <1>2, <1>3, <1>4, FundingAssumption

-----------------------------------------------------------------------------
(* Steps of matchmaking and venue: finance's rows stay as they are.        *)

\* No event is sent but the ones that others of the proof look after.
OtherMail == \A e \in mail' : e \in mail \/ e.type \notin {"MatchCreated", "JoinApproved",
                                                          "MatchBookingResolved"}

LEMMA EventTypes ==
  /\ Created.type = "MatchCreated"
  /\ \A j : Approved(j).type = "JoinApproved"
  /\ \A k : Resolved(k).type = "MatchBookingResolved"
BY DEF Created, Approved, Resolved, Event

\* The answers of venue stay where they are.
AnswersStay == /\ DOMAIN commands \subseteq DOMAIN commands'
               /\ \A k \in DOMAIN commands : commands'[k] = commands[k]

\* A join that has been asked for does not disappear.
JoinsStay == /\ joins' \in [Joins -> JoinStatus]
             /\ \A j \in Joins : joins'[j] = "none" <=> joins[j] = "none"

LEMMA MoneyStays ==
  ASSUME FundingInv, UNCHANGED <<source, funding, contributions, poolReserved, paying>>,
         AnswersStay
  PROVE  ReserveIsOwed' /\ SpentOnlyOnTheWinner' /\ ReserveFits'
<1>1. PaidReserve(contributions)' = PaidReserve(contributions)
  BY DEF PaidReserve
<1>2. ReserveIsOwed'
  BY <1>1 DEF FundingInv, ReserveIsOwed
<1>3. SpentOnlyOnTheWinner'
  BY DEF FundingInv, SpentOnlyOnTheWinner, AnswersStay
<1> QED
  BY <1>2, <1>3 DEF FundingInv, ReserveFits

LEMMA OutsideKeeps ==
  ASSUME FundingInv, UNCHANGED <<source, funding, contributions, poolReserved, paying>>,
         OtherMail, AnswersStay, JoinsStay
  PROVE  FundingInv'
<1>1. Shapes' /\ PaymentsFit'
  BY DEF FundingInv, Shapes, PaymentsFit, JoinsStay
<1>2. MailFits'
  <2>1. Created' = Created /\ \A j : Approved(j)' = Approved(j) /\ \A k : Resolved(k)' = Resolved(k)
    BY DEF Created, Approved, Resolved, Event
  <2>2. /\ Created \in mail' => Created \in mail
        /\ \A j \in Joins : Approved(j) \in mail' => Approved(j) \in mail
        /\ \A k \in Commands : Resolved(k) \in mail' => Resolved(k) \in mail
    BY EventTypes DEF OtherMail
  <2> QED
    BY <2>1, <2>2 DEF FundingInv, MailFits, AnswersStay, JoinsStay
<1> QED
  BY <1>1, <1>2, MoneyStays DEF FundingInv

LEMMA JoinsUntouched ==
  ASSUME FundingInv, UNCHANGED joins
  PROVE  JoinsStay
BY DEF FundingInv, Shapes, JoinsStay

LEMMA AllWithdrawnStay ==
  ASSUME FundingInv, joins' = AllWithdrawn
  PROVE  JoinsStay
BY DEF FundingInv, Shapes, JoinsStay, JoinStatus, AllWithdrawn

\* One join leaves: whichever it is, it had been asked for.
LEMMA OneWithdrawnStays ==
  ASSUME FundingInv, NEW j, NEW s \in {"withdrawn", "rejected", "confirmed"},
         joins' = [joins EXCEPT ![j] = IF @ \in {"approved", "confirmed"} THEN s ELSE @]
  PROVE  JoinsStay
BY DEF FundingInv, Shapes, JoinsStay, JoinStatus

LEMMA CancelledMail ==
  ASSUME NEW r, NEW e \in MatchCancelled(r)
  PROVE  e.type = "MatchCancelled"
BY DEF MatchCancelled, Event

LEMMA RequestJoinKeeps ==
  ASSUME FundingInv, NEW j \in Joins, RequestJoin(j)
  PROVE  FundingInv'
<1>1. /\ joins[j] = "none" /\ mail' = mail \cup {Approved(j)}
      /\ joins' = [i \in Joins |-> IF i = j THEN "approved"
                               ELSE IF joins[i] = "approved" /\ i \in lateJoins THEN "rejected"
                               ELSE joins[i]]
      /\ UNCHANGED <<source, funding, contributions, poolReserved, paying, commands>>
  BY DEF RequestJoin, Post, Approved, venueVars, financeVars
<1>2. joins' \in [Joins -> JoinStatus] /\ \A i \in Joins : joins'[i] = "none" => joins[i] = "none"
  BY <1>1 DEF FundingInv, Shapes, JoinStatus
<1>3. Shapes' /\ PaymentsFit'
  BY <1>1, <1>2 DEF FundingInv, Shapes, PaymentsFit
<1>4. MailFits'
  <2>1. Created' = Created /\ \A i : Approved(i)' = Approved(i) /\ \A k : Resolved(k)' = Resolved(k)
    BY DEF Created, Approved, Resolved, Event
  <2>2. /\ Created \in mail' => Created \in mail
        /\ \A k \in Commands : Resolved(k) \in mail' => Resolved(k) \in mail
    BY <1>1, EventTypes
  <2>3. \A i \in Joins : Approved(i) \in mail' => Approved(i) \in mail \/ i = j
    BY <1>1 DEF Approved, Event
  <2>4. \A i \in Joins : Approved(i) \in mail' => joins'[i] # "none" /\ contributions[i] = "none"
    BY <1>1, <2>3 DEF FundingInv, MailFits, PaymentsFit
  <2> QED
    BY <1>1, <2>1, <2>2, <2>4 DEF FundingInv, MailFits
<1>5. AnswersStay
  BY <1>1 DEF AnswersStay
<1> QED
  BY <1>1, <1>3, <1>4, <1>5, MoneyStays DEF FundingInv

\* Venue stores its answer before it sends it.
LEMMA ResolveKeeps ==
  ASSUME FundingInv, NEW k \in Commands, ResolveMatchBooking(k)
  PROVE  FundingInv'
<1>1. /\ k \notin DOMAIN commands
      /\ UNCHANGED <<source, joins, funding, contributions, poolReserved, paying>>
  BY DEF ResolveMatchBooking, matchVars, financeVars
<1>2. \E a : commands' = [c \in DOMAIN commands \cup {k} |-> IF c = k THEN a ELSE commands[c]]
  BY DEF ResolveMatchBooking
<1>3. DOMAIN commands' = DOMAIN commands \cup {k} /\ AnswersStay
  BY <1>1, <1>2 DEF AnswersStay
<1>4. mail' \subseteq mail \cup {Resolved(k), Event("matchmaking", "MatchBookingResolved", k),
                                Event("matchmaking", "BookingConfirmed", None)}
  BY DEF ResolveMatchBooking, HandledAndPost, Resolved
<1>5. MailFits'
  <2>1. Created' = Created /\ \A i : Approved(i)' = Approved(i) /\ \A c : Resolved(c)' = Resolved(c)
    BY DEF Created, Approved, Resolved, Event
  <2>2. /\ Created \in mail' => Created \in mail
        /\ \A i \in Joins : Approved(i) \in mail' => Approved(i) \in mail
        /\ \A c \in Commands : Resolved(c) \in mail' => Resolved(c) \in mail \/ c = k
    BY <1>4 DEF Created, Approved, Resolved, Event
  <2> QED
    BY <1>1, <1>3, <2>1, <2>2 DEF FundingInv, MailFits
<1>6. Shapes' /\ PaymentsFit'
  BY <1>1 DEF FundingInv, Shapes, PaymentsFit
<1> QED
  BY <1>1, <1>3, <1>5, <1>6, MoneyStays DEF FundingInv

\* What a step outside finance leaves alone.
FinanceStays == UNCHANGED <<source, funding, contributions, poolReserved, paying>>

LEMMA SameAnswers ==
  ASSUME UNCHANGED commands
  PROVE  AnswersStay
BY DEF AnswersStay

\* Mail that only loses an event, or gains the news of a cancellation.
LEMMA QuietMail ==
  ASSUME NEW r, mail' \subseteq mail \cup MatchCancelled(r)
  PROVE  OtherMail
BY CancelledMail DEF OtherMail

\* Mail that gains one event of another type.
LEMMA OneMail ==
  ASSUME NEW to, NEW about,
         NEW type, type \notin {"MatchCreated", "JoinApproved", "MatchBookingResolved"},
         mail' \subseteq mail \cup {Event(to, type, about)}
  PROVE  OtherMail
BY DEF OtherMail, Event

LEMMA BeginKeeps ==
  ASSUME FundingInv, NEW k, NEW action, NEW about, BeginResolution(k, action, about)
  PROVE  FundingInv'
<1>1. FinanceStays /\ UNCHANGED <<joins, commands, mail>>
  BY DEF BeginResolution, FinanceStays, venueVars, financeVars
<1>2. OtherMail
  BY <1>1 DEF OtherMail
<1> QED
  BY <1>1, <1>2, JoinsUntouched, SameAnswers, OutsideKeeps DEF FinanceStays

LEMMA CloseKeeps ==
  ASSUME FundingInv, ClosePaidBookingMatchLayer
  PROVE  FundingInv'
<1>1. FinanceStays /\ joins' = AllWithdrawn /\ UNCHANGED commands
      /\ mail' = mail \cup MatchCancelled("other")
  BY DEF ClosePaidBookingMatchLayer, FinanceStays, venueVars, financeVars, Post
<1> QED
  BY <1>1, QuietMail, AllWithdrawnStay, SameAnswers, OutsideKeeps DEF FinanceStays

LEMMA ResolutionKeeps ==
  ASSUME FundingInv, NEW k, NEW answer, ResolutionApplied(k, answer),
         FinanceStays, UNCHANGED commands
  PROVE  FundingInv'
<1> DEFINE j == issued[k].about
           left == [joins EXCEPT ![j] = IF @ \in {"approved", "confirmed"} THEN "withdrawn" ELSE @]
<1>1. joins' = left \/ joins' = AllWithdrawn \/ joins' = joins
  BY DEF ResolutionApplied
<1>2. JoinsStay
  BY <1>1, OneWithdrawnStays, AllWithdrawnStay, JoinsUntouched
<1>3. \/ mail' = mail
      \/ mail' \subseteq mail \cup {Event("finance", "MatchFeeRefundRequested", j)}
      \/ mail' = mail \cup MatchCancelled("other")
  BY DEF ResolutionApplied, Post
<1>4. OtherMail
  <2>1. CASE mail' \subseteq mail \cup {Event("finance", "MatchFeeRefundRequested", j)}
    BY <2>1, OneMail
  <2>2. CASE mail' = mail \/ mail' = mail \cup MatchCancelled("other")
    BY <2>2, QuietMail
  <2> QED
    BY <1>3, <2>1, <2>2
<1> QED
  BY <1>2, <1>4, SameAnswers, OutsideKeeps DEF FinanceStays

\* The joins: a window ends, a player leaves, a fee arrives.
LEMMA JoinStep ==
  ASSUME FundingInv, NEW j \in Joins,
         JoinWindowEnds(j) \/ WithdrawFromPaidBookingMatch(j) \/ HandleJoinPaid(j)
  PROVE  FundingInv'
<1>1. FinanceStays /\ UNCHANGED commands
  BY DEF JoinWindowEnds, WithdrawFromPaidBookingMatch, HandleJoinPaid, FinanceStays,
         venueVars, financeVars
<1>2. CASE JoinWindowEnds(j)
  <2>1. UNCHANGED <<joins, mail>>
    BY <1>2 DEF JoinWindowEnds
  <2> QED
    BY <1>1, <2>1, JoinsUntouched, SameAnswers, OutsideKeeps DEF FinanceStays, OtherMail
<1>3. CASE WithdrawFromPaidBookingMatch(j)
  <2>1. /\ joins' = [joins EXCEPT ![j] = "withdrawn"] /\ joins[j] \in {"approved", "confirmed"}
        /\ mail' \subseteq mail \cup {Event("finance", "MatchFeeRefundRequested", j)}
    BY <1>3 DEF WithdrawFromPaidBookingMatch, Post
  <2>2. JoinsStay
    BY <2>1 DEF FundingInv, Shapes, JoinsStay, JoinStatus
  <2>3. OtherMail
    BY <2>1, OneMail
  <2> QED
    BY <1>1, <2>2, <2>3, SameAnswers, OutsideKeeps DEF FinanceStays
<1>4. CASE HandleJoinPaid(j)
  <2>1. \/ joins' = [joins EXCEPT ![j] = IF @ = "approved" THEN "rejected" ELSE @]
        \/ joins[j] = "approved" /\ joins' = [joins EXCEPT ![j] = "confirmed"]
    BY <1>4 DEF HandleJoinPaid
  <2>2. JoinsStay
    BY <2>1 DEF FundingInv, Shapes, JoinsStay, JoinStatus
  <2>3. \/ mail' \subseteq mail
        \/ mail' \subseteq mail \cup {Event("finance", "MatchFeeRefundRequested", j)}
        \/ \E k \in Commands : mail' \subseteq mail \cup {Event("finance", "MatchConfirmed", k)}
    BY <1>4 DEF HandleJoinPaid, Handled, HandledAndPost
  <2>4. OtherMail
    <3>1. CASE mail' \subseteq mail
      BY <3>1 DEF OtherMail
    <3>2. CASE mail' \subseteq mail \cup {Event("finance", "MatchFeeRefundRequested", j)}
      BY <3>2, OneMail
    <3>3. CASE \E k \in Commands : mail' \subseteq mail \cup {Event("finance", "MatchConfirmed", k)}
      BY <3>3, OneMail
    <3> QED
      BY <2>3, <3>1, <3>2, <3>3
  <2> QED
    BY <1>1, <2>2, <2>4, SameAnswers, OutsideKeeps DEF FinanceStays
<1> QED
  BY <1>2, <1>3, <1>4

\* The joins that a sweep or a cancellation takes off.
LEMMA SweptStay ==
  ASSUME FundingInv,
         joins' = [j \in Joins |-> IF joins[j] = "approved" /\ j \in lateJoins
                                  THEN "rejected" ELSE joins[j]]
  PROVE  JoinsStay
BY DEF FundingInv, Shapes, JoinsStay, JoinStatus

\* The commands of matchmaking, and what becomes of their answers.
LEMMA CommandStep ==
  ASSUME FundingInv, NEW k \in Commands,
         \/ RequestMatchFundingAtCutoff(k) \/ ApplyMatchBookingResolution(k)
         \/ CancelWithoutBooking(k) \/ HandleSettleResolved(k) \/ HandleCommandResolved(k)
  PROVE  FundingInv'
<1>1. FinanceStays /\ UNCHANGED commands
  BY DEF RequestMatchFundingAtCutoff, ApplyMatchBookingResolution, CancelWithoutBooking,
         HandleSettleResolved, HandleCommandResolved, FinanceStays, venueVars, financeVars
<1>2. CASE RequestMatchFundingAtCutoff(k)
  <2>1. UNCHANGED joins /\ mail' \subseteq mail \cup {Event("finance", "MatchConfirmed", k)}
    BY <1>2 DEF RequestMatchFundingAtCutoff, Post
  <2>2. OtherMail
    BY <2>1, OneMail
  <2> QED
    BY <1>1, <2>1, <2>2, JoinsUntouched, SameAnswers, OutsideKeeps DEF FinanceStays
<1>3. CASE ApplyMatchBookingResolution(k) \/ CancelWithoutBooking(k)
  BY <1>1, <1>3, ResolutionKeeps DEF ApplyMatchBookingResolution, CancelWithoutBooking
<1>4. CASE HandleSettleResolved(k)
  <2>1. /\ joins' = joins \/ joins' = AllWithdrawn
        /\ mail' \subseteq mail \cup MatchCancelled("other")
    BY <1>4 DEF HandleSettleResolved, Handled, HandledAndPost
  <2> QED
    BY <1>1, <2>1, QuietMail, JoinsUntouched, AllWithdrawnStay, SameAnswers, OutsideKeeps
       DEF FinanceStays
<1>5. CASE HandleCommandResolved(k)
  <2>1. UNCHANGED joins /\ mail' \subseteq mail
    BY <1>5 DEF HandleCommandResolved, Handled, matchVars
  <2> QED
    BY <1>1, <2>1, JoinsUntouched, SameAnswers, OutsideKeeps DEF FinanceStays, OtherMail
<1> QED
  BY <1>2, <1>3, <1>4, <1>5

\* The sweeps, the deposit and the events of matchmaking.
LEMMA MatchStep ==
  ASSUME FundingInv,
         \/ ReleaseExpiredApprovedJoins \/ CancelMatchAtCutoff \/ CancelMatchByOrganizer
         \/ FinalizeConfirmedPolicyCancellation \/ CancelExpiredDepositMatch
         \/ ActivateMatchHold \/ HandleDepositPaid
         \/ HandleFunded("BookingConfirmed") \/ HandleFunded("MatchFundingCompleted")
         \/ HandleBookingCompleted \/ FinalizeResult
         \/ \E was \in {"held", "confirmed"} : HandleShutdownBookingCancellation(was)
  PROVE  FundingInv'
<1>1. CASE CancelMatchAtCutoff \/ CancelMatchByOrganizer
  BY <1>1, CloseKeeps, BeginKeeps DEF CancelMatchAtCutoff, CancelMatchByOrganizer
<1>2. CASE ReleaseExpiredApprovedJoins
  <2>1. FinanceStays /\ UNCHANGED <<commands, mail>>
    BY <1>2 DEF ReleaseExpiredApprovedJoins, FinanceStays, venueVars, financeVars
  <2>2. JoinsStay
    BY <1>2, SweptStay DEF ReleaseExpiredApprovedJoins
  <2> QED
    BY <2>1, <2>2, SameAnswers, OutsideKeeps DEF FinanceStays, OtherMail
<1>3. CASE FinalizeConfirmedPolicyCancellation
  <2>1. FinanceStays /\ UNCHANGED commands /\ joins' = AllWithdrawn
        /\ mail' = mail \cup MatchCancelled("confirmed_booking_policy")
    BY <1>3 DEF FinalizeConfirmedPolicyCancellation, FinanceStays, venueVars, financeVars, Post
  <2> QED
    BY <2>1, QuietMail, AllWithdrawnStay, SameAnswers, OutsideKeeps DEF FinanceStays
<1>4. CASE CancelExpiredDepositMatch \/ ActivateMatchHold \/ HandleDepositPaid
  <2>1. FinanceStays /\ UNCHANGED <<commands, joins>>
        /\ mail' \subseteq mail \cup MatchCancelled("other")
    BY <1>4 DEF CancelExpiredDepositMatch, ActivateMatchHold, HandleDepositPaid, FinanceStays,
                venueVars, financeVars, Post, Handled, HandledAndPost
  <2> QED
    BY <2>1, QuietMail, JoinsUntouched, SameAnswers, OutsideKeeps DEF FinanceStays
<1>5. CASE \/ HandleFunded("BookingConfirmed") \/ HandleFunded("MatchFundingCompleted")
           \/ HandleBookingCompleted
  <2>1. FinanceStays /\ UNCHANGED <<commands, joins>> /\ mail' \subseteq mail
    BY <1>5 DEF HandleFunded, HandleBookingCompleted, FinanceStays, venueVars, financeVars, Handled
  <2> QED
    BY <2>1, JoinsUntouched, SameAnswers, OutsideKeeps DEF FinanceStays, OtherMail
<1>6. CASE FinalizeResult
  <2>1. FinanceStays /\ UNCHANGED <<commands, joins>>
        /\ mail' \subseteq mail \cup {Event("finance", "MatchResultFinalized", None)}
    BY <1>6 DEF FinalizeResult, FinanceStays, matchVars, venueVars, financeVars, Post
  <2>2. OtherMail
    BY <2>1, OneMail
  <2> QED
    BY <2>1, <2>2, JoinsUntouched, SameAnswers, OutsideKeeps DEF FinanceStays
<1>7. ASSUME NEW was \in {"held", "confirmed"}, HandleShutdownBookingCancellation(was)
      PROVE  FundingInv'
  <2>1. FinanceStays /\ UNCHANGED commands /\ (joins' = joins \/ joins' = AllWithdrawn)
    BY <1>7 DEF HandleShutdownBookingCancellation, FinanceStays, venueVars, financeVars
  <2>2. \E r \in Reasons : mail' \subseteq mail \cup MatchCancelled(r)
    BY <1>7 DEF HandleShutdownBookingCancellation, HandledAndPost, Reasons
  <2>3. OtherMail
    BY <2>2, QuietMail
  <2> QED
    BY <2>1, <2>3, JoinsUntouched, AllWithdrawnStay, SameAnswers, OutsideKeeps DEF FinanceStays
<1> QED
  BY <1>1, <1>2, <1>3, <1>4, <1>5, <1>6, <1>7

\* Venue's own steps, the loss of an event and the clock.
LEMMA VenueStep ==
  ASSUME FundingInv,
         \/ \E r \in Reasons : ReleaseHeldMatchBooking(r)
         \/ ReapExpiredMatchBooking \/ LeaveMatchCheckout \/ CancelBookingByOwner
         \/ ShutdownCancelsBooking \/ CompleteMatchBooking
         \/ \E e \in mail : GiveUp(e)
         \/ MatchPhaseEnds
  PROVE  FundingInv'
<1>1. FinanceStays /\ UNCHANGED <<joins, commands>>
  BY DEF ReleaseHeldMatchBooking, ReapExpiredMatchBooking, LeaveMatchCheckout,
         CancelBookingByOwner, ShutdownCancelsBooking, CompleteMatchBooking, GiveUp,
         MatchPhaseEnds, FinanceStays, matchVars, venueVars, financeVars
<1>2. CASE \/ \E r \in Reasons : ReleaseHeldMatchBooking(r)
           \/ ReapExpiredMatchBooking \/ LeaveMatchCheckout
           \/ \E e \in mail : GiveUp(e)
           \/ MatchPhaseEnds
  <2>1. mail' \subseteq mail
    BY <1>2 DEF ReleaseHeldMatchBooking, ReapExpiredMatchBooking, LeaveMatchCheckout, GiveUp,
                MatchPhaseEnds, Handled
  <2> QED
    BY <1>1, <2>1, JoinsUntouched, SameAnswers, OutsideKeeps DEF FinanceStays, OtherMail
<1>3. CASE CancelBookingByOwner
  <2>1. mail' \subseteq mail \cup {Event("finance", "BookingCancelled", None)}
    BY <1>3 DEF CancelBookingByOwner, Post
  <2>2. OtherMail
    BY <2>1, OneMail
  <2> QED
    BY <1>1, <2>2, JoinsUntouched, SameAnswers, OutsideKeeps DEF FinanceStays
<1>4. CASE ShutdownCancelsBooking
  <2>1. mail' \subseteq mail \cup {Event("matchmaking", "ShutdownBookingCancellationRequested",
                                       booking.status),
                                 Event("finance", "BookingCancelled", None)}
    BY <1>4 DEF ShutdownCancelsBooking, Post
  <2>2. OtherMail
    BY <2>1 DEF OtherMail, Event
  <2> QED
    BY <1>1, <2>2, JoinsUntouched, SameAnswers, OutsideKeeps DEF FinanceStays
<1>5. CASE CompleteMatchBooking
  <2>1. mail' \subseteq mail \cup {Event("matchmaking", "BookingCompleted", None)}
    BY <1>5 DEF CompleteMatchBooking, Post
  <2>2. OtherMail
    BY <2>1, OneMail
  <2> QED
    BY <1>1, <2>2, JoinsUntouched, SameAnswers, OutsideKeeps DEF FinanceStays
<1> QED
  BY <1>2, <1>3, <1>4, <1>5

-----------------------------------------------------------------------------
(* Steps of finance.                                                       *)

\* The row of the funding, after one of the updates of its handlers.
LEMMA StatusUpdate ==
  ASSUME NEW f, IsRow(f), NEW x
  PROVE  /\ IsRow([f EXCEPT !.status = x])
         /\ [f EXCEPT !.status = x].status = x
         /\ [f EXCEPT !.status = x].attempt = f.attempt
         /\ [f EXCEPT !.status = x].reserve = f.reserve
BY DEF IsRow, Columns

LEMMA AttemptUpdate ==
  ASSUME NEW f, IsRow(f), NEW x
  PROVE  /\ IsRow([f EXCEPT !.attempt = x])
         /\ [f EXCEPT !.attempt = x].attempt = x
         /\ [f EXCEPT !.attempt = x].status = f.status
         /\ [f EXCEPT !.attempt = x].reserve = f.reserve
BY DEF IsRow, Columns

LEMMA RevisionUpdate ==
  ASSUME NEW f, IsRow(f), NEW x
  PROVE  /\ IsRow([f EXCEPT !.revision = x])
         /\ [f EXCEPT !.revision = x].revision = x
         /\ [f EXCEPT !.revision = x].status = f.status
         /\ [f EXCEPT !.revision = x].attempt = f.attempt
         /\ [f EXCEPT !.revision = x].reserve = f.reserve
BY DEF IsRow, Columns

LEMMA ReserveUpdate ==
  ASSUME NEW f, IsRow(f), NEW x
  PROVE  /\ IsRow([f EXCEPT !.reserve = x])
         /\ [f EXCEPT !.reserve = x].reserve = x
         /\ [f EXCEPT !.reserve = x].status = f.status
         /\ [f EXCEPT !.reserve = x].attempt = f.attempt
BY DEF IsRow, Columns

\* What has to be shown of a step of finance that writes no new contribution.
LEMMA FinanceKeeps ==
  ASSUME FundingInv, UNCHANGED <<source, joins, commands>>, OtherMail,
         contributions' \in [Payers -> Contribution], paying' \subseteq Payers,
         IsRow(funding'),
         funding'.status \in {"none", "collecting", "settling", "settled", "cancelled"},
         funding'.status = "none" <=> funding.status = "none",
         \A p \in Payers : contributions[p] = "none" => contributions'[p] = "none",
         \A p \in paying' : contributions'[p] = "pending",
         \A p \in Payers : contributions'[p] = "pending" => contributions[p] = "pending",
         ReserveFits', ReserveIsOwed', SpentOnlyOnTheWinner'
  PROVE  FundingInv'
<1>1. Joins \subseteq Payers /\ Organizer \in Payers
  BY DEF Payers
<1>2. Shapes' /\ PaymentsFit'
  BY <1>1 DEF FundingInv, Shapes, PaymentsFit
<1>3. MailFits'
  <2>1. Created' = Created /\ \A j : Approved(j)' = Approved(j) /\ \A k : Resolved(k)' = Resolved(k)
    BY DEF Created, Approved, Resolved, Event
  <2>2. /\ Created \in mail' => Created \in mail
        /\ \A j \in Joins : Approved(j) \in mail' => Approved(j) \in mail
        /\ \A k \in Commands : Resolved(k) \in mail' => Resolved(k) \in mail
    BY EventTypes DEF OtherMail
  <2> QED
    BY <1>1, <2>1, <2>2 DEF FundingInv, MailFits
<1> QED
  BY <1>2, <1>3 DEF FundingInv

LEMMA CreatedKeeps == FundingInv /\ HandleMatchCreated => FundingInv'
<1> SUFFICES ASSUME FundingInv, HandleMatchCreated PROVE FundingInv'
  OBVIOUS
<1> DEFINE s == IF source = "paid_booking" THEN "paid" ELSE "pending"
<1>1. /\ Created \in mail /\ mail' = mail \ {Created}
      /\ funding' = [funding EXCEPT !.status = "collecting"]
      /\ contributions' = [contributions EXCEPT ![Organizer] = s]
      /\ UNCHANGED <<source, joins, commands, poolReserved, paying>>
  BY DEF HandleMatchCreated, Handled, Created, matchVars, venueVars
<1>2. /\ funding.status = "none" /\ funding.reserve = "none"
      /\ IsRow(funding) /\ contributions \in [Payers -> Contribution]
      /\ \A p \in Payers : contributions[p] = "none"
      /\ paying = {}
  BY <1>1 DEF FundingInv, MailFits, PaymentsFit, ReserveFits, Shapes
<1>3. IsRow(funding') /\ funding'.status = "collecting" /\ funding'.reserve = "none"
  BY <1>1, <1>2, StatusUpdate
<1>4. Organizer \in Payers /\ Joins \subseteq Payers /\ Organizer \notin Joins
  BY FundingAssumption DEF Payers
<1>5. /\ contributions' \in [Payers -> Contribution] /\ contributions'[Organizer] = s
      /\ \A j \in Joins : contributions'[j] = "none"
  BY <1>1, <1>2, <1>4 DEF Contribution
<1>6. Shapes' /\ PaymentsFit' /\ ReserveFits'
  BY <1>1, <1>2, <1>3, <1>4, <1>5 DEF FundingInv, Shapes, PaymentsFit, ReserveFits
<1>7. MailFits'
  <2>1. Created' = Created /\ \A j : Approved(j)' = Approved(j) /\ \A k : Resolved(k)' = Resolved(k)
    BY DEF Created, Approved, Resolved, Event
  <2> QED
    BY <1>1, <1>5, <2>1 DEF FundingInv, MailFits
<1>8. ReserveIsOwed'
  <2>1. PaidReserve(contributions)' = PaidReserve(contributions')
    BY <1>1 DEF PaidReserve
  <2>2. \A p \in Payers : Cash(p) => contributions[p] # "paid"
    BY <1>2
  <2>3. \A p \in Payers : Cash(p) => contributions'[p] # "paid"
    BY <1>4, <1>5 DEF Payers, Cash
  <2>4. PaidReserve(contributions) = 0 /\ PaidReserve(contributions') = 0
    BY <2>2, <2>3, PaidReserveIsZero
  <2> QED
    BY <1>1, <1>2, <1>3, <2>1, <2>4 DEF FundingInv, ReserveIsOwed
<1>9. SpentOnlyOnTheWinner'
  BY <1>3 DEF SpentOnlyOnTheWinner
<1> QED
  BY <1>6, <1>7, <1>8, <1>9 DEF FundingInv

LEMMA ApprovedKeeps ==
  ASSUME FundingInv, NEW j \in Joins, HandleJoinApproved(j)
  PROVE  FundingInv'
<1>1. /\ Approved(j) \in mail /\ mail' = mail \ {Approved(j)}
      /\ funding.status = "collecting"
      /\ contributions' = [contributions EXCEPT ![j] = "pending"]
      /\ UNCHANGED <<source, joins, commands, funding, poolReserved, paying>>
  BY DEF HandleJoinApproved, Handled, Approved, matchVars, venueVars
<1>2. /\ joins[j] # "none" /\ contributions[j] = "none" /\ j \in Payers
      /\ contributions \in [Payers -> Contribution] /\ Joins \subseteq Payers
      /\ Organizer \in Payers /\ j # Organizer
  BY <1>1, FundingAssumption DEF FundingInv, MailFits, Shapes, Payers
<1>3. /\ contributions' \in [Payers -> Contribution]
      /\ contributions'[j] = "pending"
      /\ \A p \in Payers : p # j => contributions'[p] = contributions[p]
  BY <1>1, <1>2 DEF Contribution
<1>4. Shapes' /\ PaymentsFit'
  BY <1>1, <1>2, <1>3 DEF FundingInv, Shapes, PaymentsFit
<1>5. MailFits'
  <2>1. Created' = Created /\ \A i : Approved(i)' = Approved(i) /\ \A k : Resolved(k)' = Resolved(k)
    BY DEF Created, Approved, Resolved, Event
  <2> QED
    BY <1>1, <1>2, <1>3, <2>1 DEF FundingInv, MailFits
<1>6. ReserveIsOwed'
  <2>1. PaidReserve(contributions)' = PaidReserve(contributions')
    BY <1>1 DEF PaidReserve
  <2>2. \A p \in Payers : contributions[p] = "paid" <=> contributions'[p] = "paid"
    BY <1>2, <1>3
  <2>3. PaidReserve(contributions') = PaidReserve(contributions)
    BY <2>2, PaidReserveStays
  <2> QED
    BY <1>1, <2>1, <2>3 DEF FundingInv, ReserveIsOwed
<1>7. SpentOnlyOnTheWinner' /\ ReserveFits'
  BY <1>1 DEF FundingInv, SpentOnlyOnTheWinner, ReserveFits
<1> QED
  BY <1>4, <1>5, <1>6, <1>7 DEF FundingInv

LEMMA PayKeeps ==
  ASSUME FundingInv, NEW p \in Payers, StartPayment(p) \/ CommitPayment(p)
  PROVE  FundingInv'
<1>1. CASE StartPayment(p)
  <2>1. /\ contributions[p] = "pending" /\ paying' = paying \cup {p}
        /\ UNCHANGED <<source, joins, commands, funding, contributions, poolReserved, mail>>
        /\ funding.status = "collecting"
    BY <1>1 DEF StartPayment, ContributionPayable, matchVars, venueVars
  <2>2. AnswersStay /\ OtherMail
    BY <2>1 DEF AnswersStay, OtherMail
  <2>3. PaidReserve(contributions)' = PaidReserve(contributions)
    BY <2>1 DEF PaidReserve
  <2>4. ReserveIsOwed' /\ SpentOnlyOnTheWinner' /\ ReserveFits'
    BY <2>1, <2>3 DEF FundingInv, ReserveIsOwed, SpentOnlyOnTheWinner, ReserveFits
  <2> QED
    BY <2>1, <2>2, <2>4, FinanceKeeps DEF FundingInv, Shapes, PaymentsFit
<1>2. CASE CommitPayment(p)
  <2>1. /\ p \in paying /\ paying' = paying \ {p}
        /\ contributions' = [contributions EXCEPT ![p] = "paid"]
        /\ poolReserved' = poolReserved + Amount(p)
        /\ mail' \subseteq mail \cup {Event("matchmaking", "PaymentCompleted", p)}
        /\ UNCHANGED <<source, joins, commands, funding>>
    BY <1>2 DEF CommitPayment, Post, matchVars, venueVars
  <2>2. OtherMail
    BY <2>1, OneMail
  <2>3. /\ contributions[p] = "pending" /\ contributions \in [Payers -> Contribution]
        /\ funding.status # "none"
    BY <2>1 DEF FundingInv, PaymentsFit, Shapes
  <2>4. /\ contributions' \in [Payers -> Contribution] /\ contributions'[p] = "paid"
        /\ \A q \in Payers : q # p => contributions'[q] = contributions[q]
    BY <2>1, <2>3 DEF Contribution
  <2>5. Cash(p)
    BY <2>1, <2>3 DEF FundingInv, Shapes, PaymentsFit, Cash
  <2>6. PaidReserve(contributions)' = PaidReserve(contributions) + Amount(p)
    <3>1. PaidReserve(contributions)' = PaidReserve(contributions')
      BY <2>1 DEF PaidReserve
    <3>2. PaidReserve([contributions EXCEPT ![p] = "paid"]) = PaidReserve(contributions) + Amount(p)
      BY <2>3, <2>5, PaidReserveGrows
    <3> QED
      BY <2>1, <3>1, <3>2
  <2>7. ReserveIsOwed'
    BY <2>1, <2>6, PaidReserveIsNat, FundingAssumption
       DEF FundingInv, ReserveIsOwed, Amount
  <2>8. SpentOnlyOnTheWinner' /\ ReserveFits'
    BY <2>1 DEF FundingInv, SpentOnlyOnTheWinner, ReserveFits
  <2> QED
    BY <2>1, <2>2, <2>3, <2>4, <2>7, <2>8, FinanceKeeps DEF FundingInv, Shapes, PaymentsFit
<1> QED
  BY <1>1, <1>2

LEMMA FeeRefundKeeps ==
  ASSUME FundingInv, NEW j \in Joins, HandleMatchFeeRefundRequested(j)
  PROVE  FundingInv'
<1>1. /\ mail' \subseteq mail /\ contributions[j] # "none"
      /\ \/ /\ contributions[j] = "paid"
            /\ contributions' = [contributions EXCEPT ![j] = "refunded"]
            /\ poolReserved' = poolReserved - FeePerSlot
         \/ UNCHANGED <<contributions, poolReserved>>
      /\ UNCHANGED <<source, joins, commands, funding, paying>>
  BY DEF HandleMatchFeeRefundRequested, Handled, matchVars, venueVars
<1>2. /\ contributions \in [Payers -> Contribution] /\ j \in Payers
      /\ \A p \in paying : contributions[p] = "pending"
  BY DEF FundingInv, Shapes, PaymentsFit, Payers
<1>3. /\ contributions' \in [Payers -> Contribution]
      /\ \A p \in Payers : \/ contributions'[p] = contributions[p]
                           \/ contributions[p] = "paid" /\ contributions'[p] = "refunded"
  BY <1>1, <1>2 DEF Contribution
<1>4. ReserveIsOwed'
  <2>1. PaidReserve(contributions)' = PaidReserve(contributions')
    BY <1>1 DEF PaidReserve
  <2>2. CASE /\ contributions[j] = "paid" /\ poolReserved' = poolReserved - FeePerSlot
             /\ contributions' = [contributions EXCEPT ![j] = "refunded"]
    <3>1. PaidReserve(contributions') = PaidReserve(contributions) - FeePerSlot
      BY <1>2, <2>2, PaidReserveShrinks
    <3> QED
      BY <1>1, <2>1, <2>2, <3>1, PaidReserveIsNat, FundingAssumption DEF FundingInv, ReserveIsOwed
  <2>3. CASE UNCHANGED <<contributions, poolReserved>>
    BY <1>1, <2>1, <2>3 DEF FundingInv, ReserveIsOwed
  <2> QED
    BY <1>1, <2>2, <2>3
<1>5. SpentOnlyOnTheWinner' /\ ReserveFits' /\ OtherMail
  BY <1>1 DEF FundingInv, SpentOnlyOnTheWinner, ReserveFits, OtherMail
<1> QED
  BY <1>1, <1>2, <1>3, <1>4, <1>5, FinanceKeeps DEF FundingInv, Shapes

\* Contributions that are settled or refunded, all that are paid at once.
Closed(c) ==
  /\ c \in [Payers -> Contribution]
  /\ \A p \in Payers : \/ c[p] = contributions[p]
                       \/ contributions[p] \in {"paid", "settled"} /\ c[p] \in {"settled", "refunded"}

LEMMA ClosedKeeps ==
  ASSUME FundingInv, UNCHANGED <<source, joins, commands, paying>>, OtherMail,
         Closed(contributions'), IsRow(funding'),
         funding.status # "none",
         funding'.status \in {"collecting", "settling", "settled", "cancelled"},
         ReserveFits', ReserveIsOwed', SpentOnlyOnTheWinner'
  PROVE  FundingInv'
<1>1. \A p \in paying : p \in Payers /\ contributions[p] = "pending"
  BY DEF FundingInv, Shapes, PaymentsFit
<1> QED
  BY <1>1, FinanceKeeps DEF Closed, FundingInv, Shapes

LEMMA SettledIsClosed ==
  ASSUME FundingInv
  PROVE  /\ Closed(Settled) /\ Closed(AllRefunded) /\ Closed(contributions)
         /\ PaidReserve(Settled) = 0 /\ PaidReserve(AllRefunded) = 0
<1>1. contributions \in [Payers -> Contribution]
  BY DEF FundingInv, Shapes
<1>2. Closed(Settled) /\ Closed(AllRefunded) /\ Closed(contributions)
  BY <1>1 DEF Closed, Settled, AllRefunded, Refunded, Contribution
<1>3. /\ \A p \in Payers : Cash(p) => Settled[p] # "paid"
      /\ \A p \in Payers : Cash(p) => AllRefunded[p] # "paid"
  BY <1>1 DEF Settled, AllRefunded, Refunded
<1> QED
  BY <1>2, <1>3, PaidReserveIsZero

\* A funding that is settled spends the price and locks what is left.
LEMMA SettleKeeps ==
  ASSUME FundingInv, UNCHANGED <<source, joins, commands, paying>>, OtherMail,
         FullyReserved, funding.status \in {"collecting", "settling"},
         contributions' = Settled, IsRow(funding'),
         funding'.status = "settled",
         funding'.reserve = IF ResultReserve > 0 THEN "locked" ELSE "none",
         poolReserved' = poolReserved - (BookingPrice - (IF source = "hold" THEN 0 ELSE OrganizerShare)),
         SpentOnlyOnTheWinner'
  PROVE  FundingInv'
<1>1. funding.reserve = "none"
  BY DEF FundingInv, ReserveFits
<1>2. poolReserved = PaidReserve(contributions)
  <2>1. poolReserved = PaidReserve(contributions) + 0
    BY <1>1 DEF FundingInv, ReserveIsOwed
  <2> QED
    BY <2>1, PaidReserveIsNat
<1>3. poolReserved' = ResultReserve
  BY <1>2, FullReserve, FundingAssumption
<1>4. PaidReserve(contributions)' = 0
  <2>1. PaidReserve(contributions)' = PaidReserve(Settled)
    BY DEF PaidReserve
  <2> QED
    BY <2>1, SettledIsClosed
<1>5. ReserveIsOwed'
  BY <1>3, <1>4, FundingAssumption DEF ReserveIsOwed
<1>6. ReserveFits' /\ Closed(contributions')
  BY SettledIsClosed DEF ReserveFits
<1> QED
  BY <1>5, <1>6, ClosedKeeps

\* A funding that is refunded gives everything back.
LEMMA RefundKeeps ==
  ASSUME FundingInv, UNCHANGED <<source, joins, commands, paying>>, OtherMail,
         FundingRefunded, funding.status \in {"collecting", "settling"}
  PROVE  FundingInv'
<1>1. /\ contributions' = AllRefunded
      /\ poolReserved' = poolReserved - PaidReserve(contributions)
      /\ funding' = [funding EXCEPT !.status = "cancelled"]
      /\ IsRow(funding) /\ funding.reserve = "none"
  BY DEF FundingRefunded, FundingInv, Shapes, ReserveFits
<1>2. IsRow(funding') /\ funding'.status = "cancelled" /\ funding'.reserve = "none"
  BY <1>1, StatusUpdate
<1>3. PaidReserve(contributions)' = 0
  <2>1. PaidReserve(contributions)' = PaidReserve(AllRefunded)
    BY <1>1 DEF PaidReserve
  <2> QED
    BY <2>1, SettledIsClosed
<1>4. poolReserved' = 0
  BY <1>1, PaidReserveIsNat DEF FundingInv, ReserveIsOwed
<1>5. ReserveIsOwed' /\ ReserveFits' /\ SpentOnlyOnTheWinner'
  BY <1>2, <1>3, <1>4 DEF ReserveIsOwed, ReserveFits, SpentOnlyOnTheWinner
<1>6. Closed(contributions')
  BY <1>1, SettledIsClosed
<1> QED
  BY <1>2, <1>5, <1>6, ClosedKeeps

LEMMA SettledRow ==
  ASSUME NEW f, IsRow(f)
  PROVE  /\ IsRow(FundingSettled(f)) /\ FundingSettled(f).status = "settled"
         /\ FundingSettled(f).attempt = f.attempt
         /\ FundingSettled(f).reserve = IF ResultReserve > 0 THEN "locked" ELSE "none"
<1> DEFINE g == [f EXCEPT !.status = "settled"]
           r == IF ResultReserve > 0 THEN "locked" ELSE "none"
<1>1. FundingSettled(f) = [g EXCEPT !.reserve = r]
  BY DEF FundingSettled
<1>2. IsRow(g) /\ g.status = "settled" /\ g.attempt = f.attempt
  BY StatusUpdate
<1> HIDE DEF g, r
<1>3. /\ IsRow([g EXCEPT !.reserve = r]) /\ [g EXCEPT !.reserve = r].status = "settled"
      /\ [g EXCEPT !.reserve = r].attempt = f.attempt /\ [g EXCEPT !.reserve = r].reserve = r
  BY <1>2, ReserveUpdate
<1> QED
  BY <1>1, <1>3 DEF r

\* A row that moves on without touching the reserve or the contributions.
LEMMA RowKeeps ==
  ASSUME FundingInv, UNCHANGED <<source, joins, commands, paying, contributions, poolReserved>>,
         OtherMail, IsRow(funding'), funding.status # "none",
         funding'.status \in {"collecting", "settling"}, funding'.reserve = "none",
         funding.reserve = "none",
         source = "paid_booking" => funding'.status # "settling"
  PROVE  FundingInv'
<1>1. PaidReserve(contributions)' = PaidReserve(contributions)
  BY DEF PaidReserve
<1>2. ReserveIsOwed' /\ ReserveFits' /\ SpentOnlyOnTheWinner'
  BY <1>1 DEF FundingInv, ReserveIsOwed, ReserveFits, SpentOnlyOnTheWinner
<1>3. Closed(contributions')
  BY SettledIsClosed
<1> QED
  BY <1>2, <1>3, ClosedKeeps

\* Nothing of finance changes but the mail.
LEMMA MailKeeps ==
  ASSUME FundingInv, OtherMail,
         UNCHANGED <<source, joins, commands, funding, contributions, poolReserved, paying>>
  PROVE  FundingInv'
BY JoinsUntouched, SameAnswers, OutsideKeeps

LEMMA ConfirmedKeeps ==
  ASSUME FundingInv, NEW k \in Commands, HandleMatchConfirmed(k)
  PROVE  FundingInv'
<1>1. funding.status # "none" /\ UNCHANGED <<source, joins, commands, paying>>
  BY DEF HandleMatchConfirmed, matchVars, venueVars
<1>2. IsRow(funding)
  BY DEF FundingInv, Shapes
<1>3. CASE mail' \subseteq mail /\ UNCHANGED <<funding, contributions, poolReserved>>
  BY <1>1, <1>3, MailKeeps DEF OtherMail
<1>4. CASE /\ FullyReserved /\ source = "paid_booking"
           /\ funding.status \in {"collecting", "settling"}
           /\ poolReserved' = poolReserved - (BookingPrice - OrganizerShare)
           /\ contributions' = Settled /\ funding' = FundingSettled(funding)
           /\ mail' \subseteq mail \cup {Event("matchmaking", "MatchFundingCompleted", None)}
  <2>1. OtherMail
    BY <1>4, OneMail
  <2>2. /\ IsRow(funding') /\ funding'.status = "settled"
        /\ funding'.reserve = IF ResultReserve > 0 THEN "locked" ELSE "none"
    BY <1>2, <1>4, SettledRow
  <2>3. SpentOnlyOnTheWinner'
    BY <1>1, <1>4 DEF SpentOnlyOnTheWinner
  <2>4. poolReserved' = poolReserved - (BookingPrice - (IF source = "hold" THEN 0 ELSE OrganizerShare))
    BY <1>4
  <2> QED
    BY <1>1, <1>4, <2>1, <2>2, <2>3, <2>4, SettleKeeps
<1>5. CASE /\ source # "paid_booking" /\ funding.status \in {"collecting", "settling"}
           /\ funding' = [funding EXCEPT !.status = "settling", !.attempt = k,
                                        !.revision = issued[k].revision]
           /\ mail' \subseteq mail \cup {Event("finance", "MatchSettlementRequested", k)}
           /\ UNCHANGED <<contributions, poolReserved>>
  <2>1. OtherMail
    BY <1>5, OneMail
  <2>2. funding.reserve = "none"
    BY <1>5 DEF FundingInv, ReserveFits
  <2> DEFINE f1 == [funding EXCEPT !.status = "settling"]
             f2 == [f1 EXCEPT !.attempt = k]
  <2>3. IsRow(f1) /\ f1.status = "settling" /\ f1.reserve = "none"
    BY <1>2, <2>2, StatusUpdate
  <2>4. funding' = [f2 EXCEPT !.revision = issued[k].revision]
    BY <1>5
  <2> HIDE DEF f1
  <2>5. IsRow(f2) /\ f2.status = "settling" /\ f2.reserve = "none"
    BY <2>3, AttemptUpdate
  <2> HIDE DEF f2
  <2>6. IsRow(funding') /\ funding'.status = "settling" /\ funding'.reserve = "none"
    BY <2>4, <2>5, RevisionUpdate
  <2> QED
    BY <1>1, <1>5, <2>1, <2>2, <2>6, RowKeeps
<1> QED
  BY <1>1, <1>3, <1>4, <1>5 DEF HandleMatchConfirmed, MatchConfirmedAccepted, Handled, HandledAndPost

\* The answer of venue: the only step that spends the reserve of a held court.
LEMMA ResolvedKeeps ==
  ASSUME FundingInv, NEW k \in Commands, HandleMatchBookingResolved(k)
  PROVE  FundingInv'
<1> DEFINE v == Later(funding.revision, commands[k].revision)
           w == Later(FundingSettled(funding).revision, commands[k].revision)
<1>1. /\ Resolved(k) \in mail
      /\ UNCHANGED <<source, joins, commands, paying>>
  BY DEF HandleMatchBookingResolved, Resolved, matchVars, venueVars
<1>2. IsRow(funding) /\ k \in DOMAIN commands
  BY <1>1 DEF FundingInv, Shapes, MailFits
<1>3. CASE mail' \subseteq mail /\ UNCHANGED <<funding, contributions, poolReserved>>
  BY <1>1, <1>3, MailKeeps DEF OtherMail
<1>4. CASE /\ VenueConfirmed(k) /\ FullyReserved
           /\ poolReserved' = poolReserved - BookingPrice
           /\ contributions' = Settled
           /\ funding' = [FundingSettled(funding) EXCEPT !.revision = w]
           /\ mail' \subseteq mail \cup {Event("matchmaking", "MatchFundingCompleted", None)}
  <2>1. OtherMail
    BY <1>4, OneMail
  <2>2. /\ funding.status = "settling" /\ funding.attempt = k
        /\ commands[k].decision = "confirmed" /\ commands[k].winner = k
    BY <1>4 DEF VenueConfirmed, CurrentAttempt
  <2>3. source = "hold"
    BY <2>2 DEF FundingInv, ReserveFits, Shapes
  <2> DEFINE f == FundingSettled(funding)
  <2>4. /\ IsRow(f) /\ f.status = "settled" /\ f.attempt = k
        /\ f.reserve = IF ResultReserve > 0 THEN "locked" ELSE "none"
    BY <1>2, <2>2, SettledRow
  <2>5. funding' = [f EXCEPT !.revision = w]
    BY <1>4
  <2> HIDE DEF f, w
  <2>6. /\ IsRow(funding') /\ funding'.status = "settled" /\ funding'.attempt = k
        /\ funding'.reserve = IF ResultReserve > 0 THEN "locked" ELSE "none"
    BY <2>4, <2>5, RevisionUpdate
  <2>7. SpentOnlyOnTheWinner'
    BY <1>1, <1>2, <2>2, <2>6 DEF SpentOnlyOnTheWinner
  <2>8. poolReserved' = poolReserved - (BookingPrice - (IF source = "hold" THEN 0 ELSE OrganizerShare))
    BY <1>4, <2>3, FundingAssumption
  <2> QED
    BY <1>1, <1>4, <2>1, <2>2, <2>6, <2>7, <2>8, SettleKeeps
<1>5. CASE /\ funding.status = "settling" /\ mail' \subseteq mail
           /\ funding' = [funding EXCEPT !.status = "collecting", !.attempt = None,
                                        !.revision = v]
           /\ UNCHANGED <<contributions, poolReserved>>
  <2>1. OtherMail
    BY <1>5 DEF OtherMail
  <2>2. funding.reserve = "none"
    BY <1>5 DEF FundingInv, ReserveFits
  <2> DEFINE f1 == [funding EXCEPT !.status = "collecting"]
             f2 == [f1 EXCEPT !.attempt = None]
  <2>3. IsRow(f1) /\ f1.status = "collecting" /\ f1.reserve = "none"
    BY <1>2, <2>2, StatusUpdate
  <2>4. funding' = [f2 EXCEPT !.revision = v]
    BY <1>5
  <2> HIDE DEF f1, v
  <2>5. IsRow(f2) /\ f2.status = "collecting" /\ f2.reserve = "none"
    BY <2>3, AttemptUpdate
  <2> HIDE DEF f2
  <2>6. IsRow(funding') /\ funding'.status = "collecting" /\ funding'.reserve = "none"
    BY <2>4, <2>5, RevisionUpdate
  <2> QED
    BY <1>1, <1>5, <2>1, <2>2, <2>6, RowKeeps
<1>6. CASE FundingRefunded /\ funding.status \in {"collecting", "settling"} /\ mail' \subseteq mail
  BY <1>1, <1>6, RefundKeeps DEF OtherMail
<1>7. \/ mail' \subseteq mail /\ UNCHANGED <<funding, contributions, poolReserved>>
      \/ /\ VenueConfirmed(k) /\ FullyReserved
         /\ poolReserved' = poolReserved - BookingPrice
         /\ contributions' = Settled
         /\ funding' = [FundingSettled(funding) EXCEPT !.revision = w]
         /\ mail' \subseteq mail \cup {Event("matchmaking", "MatchFundingCompleted", None)}
      \/ /\ funding.status = "settling" /\ mail' \subseteq mail
         /\ funding' = [funding EXCEPT !.status = "collecting", !.attempt = None,
                                      !.revision = v]
         /\ UNCHANGED <<contributions, poolReserved>>
      \/ FundingRefunded /\ funding.status \in {"collecting", "settling"} /\ mail' \subseteq mail
  BY DEF HandleMatchBookingResolved, Handled, HandledAndPost
<1> QED
  BY <1>3, <1>4, <1>5, <1>6, <1>7

LEMMA CancelledKeeps ==
  ASSUME FundingInv, NEW r, HandleMatchCancelled(r)
  PROVE  FundingInv'
<1>1. /\ mail' \subseteq mail /\ UNCHANGED <<source, joins, commands, paying>>
      /\ \/ FundingRefunded /\ funding.status \in {"collecting", "settling"}
         \/ UNCHANGED <<funding, contributions, poolReserved>>
  BY DEF HandleMatchCancelled, Handled, matchVars, venueVars
<1>2. OtherMail
  BY <1>1 DEF OtherMail
<1> QED
  BY <1>1, <1>2, RefundKeeps, MailKeeps

\* What a cancelled booking or a final result makes of the result reserve.
LEMMA ReserveEndKeeps ==
  ASSUME FundingInv, HandleMatchBookingCancelled \/ HandleMatchResultFinalized
  PROVE  FundingInv'
<1>1. mail' \subseteq mail /\ UNCHANGED <<source, joins, commands, paying>>
  BY DEF HandleMatchBookingCancelled, HandleMatchResultFinalized, Handled, matchVars, venueVars
<1>2. OtherMail /\ IsRow(funding) /\ contributions \in [Payers -> Contribution]
  BY <1>1 DEF OtherMail, FundingInv, Shapes
<1>3. CASE UNCHANGED <<funding, contributions, poolReserved>>
  BY <1>1, <1>2, <1>3, MailKeeps
<1> DEFINE spent == IF funding.reserve = "locked" THEN poolReserved - ResultReserve ELSE poolReserved
<1>4. spent = PaidReserve(contributions)
  BY PaidReserveIsNat, FundingAssumption DEF FundingInv, ReserveIsOwed
<1> HIDE DEF spent
<1>5. CASE /\ funding.status = "settled" /\ poolReserved' = spent
           /\ contributions' = [p \in Payers |-> IF contributions[p] = "settled" THEN "refunded"
                                                ELSE contributions[p]]
           /\ funding' = [funding EXCEPT !.status = "cancelled",
                            !.reserve = IF @ = "locked" THEN "refunded" ELSE @]
  <2> DEFINE f == [funding EXCEPT !.status = "cancelled"]
             r == IF funding.reserve = "locked" THEN "refunded" ELSE funding.reserve
  <2>1. IsRow(f) /\ f.status = "cancelled" /\ f.reserve = funding.reserve
    BY <1>2, StatusUpdate
  <2>2. funding' = [f EXCEPT !.reserve = r]
    BY <1>5, <2>1
  <2>3. r # "locked"
    OBVIOUS
  <2> HIDE DEF f, r
  <2>4. IsRow(funding') /\ funding'.status = "cancelled" /\ funding'.reserve # "locked"
    BY <2>1, <2>2, <2>3, ReserveUpdate
  <2>5. Closed(contributions')
    BY <1>2, <1>5 DEF Closed, Contribution
  <2>6. PaidReserve(contributions)' = PaidReserve(contributions)
    <3>1. PaidReserve(contributions)' = PaidReserve(contributions')
      BY <1>1 DEF PaidReserve
    <3>2. \A p \in Payers : contributions[p] = "paid" <=> contributions'[p] = "paid"
      BY <1>5
    <3> QED
      BY <3>1, <3>2, PaidReserveStays
  <2>7. ReserveIsOwed'
    BY <1>4, <1>5, <2>4, <2>6, PaidReserveIsNat DEF ReserveIsOwed
  <2>8. ReserveFits' /\ SpentOnlyOnTheWinner'
    BY <2>4 DEF ReserveFits, SpentOnlyOnTheWinner
  <2>9. funding.status # "none"
    BY <1>5
  <2> QED
    BY <1>1, <1>2, <2>4, <2>5, <2>7, <2>8, <2>9, ClosedKeeps
<1>6. CASE /\ funding.status = "settled" /\ poolReserved' = spent
           /\ funding' = [funding EXCEPT !.reserve = IF @ = "locked" THEN "released" ELSE @]
           /\ UNCHANGED contributions
  <2> DEFINE r == IF funding.reserve = "locked" THEN "released" ELSE funding.reserve
  <2>1. r # "locked" /\ funding' = [funding EXCEPT !.reserve = r]
    BY <1>6
  <2> HIDE DEF r
  <2>2. /\ IsRow(funding') /\ funding'.status = "settled" /\ funding'.reserve # "locked"
        /\ funding'.attempt = funding.attempt
    BY <1>2, <1>6, <2>1, ReserveUpdate
  <2>3. PaidReserve(contributions)' = PaidReserve(contributions)
    BY <1>1, <1>6 DEF PaidReserve
  <2>4. ReserveIsOwed'
    BY <1>4, <1>6, <2>2, <2>3, PaidReserveIsNat DEF ReserveIsOwed
  <2>5. ReserveFits' /\ SpentOnlyOnTheWinner'
    BY <1>1, <1>6, <2>2 DEF FundingInv, ReserveFits, SpentOnlyOnTheWinner
  <2>6. Closed(contributions') /\ funding.status # "none"
    BY <1>6, SettledIsClosed
  <2> QED
    BY <1>1, <1>2, <2>2, <2>4, <2>5, <2>6, ClosedKeeps
<1> QED
  BY <1>3, <1>5, <1>6 DEF HandleMatchBookingCancelled, HandleMatchResultFinalized, spent

-----------------------------------------------------------------------------
(* The theorems.                                                           *)

LEMMA FundingInitially == MatchInit => FundingInv
<1> SUFFICES ASSUME MatchInit PROVE FundingInv
  OBVIOUS
<1>1. /\ source \in {"hold", "paid_booking"}
      /\ joins = [j \in Joins |-> "none"] /\ contributions = [p \in Payers |-> "none"]
      /\ funding = [status |-> "none", attempt |-> None, revision |-> 0, reserve |-> "none"]
      /\ poolReserved = 0 /\ paying = {}
      /\ mail = {Created}
  BY FundingAssumption DEF MatchInit, Created
<1>2. Joins \subseteq Payers /\ Organizer \in Payers
  BY DEF Payers
<1>3. Shapes /\ PaymentsFit /\ ReserveFits
  BY <1>1, <1>2 DEF Shapes, PaymentsFit, ReserveFits, JoinStatus, Contribution, IsRow, Columns
<1>4. MailFits
  BY <1>1 DEF MailFits, Created, Approved, Resolved, Event
<1>5. PaidReserve(contributions) = 0
  BY <1>1, PaidReserveIsZero
<1>6. ReserveIsOwed /\ SpentOnlyOnTheWinner
  BY <1>1, <1>5 DEF ReserveIsOwed, SpentOnlyOnTheWinner
<1> QED
  BY <1>3, <1>4, <1>6 DEF FundingInv

LEMMA FundingStep == FundingInv /\ [MatchNext]_fundingVars => FundingInv'
<1> SUFFICES ASSUME FundingInv, [MatchNext]_fundingVars PROVE FundingInv'
  OBVIOUS
<1>1. CASE UNCHANGED fundingVars
  <2>1. /\ UNCHANGED <<source, joins, commands, funding, contributions, poolReserved, paying>>
        /\ UNCHANGED mail
    BY <1>1 DEF fundingVars, matchVars, venueVars, financeVars
  <2> QED
    BY <2>1, MailKeeps DEF OtherMail
<1>2. CASE MatchmakingNext
  <2>1. ASSUME NEW j \in Joins, RequestJoin(j) PROVE FundingInv'
    BY <2>1, RequestJoinKeeps
  <2>2. ASSUME NEW j \in Joins,
               JoinWindowEnds(j) \/ WithdrawFromPaidBookingMatch(j) \/ HandleJoinPaid(j)
        PROVE  FundingInv'
    BY <2>2, JoinStep
  <2>3. ASSUME NEW j \in Joins, NEW k \in Commands, WithdrawJoin(j, k) PROVE FundingInv'
    BY <2>3, BeginKeeps DEF WithdrawJoin
  <2> QED
    BY <1>2, <2>1, <2>2, <2>3, CommandStep, MatchStep DEF MatchmakingNext
<1>3. CASE VenueNext
  BY <1>3, ResolveKeeps, VenueStep DEF VenueNext
<1>4. CASE FinanceNext
  <2>1. ASSUME NEW k \in Commands, HandleMatchSettlementRequested(k) PROVE FundingInv'
    <3>1. UNCHANGED <<source, joins, commands, funding, contributions, poolReserved, paying>>
      BY <2>1 DEF HandleMatchSettlementRequested, matchVars, venueVars, financeVars
    <3>2. mail' \subseteq mail \cup {Event("venue", "Settle", k)}
      BY <2>1 DEF HandleMatchSettlementRequested, HandledAndPost
    <3>3. OtherMail
      BY <3>2, OneMail
    <3> QED
      BY <3>1, <3>3, MailKeeps
  <2> QED
    BY <1>4, <2>1, CreatedKeeps, ApprovedKeeps, FeeRefundKeeps, PayKeeps, ConfirmedKeeps,
       ResolvedKeeps, CancelledKeeps, ReserveEndKeeps DEF FinanceNext
<1>5. CASE (\E e \in mail : GiveUp(e)) \/ MatchPhaseEnds
  BY <1>5, VenueStep
<1> QED
  BY <1>1, <1>2, <1>3, <1>4, <1>5 DEF MatchNext

\* The invariant of the funding, for any joins, commands, places and prices.
THEOREM FundingCorrect == MatchSpec => []FundingInv
<1>1. MatchInit => FundingInv
  BY FundingInitially
<1>2. FundingInv /\ [MatchNext]_fundingVars => FundingInv'
  BY FundingStep
<1> QED
  BY <1>1, <1>2, PTL DEF MatchSpec

\* The reserve of the platform is what the contributions account for, in any
\* order of payments, cancellations, settlements and lost events.
THEOREM ReserveIsAccounted == MatchSpec => []ReserveIsOwed
<1>1. FundingInv => ReserveIsOwed
  BY DEF FundingInv
<1> QED
  BY <1>1, FundingCorrect, PTL


-----------------------------------------------------------------------------
(* The whole transition relation: what each service's tables hold, which     *)
(* events a step posts and takes, and what follows for the places of a match *)
(* and for the money of a match that is cancelled                            *)

\* The settlements that matchmaking has drawn.
Settles == {k \in DOMAIN issued : issued[k].action = "settle"}

\* What matchmaking keeps of the match, of its commands and of its deposit.
DeskTyped ==
  /\ match \in MatchRow
  /\ lateJoins \subseteq Joins
  /\ DOMAIN issued \subseteq Commands /\ \A k \in DOMAIN issued : issued[k] \in Command
  /\ \A k \in DOMAIN issued : issued[k].action = "withdraw" => issued[k].about \in Joins
  /\ decided \in [Commands -> Decisions \cup {"pending"}]
  /\ deposit \in {"none", "activated", "too_late"}

\* What venue keeps of the booking and of the commands it has answered.
CourtTyped ==
  /\ booking \in [status : {"held", "confirmed", "completed", "cancelled", "deleted"},
                  revision : Nat, winner : Commands \cup {None},
                  active : BOOLEAN, by : {None, "self", "provider_fault"}]
  /\ DOMAIN commands \subseteq DOMAIN issued /\ \A k \in DOMAIN commands : commands[k] \in Answer
  /\ phase \in 0..3

\* A command that an event names has been issued, or answered.
LettersFit ==
  /\ \A k : Event("matchmaking", "MatchBookingResolved", k) \in mail => k \in DOMAIN commands
  /\ \A k : Event("finance", "MatchBookingResolved", k) \in mail => k \in DOMAIN commands
  /\ \A k : Event("finance", "MatchConfirmed", k) \in mail => k \in Settles
  /\ \A k : Event("finance", "MatchSettlementRequested", k) \in mail => k \in Settles
  /\ \A k : Event("venue", "Settle", k) \in mail => k \in Settles

\* The command that is drawn keeps the others as they are.
CommandsStay ==
  /\ DOMAIN issued \subseteq DOMAIN issued'
  /\ \A k \in DOMAIN issued : issued'[k] = issued[k]

\* A command that is drawn now names the attempt and the revision of the match.
NewCommand(k, action, about) ==
  /\ k \in Commands \ DOMAIN issued /\ DOMAIN issued' = DOMAIN issued \cup {k}
  /\ issued'[k] = [action |-> action, about |-> about,
                   attempt |-> IF action = "settle" THEN k ELSE match.attempt,
                   revision |-> match.revision]
  /\ \A c \in DOMAIN issued : issued'[c] = issued[c]

\* issueCommand draws one command and leaves the others as they are.
LEMMA IssueIsNew ==
  ASSUME NEW k, NEW action, NEW about, Fresh(k), Issue(k, action, about)
  PROVE  NewCommand(k, action, about)
BY DEF Fresh, Issue, NewCommand

\* The tables hold the command that is drawn.
LEMMA NewCommandIsTyped ==
  ASSUME DeskTyped, NEW k, NEW action \in {"settle", "withdraw", "cancel"},
         NEW about \in Joins \cup {None, "organizer", "cutoff"},
         action = "withdraw" => about \in Joins,
         NewCommand(k, action, about)
  PROVE  /\ DOMAIN issued' \subseteq Commands /\ \A c \in DOMAIN issued' : issued'[c] \in Command
         /\ \A c \in DOMAIN issued' : issued'[c].action = "withdraw" => issued'[c].about \in Joins
<1>1. match.attempt \in Commands \cup {None} /\ match.revision \in Nat
  BY DEF DeskTyped, MatchRow
<1>2. k \in Commands /\ issued'[k] \in Command
  BY <1>1 DEF NewCommand, Command
<1>3. issued'[k].action = "withdraw" => issued'[k].about \in Joins
  BY DEF NewCommand
<1>4. \A c \in DOMAIN issued' : c = k \/ (c \in DOMAIN issued /\ issued'[c] = issued[c])
  BY DEF NewCommand
<1> QED
  BY <1>2, <1>3, <1>4 DEF DeskTyped, NewCommand

\* The forms that an update of the match row takes.
LEMMA MatchRowUpdates ==
  ASSUME NEW m \in MatchRow
  PROVE  /\ \A s \in {"awaiting_deposit", "open", "filled", "confirmed", "completed", "cancelled"} :
              [m EXCEPT !.status = s] \in MatchRow
         /\ \A r \in Nat : AtRevision(m, r) \in MatchRow
         /\ \A b \in BOOLEAN : [m EXCEPT !.requested = b] \in MatchRow
         /\ \A b \in BOOLEAN : [m EXCEPT !.organizerPaid = b] \in MatchRow
         /\ \A b \in BOOLEAN : [m EXCEPT !.ended = b] \in MatchRow
         /\ \A k \in Commands \cup {None} : [m EXCEPT !.attempt = k] \in MatchRow
<1>1. \A r \in Nat : AtRevision(m, r) \in MatchRow
  BY DEF MatchRow, AtRevision, Later
<1> QED
  BY <1>1 DEF MatchRow

\* beginMatchResolution keeps the shape of the tables, whatever it ends up doing.
LEMMA ResolutionIsTyped ==
  ASSUME DeskTyped, NEW k \in Commands, NEW answer \in Answer, ResolutionApplied(k, answer),
         UNCHANGED <<lateJoins, issued, deposit>>
  PROVE  DeskTyped'
<1> DEFINE m == AtRevision(match, answer.revision)
<1>1. answer.revision \in Nat /\ answer.decision \in Decisions
  BY DEF Answer
<1>2. m \in MatchRow
  BY <1>1, MatchRowUpdates DEF DeskTyped
<1> HIDE DEF m
<1>3. match' \in MatchRow
  <2>1. CASE match' = m \/ match' = match \/ match' = [m EXCEPT !.status = "confirmed"]
    BY <1>2, <2>1, MatchRowUpdates DEF DeskTyped
  <2>2. CASE match' = [m EXCEPT !.status = "cancelled", !.requested = FALSE, !.attempt = None]
    BY <1>2, <2>2 DEF MatchRow
  <2>3. CASE \E same \in BOOLEAN :
               match' = [m EXCEPT !.status = IF @ = "filled" THEN "open" ELSE @,
                              !.requested = @ /\ ~same,
                              !.attempt = IF same THEN None ELSE @]
    BY <1>2, <2>3 DEF MatchRow
  <2> QED
    BY <2>1, <2>2, <2>3 DEF ResolutionApplied, m
<1>4. decided' \in [Commands -> Decisions \cup {"pending"}]
  BY <1>1 DEF ResolutionApplied, DeskTyped
<1> QED
  BY <1>3, <1>4 DEF DeskTyped


\* Steps that leave the rows of matchmaking alone.
LEMMA OutsideDesk ==
  ASSUME \/ FinanceNext \/ VenueNext \/ (\E e \in mail : GiveUp(e)) \/ MatchPhaseEnds
         \/ FinalizeResult \/ (\E k \in Commands : HandleCommandResolved(k))
         \/ UNCHANGED fundingVars
  PROVE  UNCHANGED matchVars
<1>1. CASE FinanceNext
  BY <1>1
  DEF FinanceNext, HandleMatchCreated, HandleJoinApproved, HandleMatchFeeRefundRequested,
      StartPayment, CommitPayment, HandleMatchConfirmed, HandleMatchSettlementRequested,
      HandleMatchBookingResolved, HandleMatchCancelled, HandleMatchBookingCancelled,
      HandleMatchResultFinalized
<1>2. CASE VenueNext
  BY <1>2
  DEF VenueNext, ResolveMatchBooking, ReleaseHeldMatchBooking, ReapExpiredMatchBooking,
      LeaveMatchCheckout, CancelBookingByOwner, ShutdownCancelsBooking, CompleteMatchBooking
<1>3. CASE \/ \E e \in mail : GiveUp(e)
           \/ MatchPhaseEnds \/ FinalizeResult
           \/ \E k \in Commands : HandleCommandResolved(k)
           \/ UNCHANGED fundingVars
  BY <1>3 DEF GiveUp, MatchPhaseEnds, FinalizeResult, HandleCommandResolved, fundingVars
<1> QED
  BY <1>1, <1>2, <1>3

\* A command is drawn, and nothing else is written at matchmaking.
LEMMA BeginIsTyped ==
  ASSUME DeskTyped, NEW k \in Commands, NEW action \in {"withdraw", "cancel"},
         NEW about \in Joins \cup {None, "organizer", "cutoff"},
         action = "withdraw" => about \in Joins,
         BeginResolution(k, action, about)
  PROVE  DeskTyped'
<1>1. NewCommand(k, action, about) /\ UNCHANGED <<match, lateJoins, decided, deposit>>
  BY IssueIsNew DEF BeginResolution
<1>2. action \in {"settle", "withdraw", "cancel"}
  OBVIOUS
<1>3. /\ DOMAIN issued' \subseteq Commands /\ \A c \in DOMAIN issued' : issued'[c] \in Command
      /\ \A c \in DOMAIN issued' : issued'[c].action = "withdraw" => issued'[c].about \in Joins
  BY <1>1, <1>2, NewCommandIsTyped
<1> QED
  BY <1>1, <1>3 DEF DeskTyped

\* Steps that only write the match row, by one of its updates.
LEMMA RowIsTyped ==
  ASSUME DeskTyped, UNCHANGED <<lateJoins, issued, decided, deposit>>, match' \in MatchRow
  PROVE  DeskTyped'
BY DEF DeskTyped

\* The row of a match that has just been filled is a row.
LEMMA FilledRow ==
  ASSUME NEW m \in MatchRow, NEW last \in BOOLEAN
  PROVE  [m EXCEPT !.status = IF last THEN "filled" ELSE @] \in MatchRow
BY DEF MatchRow

\* The settlement is drawn and written to the match row.
LEMMA SettleIsTyped ==
  ASSUME DeskTyped, NEW k \in Commands, NEW m \in MatchRow, Fresh(k), Issue(k, "settle", None),
         match' = [m EXCEPT !.requested = TRUE, !.attempt = k],
         UNCHANGED <<lateJoins, decided, deposit>>
  PROVE  DeskTyped'
<1>1. NewCommand(k, "settle", None)
  BY IssueIsNew
<1>2. /\ DOMAIN issued' \subseteq Commands /\ \A c \in DOMAIN issued' : issued'[c] \in Command
      /\ \A c \in DOMAIN issued' : issued'[c].action = "withdraw" => issued'[c].about \in Joins
  <2>1. "settle" \in {"settle", "withdraw", "cancel"} /\ None \in Joins \cup {None, "organizer", "cutoff"}
    OBVIOUS
  <2> QED
    BY <1>1, <2>1, NewCommandIsTyped
<1>3. match' \in MatchRow
  BY DEF MatchRow
<1> QED
  BY <1>2, <1>3 DEF DeskTyped

\* The payment of a join keeps the shape of the tables, also when it fills the match.
LEMMA JoinPaidIsTyped ==
  ASSUME DeskTyped, NEW j \in Joins, HandleJoinPaid(j)
  PROVE  DeskTyped'
<1> DEFINE last == Cardinality(Confirmed) + 1 = Slots
           m == [match EXCEPT !.status = IF last THEN "filled" ELSE @]
<1>1. m \in MatchRow
  BY FilledRow DEF DeskTyped
<1>2. UNCHANGED <<lateJoins, decided, deposit>>
  BY DEF HandleJoinPaid
<1>3. \/ UNCHANGED <<match, issued>>
      \/ \E k \in Commands : /\ Fresh(k) /\ Issue(k, "settle", None)
                             /\ match' = [m EXCEPT !.requested = TRUE, !.attempt = k]
      \/ match' = m /\ UNCHANGED issued
  BY DEF HandleJoinPaid
<1> HIDE DEF m
<1> QED
  BY <1>1, <1>2, <1>3, SettleIsTyped, RowIsTyped DEF DeskTyped

\* Every step keeps the shape of what matchmaking knows.
LEMMA DeskIsTyped ==
  ASSUME DeskTyped, CourtTyped, LettersFit, [MatchNext]_fundingVars
  PROVE  DeskTyped'
<1>1. CASE UNCHANGED matchVars
  BY <1>1 DEF matchVars, DeskTyped
<1>2. ASSUME NEW j \in Joins, RequestJoin(j) \/ JoinWindowEnds(j) PROVE DeskTyped'
  BY <1>2 DEF RequestJoin, JoinWindowEnds, DeskTyped
<1>3. ASSUME NEW j \in Joins, WithdrawFromPaidBookingMatch(j) PROVE DeskTyped'
  <2>1. match' \in MatchRow
    BY <1>3 DEF WithdrawFromPaidBookingMatch, DeskTyped, MatchRow
  <2> QED
    BY <1>3, <2>1, RowIsTyped DEF WithdrawFromPaidBookingMatch
<1>4. ASSUME NEW j \in Joins, NEW k \in Commands, WithdrawJoin(j, k) PROVE DeskTyped'
  BY <1>4, BeginIsTyped DEF WithdrawJoin
<1>5. ASSUME NEW k \in Commands, RequestMatchFundingAtCutoff(k) PROVE DeskTyped'
  BY <1>5, SettleIsTyped DEF RequestMatchFundingAtCutoff, DeskTyped
<1>6. ASSUME NEW k \in Commands, ApplyMatchBookingResolution(k) PROVE DeskTyped'
  BY <1>6, ResolutionIsTyped DEF ApplyMatchBookingResolution, CourtTyped
<1>7. ASSUME NEW k \in Commands, CancelWithoutBooking(k) PROVE DeskTyped'
  <2>1. [decision |-> "cancelled", winner |-> None, revision |-> issued[k].revision] \in Answer
    BY <1>7 DEF CancelWithoutBooking, DeskTyped, Command, Answer, Decisions
  <2> QED
    BY <1>7, <2>1, ResolutionIsTyped DEF CancelWithoutBooking
<1>8. ASSUME NEW k \in Commands, HandleSettleResolved(k) PROVE DeskTyped'
  <2> DEFINE m == AtRevision(match, commands[k].revision)
  <2>1. commands[k].revision \in Nat
    BY <1>8 DEF HandleSettleResolved, LettersFit, CourtTyped, Answer
  <2>2. m \in MatchRow
    BY <2>1, MatchRowUpdates DEF DeskTyped
  <2>3. \/ match' = [m EXCEPT !.status = "confirmed"]
        \/ match' = [m EXCEPT !.requested = FALSE, !.attempt = None,
                              !.status = IF @ = "filled" THEN "open" ELSE @]
        \/ match' = [match EXCEPT !.status = "cancelled"]
        \/ match' = match
    BY <1>8 DEF HandleSettleResolved
  <2> HIDE DEF m
  <2>4. match' \in MatchRow
    BY <2>2, <2>3 DEF MatchRow, DeskTyped
  <2> QED
    BY <1>8, <2>4, RowIsTyped DEF HandleSettleResolved
<1>9. CASE CancelMatchAtCutoff \/ CancelMatchByOrganizer
  <2>1. CASE ClosePaidBookingMatchLayer
    BY <2>1 DEF ClosePaidBookingMatchLayer, DeskTyped, MatchRow
  <2> QED
    BY <1>9, <2>1, BeginIsTyped DEF CancelMatchAtCutoff, CancelMatchByOrganizer
<1>10. CASE \/ ReleaseExpiredApprovedJoins \/ FinalizeConfirmedPolicyCancellation
            \/ CancelExpiredDepositMatch \/ ActivateMatchHold
  BY <1>10, MatchRowUpdates
  DEF ReleaseExpiredApprovedJoins, FinalizeConfirmedPolicyCancellation,
      CancelExpiredDepositMatch, ActivateMatchHold, DeskTyped
<1>11. CASE HandleDepositPaid \/ HandleBookingCompleted
  <2>1. match' \in MatchRow
    BY <1>11 DEF HandleDepositPaid, HandleBookingCompleted, DeskTyped, MatchRow
  <2> QED
    BY <1>11, <2>1, RowIsTyped DEF HandleDepositPaid, HandleBookingCompleted
<1>12. ASSUME NEW type, HandleFunded(type) PROVE DeskTyped'
  <2>1. match' \in MatchRow
    BY <1>12 DEF HandleFunded, DeskTyped, MatchRow
  <2> QED
    BY <1>12, <2>1, RowIsTyped DEF HandleFunded
<1>13. ASSUME NEW was, HandleShutdownBookingCancellation(was) PROVE DeskTyped'
  BY <1>13, MatchRowUpdates DEF HandleShutdownBookingCancellation, DeskTyped
<1> QED
  BY <1>1, <1>2, <1>3, <1>4, <1>5, <1>6, <1>7, <1>8, <1>9, <1>10, <1>11, <1>12, <1>13,
     JoinPaidIsTyped, OutsideDesk
  DEF MatchNext, MatchmakingNext

-----------------------------------------------------------------------------
(* Commands, answers and the events that carry them                        *)

\* Every event is one of its three fields.
LEMMA EventEq ==
  \A a, b, c, d, e, f : Event(a, b, c) = Event(d, e, f) <=> (a = d /\ b = e /\ c = f)
BY DEF Event

\* No step changes or removes a command that has been issued.
LEMMA CommandsOnlyGrow ==
  ASSUME [MatchNext]_fundingVars
  PROVE  /\ CommandsStay
         /\ \/ issued' = issued
            \/ \E k \in Commands : NewCommand(k, "settle", None)
            \/ \E k \in Commands, j \in Joins : NewCommand(k, "withdraw", j) /\ source = "hold"
            \/ \E k \in Commands : NewCommand(k, "cancel", "cutoff") /\ source = "hold"
            \/ \E k \in Commands : NewCommand(k, "cancel", "organizer") /\ source = "hold"
<1>1. CASE UNCHANGED issued
  BY <1>1 DEF CommandsStay
<1>2. ASSUME NEW k, NEW action, NEW about, NewCommand(k, action, about) PROVE CommandsStay
  BY <1>2 DEF NewCommand, CommandsStay
<1>3. UNCHANGED matchVars => UNCHANGED issued
  BY DEF matchVars
<1>4. ASSUME NEW j \in Joins,
             \/ RequestJoin(j) \/ JoinWindowEnds(j) \/ WithdrawFromPaidBookingMatch(j)
      PROVE  UNCHANGED issued
  BY <1>4 DEF RequestJoin, JoinWindowEnds, WithdrawFromPaidBookingMatch
<1>5. ASSUME NEW j \in Joins, HandleJoinPaid(j)
      PROVE  UNCHANGED issued \/ \E k \in Commands : NewCommand(k, "settle", None)
  BY <1>5, IssueIsNew DEF HandleJoinPaid
<1>6. ASSUME NEW j \in Joins, NEW k \in Commands, WithdrawJoin(j, k)
      PROVE  NewCommand(k, "withdraw", j) /\ source = "hold"
  BY <1>6, IssueIsNew DEF WithdrawJoin, BeginResolution
<1>7. ASSUME NEW k \in Commands, RequestMatchFundingAtCutoff(k)
      PROVE  NewCommand(k, "settle", None)
  BY <1>7, IssueIsNew DEF RequestMatchFundingAtCutoff
<1>8. ASSUME NEW k \in Commands,
             ApplyMatchBookingResolution(k) \/ CancelWithoutBooking(k) \/ HandleSettleResolved(k)
      PROVE  UNCHANGED issued
  BY <1>8 DEF ApplyMatchBookingResolution, CancelWithoutBooking, HandleSettleResolved
<1>9. CASE CancelMatchAtCutoff \/ CancelMatchByOrganizer
  <2>1. CASE ClosePaidBookingMatchLayer
    BY <2>1, <1>1 DEF ClosePaidBookingMatchLayer
  <2>2. ASSUME NEW k \in Commands, NEW about, BeginResolution(k, "cancel", about)
        PROVE  NewCommand(k, "cancel", about) /\ source = "hold"
    BY <2>2, IssueIsNew DEF BeginResolution
  <2>3. \/ ClosePaidBookingMatchLayer
        \/ \E k \in Commands : BeginResolution(k, "cancel", "cutoff")
        \/ \E k \in Commands : BeginResolution(k, "cancel", "organizer")
    BY <1>9 DEF CancelMatchAtCutoff, CancelMatchByOrganizer
  <2>4. CASE \E k \in Commands : BeginResolution(k, "cancel", "cutoff")
    <3>1. PICK k \in Commands : NewCommand(k, "cancel", "cutoff") /\ source = "hold"
      BY <2>4, <2>2
    <3>2. CommandsStay
      BY <3>1, <1>2
    <3> QED
      BY <3>1, <3>2
  <2>5. CASE \E k \in Commands : BeginResolution(k, "cancel", "organizer")
    <3>1. PICK k \in Commands : NewCommand(k, "cancel", "organizer") /\ source = "hold"
      BY <2>5, <2>2
    <3>2. CommandsStay
      BY <3>1, <1>2
    <3> QED
      BY <3>1, <3>2
  <2> QED
    BY <2>1, <2>3, <2>4, <2>5
<1>10. CASE \/ ReleaseExpiredApprovedJoins \/ FinalizeConfirmedPolicyCancellation
            \/ CancelExpiredDepositMatch \/ ActivateMatchHold \/ HandleDepositPaid
            \/ HandleBookingCompleted \/ (\E type : HandleFunded(type))
            \/ (\E was : HandleShutdownBookingCancellation(was))
  BY <1>10, <1>1
  DEF ReleaseExpiredApprovedJoins, FinalizeConfirmedPolicyCancellation,
      CancelExpiredDepositMatch, ActivateMatchHold, HandleDepositPaid, HandleBookingCompleted,
      HandleFunded, HandleShutdownBookingCancellation
<1> QED
  BY <1>1, <1>2, <1>3, <1>4, <1>5, <1>6, <1>7, <1>8, <1>9, <1>10, OutsideDesk
  DEF MatchNext, MatchmakingNext

\* The steps of matchmaking that do not ask venue leave the court alone.
LEMMA OutsideCourt ==
  ASSUME \/ MatchmakingNext /\ ~ActivateMatchHold
         \/ FinanceNext \/ (\E e \in mail : GiveUp(e)) \/ MatchPhaseEnds
         \/ UNCHANGED fundingVars
  PROVE  UNCHANGED venueVars
<1>1. CASE FinanceNext
  BY <1>1
  DEF FinanceNext, HandleMatchCreated, HandleJoinApproved, HandleMatchFeeRefundRequested,
      StartPayment, CommitPayment, HandleMatchConfirmed, HandleMatchSettlementRequested,
      HandleMatchBookingResolved, HandleMatchCancelled, HandleMatchBookingCancelled,
      HandleMatchResultFinalized
<1>2. CASE (\E e \in mail : GiveUp(e)) \/ MatchPhaseEnds \/ UNCHANGED fundingVars
  BY <1>2 DEF GiveUp, MatchPhaseEnds, fundingVars
<1>3. CASE MatchmakingNext /\ ~ActivateMatchHold
  <2>1. ASSUME NEW j \in Joins,
               \/ RequestJoin(j) \/ JoinWindowEnds(j) \/ WithdrawFromPaidBookingMatch(j)
               \/ HandleJoinPaid(j) \/ (\E k \in Commands : WithdrawJoin(j, k))
        PROVE  UNCHANGED venueVars
    BY <2>1 DEF RequestJoin, JoinWindowEnds, WithdrawFromPaidBookingMatch, HandleJoinPaid,
                WithdrawJoin, BeginResolution
  <2>2. ASSUME NEW k \in Commands,
               \/ RequestMatchFundingAtCutoff(k) \/ ApplyMatchBookingResolution(k)
               \/ CancelWithoutBooking(k) \/ HandleSettleResolved(k) \/ HandleCommandResolved(k)
        PROVE  UNCHANGED venueVars
    BY <2>2 DEF RequestMatchFundingAtCutoff, ApplyMatchBookingResolution,
                CancelWithoutBooking, HandleSettleResolved, HandleCommandResolved
  <2>3. CASE CancelMatchAtCutoff \/ CancelMatchByOrganizer
    BY <2>3 DEF CancelMatchAtCutoff, CancelMatchByOrganizer, ClosePaidBookingMatchLayer,
                BeginResolution
  <2>4. CASE \/ ReleaseExpiredApprovedJoins \/ FinalizeConfirmedPolicyCancellation
             \/ CancelExpiredDepositMatch \/ HandleDepositPaid \/ FinalizeResult
             \/ HandleBookingCompleted \/ (\E type : HandleFunded(type))
             \/ (\E was : HandleShutdownBookingCancellation(was))
    BY <2>4
    DEF ReleaseExpiredApprovedJoins, FinalizeConfirmedPolicyCancellation,
        CancelExpiredDepositMatch, HandleDepositPaid, HandleBookingCompleted,
        HandleFunded, HandleShutdownBookingCancellation, FinalizeResult
  <2> QED
    BY <1>3, <2>1, <2>2, <2>3, <2>4 DEF MatchmakingNext
<1> QED
  BY <1>1, <1>2, <1>3

\* The steps that change venue's booking, or its answers.
CourtActions == \/ \E r \in Reasons : ReleaseHeldMatchBooking(r)
                \/ ReapExpiredMatchBooking \/ LeaveMatchCheckout \/ CancelBookingByOwner
                \/ ShutdownCancelsBooking \/ CompleteMatchBooking

\* The forms that an update of the booking takes.
CourtRow == [status : {"held", "confirmed", "completed", "cancelled", "deleted"},
             revision : Nat, winner : Commands \cup {None},
             active : BOOLEAN, by : {None, "self", "provider_fault"}]

\* What the updates of a booking row return is a row.
LEMMA CourtRowUpdates ==
  ASSUME NEW b \in CourtRow, NEW w \in Commands \cup {None},
         NEW s \in {"held", "confirmed", "completed", "cancelled", "deleted"},
         NEW by \in {None, "self", "provider_fault"}
  PROVE  /\ [b EXCEPT !.revision = @ + 1, !.status = s, !.winner = w] \in CourtRow
         /\ [b EXCEPT !.status = s, !.by = by] \in CourtRow
         /\ [b EXCEPT !.status = s, !.by = by, !.revision = @ + 1, !.winner = w] \in CourtRow
<1>1. b.revision + 1 \in Nat
  BY DEF CourtRow
<1>2. \A r \in Nat : [b EXCEPT !.revision = r, !.status = s, !.winner = w] \in CourtRow
  BY DEF CourtRow
<1>3. \A r \in Nat : [b EXCEPT !.status = s, !.by = by, !.revision = r, !.winner = w] \in CourtRow
  BY DEF CourtRow
<1>4. [b EXCEPT !.status = s, !.by = by] \in CourtRow
  BY DEF CourtRow
<1> QED
  BY <1>1, <1>2, <1>3, <1>4

\* What no step, or only one, ever writes.
LEMMA PhaseMoves ==
  ASSUME [MatchNext]_fundingVars
  PROVE  /\ MatchPhaseEnds \/ UNCHANGED phase
         /\ UNCHANGED source /\ lost \subseteq lost'
<1>1. ASSUME NEW j \in Joins,
           \/ RequestJoin(j) \/ JoinWindowEnds(j) \/ WithdrawFromPaidBookingMatch(j)
           \/ HandleJoinPaid(j) \/ (\E k \in Commands : WithdrawJoin(j, k))
      PROVE  UNCHANGED <<source, lost, phase>>
  BY <1>1 DEF RequestJoin, JoinWindowEnds, WithdrawFromPaidBookingMatch, HandleJoinPaid,
              WithdrawJoin, BeginResolution
<1>2. ASSUME NEW k \in Commands,
           \/ RequestMatchFundingAtCutoff(k) \/ ApplyMatchBookingResolution(k)
           \/ CancelWithoutBooking(k) \/ HandleSettleResolved(k) \/ HandleCommandResolved(k)
           \/ ResolveMatchBooking(k)
      PROVE  UNCHANGED <<source, lost, phase>>
  BY <1>2 DEF RequestMatchFundingAtCutoff, ApplyMatchBookingResolution,
              CancelWithoutBooking, HandleSettleResolved, HandleCommandResolved,
              ResolveMatchBooking
<1>3. CASE CancelMatchAtCutoff \/ CancelMatchByOrganizer
  BY <1>3 DEF CancelMatchAtCutoff, CancelMatchByOrganizer, ClosePaidBookingMatchLayer,
              BeginResolution
<1>4. CASE \/ ReleaseExpiredApprovedJoins \/ FinalizeConfirmedPolicyCancellation
           \/ CancelExpiredDepositMatch \/ HandleDepositPaid \/ FinalizeResult
           \/ HandleBookingCompleted \/ (\E type : HandleFunded(type))
           \/ (\E was : HandleShutdownBookingCancellation(was)) \/ ActivateMatchHold
  BY <1>4
  DEF ReleaseExpiredApprovedJoins, FinalizeConfirmedPolicyCancellation,
      CancelExpiredDepositMatch, HandleDepositPaid, HandleBookingCompleted,
      HandleFunded, HandleShutdownBookingCancellation, FinalizeResult, ActivateMatchHold
<1>5. CASE FinanceNext
  BY <1>5
  DEF FinanceNext, HandleMatchCreated, HandleJoinApproved, HandleMatchFeeRefundRequested,
      StartPayment, CommitPayment, HandleMatchConfirmed, HandleMatchSettlementRequested,
      HandleMatchBookingResolved, HandleMatchCancelled, HandleMatchBookingCancelled,
      HandleMatchResultFinalized
<1>6. CASE CourtActions \/ UNCHANGED fundingVars
  BY <1>6
  DEF CourtActions, ReleaseHeldMatchBooking, ReapExpiredMatchBooking,
      LeaveMatchCheckout, CancelBookingByOwner, ShutdownCancelsBooking, CompleteMatchBooking,
      fundingVars
<1>7. CASE (\E e \in mail : GiveUp(e)) \/ MatchPhaseEnds
  BY <1>7 DEF GiveUp, MatchPhaseEnds
<1> QED
  BY <1>1, <1>2, <1>3, <1>4, <1>5, <1>6, <1>7
  DEF MatchNext, MatchmakingNext, VenueNext, CourtActions

\* Every step keeps the shape of what venue knows.
LEMMA CourtIsTyped ==
  ASSUME DeskTyped, CourtTyped, [MatchNext]_fundingVars
  PROVE  CourtTyped'
<1>1. booking \in CourtRow
  BY DEF CourtTyped, CourtRow
<1>2. DOMAIN issued \subseteq DOMAIN issued'
  BY CommandsOnlyGrow DEF CommandsStay
<1>3. phase' \in 0..3
  <2>1. CASE UNCHANGED phase
    BY <2>1 DEF CourtTyped
  <2>2. CASE MatchPhaseEnds
    BY <2>2 DEF CourtTyped, MatchPhaseEnds
  <2> QED
    BY <2>1, <2>2, PhaseMoves
<1>4. CASE UNCHANGED venueVars
  BY <1>2, <1>3, <1>4 DEF venueVars, CourtTyped
<1>5. CASE ActivateMatchHold \/ CourtActions
  <2>1. UNCHANGED commands
    BY <1>5 DEF ActivateMatchHold, CourtActions, ReleaseHeldMatchBooking, ReapExpiredMatchBooking,
                LeaveMatchCheckout, CancelBookingByOwner, ShutdownCancelsBooking, CompleteMatchBooking
  <2>2. booking' \in CourtRow
    <3>1. CASE ActivateMatchHold
      BY <1>1, <3>1 DEF ActivateMatchHold, CourtRow
    <3>2. CASE CourtActions
      <4>1. CASE \E r \in Reasons : ReleaseHeldMatchBooking(r)
        BY <1>1, <4>1 DEF ReleaseHeldMatchBooking, CourtRow
      <4>2. CASE ReapExpiredMatchBooking \/ LeaveMatchCheckout \/ CompleteMatchBooking
        BY <1>1, <4>2 DEF ReapExpiredMatchBooking, LeaveMatchCheckout, CompleteMatchBooking, CourtRow
      <4>3. CASE CancelBookingByOwner \/ ShutdownCancelsBooking
        BY <1>1, <4>3, CourtRowUpdates DEF CancelBookingByOwner, ShutdownCancelsBooking
      <4> QED
        BY <3>2, <4>1, <4>2, <4>3 DEF CourtActions
    <3> QED
      BY <1>5, <3>1, <3>2
  <2> QED
    BY <1>2, <1>3, <2>1, <2>2 DEF CourtTyped, CourtRow
<1>6. ASSUME NEW k \in Commands, ResolveMatchBooking(k) PROVE CourtTyped'
  <2>1. PICK decision \in Decisions :
          /\ \/ booking' = booking
             \/ /\ booking' = [booking EXCEPT !.revision = @ + 1,
                                 !.status = IF issued[k].action = "withdraw" THEN @ ELSE decision,
                                 !.winner = IF issued[k].action = "settle" THEN k ELSE None]
                /\ issued[k].action = "settle" => decision = "confirmed"
                /\ issued[k].action = "cancel" => decision = "cancelled"
          /\ commands' = [c \in DOMAIN commands \cup {k} |->
                           IF c = k THEN [decision |-> decision, winner |-> booking'.winner,
                                          revision |-> booking'.revision]
                           ELSE commands[c]]
    BY <1>6 DEF ResolveMatchBooking, Decisions, DeskTyped, Command
  <2>2. k \in DOMAIN issued
    BY <1>6 DEF ResolveMatchBooking
  <2>3. issued[k].action \in {"settle", "withdraw", "cancel"}
    BY <2>2 DEF DeskTyped, Command
  <2>4. booking' \in CourtRow
    <3>1. CASE booking' = booking
      BY <1>1, <3>1
    <3>2. CASE booking' # booking
      <4>1. PICK s \in {booking.status, "confirmed", "cancelled"}, w \in Commands \cup {None} :
              booking' = [booking EXCEPT !.revision = @ + 1, !.status = s, !.winner = w]
        BY <2>1, <2>3, <3>2
      <4> QED
        <5>1. s \in {"held", "confirmed", "completed", "cancelled", "deleted"}
          BY <1>1 DEF CourtRow
        <5> QED
          BY <1>1, <4>1, <5>1, CourtRowUpdates
    <3> QED
      BY <3>1, <3>2
  <2>5. [decision |-> decision, winner |-> booking'.winner, revision |-> booking'.revision] \in Answer
    BY <2>4 DEF CourtRow, Answer
  <2>6. DOMAIN commands' \subseteq DOMAIN issued' /\ \A c \in DOMAIN commands' : commands'[c] \in Answer
    BY <1>2, <2>1, <2>2, <2>5 DEF CourtTyped
  <2> QED
    BY <1>3, <2>4, <2>6 DEF CourtTyped, CourtRow
<1> QED
  BY <1>4, <1>5, <1>6, OutsideCourt DEF MatchNext, VenueNext, CourtActions

\* What the events about commands, and about a court that is gone, come from.
NewLetters ==
  /\ \A k : Event("matchmaking", "MatchBookingResolved", k) \in mail'
       => Event("matchmaking", "MatchBookingResolved", k) \in mail \/ k \in DOMAIN commands'
  /\ \A k : Event("finance", "MatchBookingResolved", k) \in mail'
       => Event("finance", "MatchBookingResolved", k) \in mail \/ k \in DOMAIN commands'
  /\ \A k : Event("finance", "MatchConfirmed", k) \in mail'
       => Event("finance", "MatchConfirmed", k) \in mail \/ NewCommand(k, "settle", None)
  /\ \A k : Event("finance", "MatchSettlementRequested", k) \in mail'
       => \/ Event("finance", "MatchSettlementRequested", k) \in mail
          \/ Event("finance", "MatchConfirmed", k) \in mail
  /\ \A k : Event("venue", "Settle", k) \in mail'
       => \/ Event("venue", "Settle", k) \in mail
          \/ /\ Event("finance", "MatchSettlementRequested", k) \in mail
             /\ CurrentAttempt(k) /\ UNCHANGED <<funding, issued, commands, booking>>
  /\ Event("finance", "BookingCancelled", None) \in mail'
       => Event("finance", "BookingCancelled", None) \in mail \/ booking'.status = "cancelled"
  /\ Event("matchmaking", "ShutdownBookingCancellationRequested", "held") \in mail'
       => \/ Event("matchmaking", "ShutdownBookingCancellationRequested", "held") \in mail
          \/ booking'.status = "cancelled"

\* The events of the other kinds.
PlainLetters ==
  \A e \in mail' : e \in mail \/ e.type \in {"JoinApproved", "MatchFeeRefundRequested",
     "MatchCancelled", "PaymentCompleted", "MatchFundingCompleted", "BookingCompleted",
     "BookingConfirmed", "MatchResultFinalized"}

\* A step that posts none of the events that name a command posts only plain ones.
LEMMA PlainLettersAreNew ==
  ASSUME PlainLetters
  PROVE  NewLetters
<1>1. \A to, type, about : Event(to, type, about).type = type
  BY DEF Event
<1>2. \A to, type, about : Event(to, type, about) \in mail' =>
        \/ Event(to, type, about) \in mail
        \/ type \in {"JoinApproved", "MatchFeeRefundRequested", "MatchCancelled",
                     "PaymentCompleted", "MatchFundingCompleted", "BookingCompleted",
                     "BookingConfirmed", "MatchResultFinalized"}
  BY <1>1 DEF PlainLetters
<1> QED
  BY <1>2 DEF NewLetters

\* Every event in the mail was there before, or is one that its step may post.
LEMMA LettersComeFrom ==
  ASSUME CourtTyped, [MatchNext]_fundingVars
  PROVE  NewLetters
<1>1. \A to, type, about : Event(to, type, about).type = type
  BY DEF Event
<1> USE <1>1
<1>2. ASSUME NEW j \in Joins,
             \/ RequestJoin(j) \/ JoinWindowEnds(j) \/ WithdrawFromPaidBookingMatch(j)
             \/ (\E k \in Commands : WithdrawJoin(j, k))
      PROVE  PlainLetters
  BY <1>2 DEF RequestJoin, JoinWindowEnds, WithdrawFromPaidBookingMatch,
              WithdrawJoin, BeginResolution, Post, PlainLetters
<1>3. ASSUME NEW j \in Joins, HandleJoinPaid(j) PROVE NewLetters
  <2>1. CASE mail' \subseteq mail \cup {Event("finance", "MatchFeeRefundRequested", j)}
    BY <2>1, PlainLettersAreNew DEF PlainLetters
  <2>2. ASSUME NEW k \in Commands, NewCommand(k, "settle", None),
               mail' \subseteq mail \cup {Event("finance", "MatchConfirmed", k)}
        PROVE  NewLetters
    BY <2>2, EventEq DEF NewLetters
  <2>3. \/ mail' \subseteq mail \cup {Event("finance", "MatchFeeRefundRequested", j)}
        \/ \E k \in Commands : /\ NewCommand(k, "settle", None)
                               /\ mail' \subseteq mail \cup {Event("finance", "MatchConfirmed", k)}
    BY <1>3, IssueIsNew DEF HandleJoinPaid, HandledAndPost, Handled
  <2> QED
    BY <2>1, <2>2, <2>3
<1>4. ASSUME NEW k \in Commands, RequestMatchFundingAtCutoff(k) PROVE NewLetters
  <2>1. NewCommand(k, "settle", None) /\ mail' = mail \cup {Event("finance", "MatchConfirmed", k)}
    BY <1>4, IssueIsNew DEF RequestMatchFundingAtCutoff, Post
  <2> QED
    BY <2>1, EventEq DEF NewLetters
<1>5. ASSUME NEW k \in Commands,
             ApplyMatchBookingResolution(k) \/ CancelWithoutBooking(k)
      PROVE  PlainLetters
  <2>1. ASSUME NEW answer, ResolutionApplied(k, answer) PROVE PlainLetters
    BY <2>1 DEF ResolutionApplied, Post, MatchCancelled, PlainLetters
  <2> QED
    BY <1>5, <2>1 DEF ApplyMatchBookingResolution, CancelWithoutBooking
<1>6. ASSUME NEW k \in Commands, HandleSettleResolved(k) \/ HandleCommandResolved(k)
      PROVE  PlainLetters
  BY <1>6 DEF HandleSettleResolved, HandleCommandResolved, HandledAndPost, Handled,
              MatchCancelled, PlainLetters
<1>7. CASE CancelMatchAtCutoff \/ CancelMatchByOrganizer
  <2>1. mail' \subseteq mail \cup MatchCancelled("other")
    BY <1>7 DEF CancelMatchAtCutoff, CancelMatchByOrganizer, ClosePaidBookingMatchLayer,
                BeginResolution, Post
  <2> QED
    BY <2>1, PlainLettersAreNew DEF MatchCancelled, PlainLetters
<1>8. CASE \/ ReleaseExpiredApprovedJoins \/ FinalizeConfirmedPolicyCancellation
           \/ CancelExpiredDepositMatch \/ HandleDepositPaid \/ FinalizeResult
           \/ HandleBookingCompleted \/ (\E type : HandleFunded(type))
           \/ (\E was : HandleShutdownBookingCancellation(was)) \/ ActivateMatchHold
  <2>1. CASE \/ ReleaseExpiredApprovedJoins \/ HandleBookingCompleted \/ ActivateMatchHold
             \/ (\E type : HandleFunded(type))
    <3>1. mail' \subseteq mail
      BY <2>1 DEF ReleaseExpiredApprovedJoins, HandleBookingCompleted, ActivateMatchHold,
                  HandleFunded, Handled
    <3> QED
      BY <3>1, PlainLettersAreNew DEF PlainLetters
  <2>2. CASE \/ FinalizeConfirmedPolicyCancellation \/ CancelExpiredDepositMatch
             \/ HandleDepositPaid \/ FinalizeResult
             \/ (\E was : HandleShutdownBookingCancellation(was))
    <3>1. PICK r : mail' \subseteq mail \cup MatchCancelled(r)
                           \cup {Event("finance", "MatchResultFinalized", None)}
      BY <2>2
      DEF FinalizeConfirmedPolicyCancellation, CancelExpiredDepositMatch, HandleDepositPaid,
          HandleShutdownBookingCancellation, FinalizeResult, Post, Handled, HandledAndPost
    <3> QED
      BY <3>1, PlainLettersAreNew DEF PlainLetters, MatchCancelled
  <2> QED
    BY <1>8, <2>1, <2>2
<1>9. ASSUME NEW k \in Commands, ResolveMatchBooking(k) PROVE NewLetters
  <2>1. /\ k \in DOMAIN commands' /\ \A c \in DOMAIN commands : c \in DOMAIN commands'
        /\ mail' \subseteq mail \cup {Event("finance", "MatchBookingResolved", k),
                                      Event("matchmaking", "MatchBookingResolved", k),
                                      Event("matchmaking", "BookingConfirmed", None)}
    BY <1>9 DEF ResolveMatchBooking, HandledAndPost
  <2> QED
    BY <2>1, EventEq DEF NewLetters
<1>10. CASE ShutdownCancelsBooking \/ CancelBookingByOwner
  <2>1. /\ mail' \subseteq mail \cup {Event("finance", "BookingCancelled", None),
               Event("matchmaking", "ShutdownBookingCancellationRequested", booking.status)}
        /\ ShutdownCancelsBooking \/ mail' = mail \cup {Event("finance", "BookingCancelled", None)}
    BY <1>10 DEF ShutdownCancelsBooking, CancelBookingByOwner, Post
  <2>2. booking'.status = "cancelled"
    BY <1>10 DEF ShutdownCancelsBooking, CancelBookingByOwner, CourtTyped
  <2> QED
    BY <2>1, <2>2, EventEq DEF NewLetters
<1>11. CASE \/ (\E r \in Reasons : ReleaseHeldMatchBooking(r))
            \/ ReapExpiredMatchBooking \/ LeaveMatchCheckout \/ CompleteMatchBooking
            \/ (\E e \in mail : GiveUp(e)) \/ MatchPhaseEnds \/ UNCHANGED fundingVars
  <2>1. mail' \subseteq mail \cup {Event("matchmaking", "BookingCompleted", None)}
    BY <1>11
    DEF ReleaseHeldMatchBooking, ReapExpiredMatchBooking, LeaveMatchCheckout,
        CompleteMatchBooking, GiveUp, MatchPhaseEnds, fundingVars, Post, Handled
  <2> QED
    BY <2>1, PlainLettersAreNew DEF PlainLetters
<1>12. CASE \/ HandleMatchCreated
            \/ (\E j \in Joins : HandleJoinApproved(j) \/ HandleMatchFeeRefundRequested(j))
            \/ (\E p \in Payers : StartPayment(p) \/ CommitPayment(p))
            \/ (\E k \in Commands : HandleMatchBookingResolved(k))
            \/ (\E r \in Reasons : HandleMatchCancelled(r))
            \/ HandleMatchBookingCancelled \/ HandleMatchResultFinalized
  <2>1. CASE \E p \in Payers : CommitPayment(p)
    BY <2>1, PlainLettersAreNew DEF CommitPayment, Post, PlainLetters
  <2>2. CASE \E k \in Commands : HandleMatchBookingResolved(k)
    BY <2>2, PlainLettersAreNew DEF HandleMatchBookingResolved, HandledAndPost, Handled, PlainLetters
  <2>3. CASE \/ HandleMatchCreated
             \/ (\E j \in Joins : HandleJoinApproved(j) \/ HandleMatchFeeRefundRequested(j))
             \/ (\E p \in Payers : StartPayment(p))
             \/ (\E r \in Reasons : HandleMatchCancelled(r))
             \/ HandleMatchBookingCancelled \/ HandleMatchResultFinalized
    <3>1. mail' \subseteq mail
      BY <2>3
      DEF HandleMatchCreated, HandleJoinApproved, HandleMatchFeeRefundRequested,
          StartPayment, HandleMatchCancelled,
          HandleMatchBookingCancelled, HandleMatchResultFinalized, Handled
    <3> QED
      BY <3>1, PlainLettersAreNew DEF PlainLetters
  <2> QED
    BY <1>12, <2>1, <2>2, <2>3
<1>13. ASSUME NEW k \in Commands, HandleMatchConfirmed(k) PROVE NewLetters
  <2>1. CASE mail' \subseteq mail \cup {Event("matchmaking", "MatchFundingCompleted", None)}
    BY <2>1, PlainLettersAreNew DEF PlainLetters
  <2>2. CASE /\ mail' \subseteq mail \cup {Event("finance", "MatchSettlementRequested", k)}
             /\ Event("finance", "MatchConfirmed", k) \in mail
    BY <2>2, EventEq DEF NewLetters
  <2> QED
    BY <1>13, <2>1, <2>2 DEF HandleMatchConfirmed, HandledAndPost, Handled
<1>14. ASSUME NEW k \in Commands, HandleMatchSettlementRequested(k) PROVE NewLetters
  <2>1. /\ mail' \subseteq mail \cup (IF CurrentAttempt(k) THEN {Event("venue", "Settle", k)} ELSE {})
        /\ Event("finance", "MatchSettlementRequested", k) \in mail
        /\ UNCHANGED <<funding, issued, commands, booking>>
    BY <1>14 DEF HandleMatchSettlementRequested, HandledAndPost, matchVars, venueVars, financeVars
  <2> QED
    BY <2>1, EventEq DEF NewLetters
<1> QED
  BY <1>2, <1>3, <1>4, <1>5, <1>6, <1>7, <1>8, <1>9, <1>10, <1>11, <1>12, <1>13, <1>14,
     PlainLettersAreNew
  DEF MatchNext, MatchmakingNext, VenueNext, FinanceNext

\* An answer that venue has stored is never replaced.
LEMMA AnswersOnlyGrow ==
  ASSUME [MatchNext]_fundingVars
  PROVE  AnswersStay
<1>1. CASE UNCHANGED commands
  BY <1>1 DEF AnswersStay
<1>2. UNCHANGED venueVars => UNCHANGED commands
  BY DEF venueVars
<1>3. CASE ActivateMatchHold \/ CourtActions
  BY <1>1, <1>3
  DEF ActivateMatchHold, CourtActions, ReleaseHeldMatchBooking, ReapExpiredMatchBooking,
      LeaveMatchCheckout, CancelBookingByOwner, ShutdownCancelsBooking, CompleteMatchBooking
<1>4. ASSUME NEW k \in Commands, ResolveMatchBooking(k) PROVE AnswersStay
  <2>1. /\ k \notin DOMAIN commands /\ DOMAIN commands' = DOMAIN commands \cup {k}
        /\ \A c \in DOMAIN commands : c # k => commands'[c] = commands[c]
    BY <1>4 DEF ResolveMatchBooking
  <2> QED
    BY <2>1 DEF AnswersStay
<1> QED
  BY <1>1, <1>2, <1>3, <1>4, OutsideCourt DEF MatchNext, VenueNext, CourtActions

\* A settlement that was drawn remains one.
LEMMA SettlesOnlyGrow ==
  ASSUME [MatchNext]_fundingVars
  PROVE  /\ Settles \subseteq Settles'
         /\ \A k : NewCommand(k, "settle", None) => k \in Settles'
<1>1. CommandsStay
  BY CommandsOnlyGrow
<1> QED
  BY <1>1 DEF CommandsStay, Settles, NewCommand

\* The shapes of the three services, and what their events name.
Tables == DeskTyped /\ CourtTyped /\ LettersFit

\* The shapes are inductive.
LEMMA TablesStep ==
  ASSUME Tables, [MatchNext]_fundingVars
  PROVE  Tables'
<1>1. DeskTyped' /\ CourtTyped'
  BY DeskIsTyped, CourtIsTyped DEF Tables
<1>2. NewLetters /\ AnswersStay
  BY LettersComeFrom, AnswersOnlyGrow DEF Tables
<1>3. Settles \subseteq Settles' /\ \A k : NewCommand(k, "settle", None) => k \in Settles'
  BY SettlesOnlyGrow
<1>4. \A to, type, about : Event(to, type, about)' = Event(to, type, about)
  BY DEF Event
<1>5. LettersFit'
  BY <1>2, <1>3 DEF Tables, LettersFit, NewLetters, AnswersStay
<1> QED
  BY <1>1, <1>5 DEF Tables

\* The shapes hold when the match is created.
LEMMA TablesInitially == MatchInit => Tables
<1> SUFFICES ASSUME MatchInit PROVE Tables
  OBVIOUS
<1>1. DeskTyped
  BY FundingAssumption DEF MatchInit, DeskTyped, MatchRow, Decisions
<1>2. CourtTyped
  BY DEF MatchInit, CourtTyped
<1>3. LettersFit
  BY EventEq DEF MatchInit, LettersFit
<1> QED
  BY <1>1, <1>2, <1>3 DEF Tables

-----------------------------------------------------------------------------
(* The desk: joins, places and the one settlement                          *)

\* The joins that take a place of the match.
Living == {j \in Joins : joins[j] \in {"approved", "confirmed"}}
\* No join waits for its payment.
NoneApproved == \A j \in Joins : joins[j] # "approved"

\* Approved and confirmed joins never outnumber the places.
Seats == Cardinality(Living) <= Slots

\* At most one settlement is ever drawn, when the cutoff has passed and every
\* place is confirmed; from then on no join is waiting, and a match that is
\* filled is one whose funding has been requested.
Sealed ==
  /\ \A k1, k2 \in Settles : k1 = k2
  /\ Settles # {} => /\ phase >= 2 /\ NoneApproved
                     /\ match.status = "filled" => match.requested
                     /\ match.status # "awaiting_deposit"
  /\ match.requested => Settles # {}

\* A match that is over, or whose court is bought, has no join that waits.
Shut == match.status \in {"confirmed", "completed", "cancelled"} => NoneApproved

\* Nobody joins before the deposit, or after a deposit that came too late.
Deposits ==
  /\ match.status = "awaiting_deposit" \/ deposit = "too_late" => \A j \in Joins : joins[j] = "none"
  /\ deposit = "too_late" => match.status \notin {"open", "filled"}

\* Only a settlement buys the court of a match that holds it.
Bought ==
  /\ source = "hold" /\ booking.status \in {"confirmed", "completed"} => Settles # {}
  /\ source = "paid_booking" => DOMAIN issued = Settles
  /\ \A k \in DOMAIN commands : commands[k].decision = "confirmed" => Settles # {}

\* What matchmaking knows of the places, the settlement and the deposit.
DeskRules == Seats /\ Sealed /\ Shut /\ Deposits

\* The joins that leave, and what may become of the row of the match.
JoinsLeave ==
  \A j \in Joins : \/ joins'[j] = joins[j]
                   \/ /\ joins[j] \in {"approved", "confirmed"}
                      /\ joins'[j] \in {"rejected", "withdrawn"}

\* A match moves on by its status only, and a request stays made.
RowMoves ==
  /\ match'.requested => match.requested
  /\ \/ /\ match'.status = match.status
        /\ match.status = "filled" => match'.requested = match.requested
     \/ match.status = "filled" /\ match'.status = "open"
     \/ match.status = "awaiting_deposit" /\ match'.status = "open" /\ deposit # "too_late"
     \/ match'.status \in {"confirmed", "completed", "cancelled"} /\ NoneApproved'

\* The deposit is answered once.
DepositMoves ==
  \/ deposit' = deposit
  \/ /\ match.status = "awaiting_deposit" /\ match'.status = "awaiting_deposit"
     /\ deposit' = "too_late" => ~HeldAndPayable

\* The places that are taken can be counted.
LEMMA LivingIsFinite ==
  /\ IsFiniteSet(Living) /\ Cardinality(Living) \in Nat
  /\ \A S : S \subseteq Living => IsFiniteSet(S) /\ Cardinality(S) <= Cardinality(Living)
BY FundingAssumption, FS_Subset, FS_CardinalityType DEF Living

\* A step that gives nobody a place and draws no settlement keeps the rules.
LEMMA QuietDesk ==
  ASSUME DeskRules, Tables, phase' \in 0..3, JoinsLeave, RowMoves, DepositMoves, Settles' = Settles,
         phase' >= phase
  PROVE  DeskRules'
<1>1. Living' \subseteq Living
  BY DEF Living, JoinsLeave
<1>2. Seats'
  <2>1. Cardinality(Living') <= Cardinality(Living) /\ Cardinality(Living) \in Nat
        /\ IsFiniteSet(Living')
    BY <1>1, LivingIsFinite
  <2>2. Cardinality(Living') \in Nat
    BY <2>1, FS_CardinalityType
  <2> QED
    BY <2>1, <2>2, FundingAssumption DEF DeskRules, Seats
<1>3. NoneApproved => NoneApproved'
  BY DEF NoneApproved, JoinsLeave
<1>4. phase \in Nat /\ phase' \in Nat
  BY DEF Tables, CourtTyped
<1>5. Sealed'
  BY <1>3, <1>4 DEF DeskRules, Sealed, RowMoves
<1>6. Shut'
  BY <1>3 DEF DeskRules, Shut, RowMoves
<1>7. (\A j \in Joins : joins[j] = "none") => (\A j \in Joins : joins'[j] = "none")
  BY DEF JoinsLeave
<1>8. Deposits'
  BY <1>7 DEF DeskRules, Deposits, RowMoves, DepositMoves
<1> QED
  BY <1>2, <1>5, <1>6, <1>8 DEF DeskRules

\* The steps that take no seat and draw no settlement.
QuietMoves == JoinsLeave /\ RowMoves /\ DepositMoves /\ Settles' = Settles

\* A command of another kind, and none, draws no settlement.
LEMMA SettlesKept ==
  /\ UNCHANGED issued => Settles' = Settles
  /\ \A k, action, about : NewCommand(k, action, about) /\ action # "settle" => Settles' = Settles
<1>1. UNCHANGED issued => Settles' = Settles
  BY DEF Settles
<1>2. ASSUME NEW k, NEW action, NEW about, NewCommand(k, action, about), action # "settle"
      PROVE  Settles' = Settles
  BY <1>2 DEF NewCommand, Settles
<1> QED
  BY <1>1, <1>2

\* Joins that are withdrawn or rejected give their places back.
LEMMA WithdrawnLeave ==
  ASSUME FundingInv, joins' = AllWithdrawn
  PROVE  JoinsLeave /\ NoneApproved'
BY DEF AllWithdrawn, JoinsLeave, NoneApproved, FundingInv, Shapes

\* So does a single join.
LEMMA OneLeaves ==
  ASSUME FundingInv, NEW j \in Joins,
         joins' = [joins EXCEPT ![j] = IF @ \in {"approved", "confirmed"} THEN "withdrawn" ELSE @]
  PROVE  JoinsLeave
BY DEF JoinsLeave, FundingInv, Shapes

\* beginMatchResolution gives nobody a place and draws no settlement.
LEMMA ResolutionIsQuiet ==
  ASSUME FundingInv, Tables, DeskRules, NEW k \in DOMAIN issued, NEW answer,
         answer.decision = "confirmed" => Settles # {},
         ResolutionApplied(k, answer), UNCHANGED <<issued, deposit>>
  PROVE  QuietMoves
<1>1. Settles' = Settles
  BY SettlesKept
<1>2. DepositMoves
  BY DEF DepositMoves
<1>3. AtRevision(match, answer.revision).status = match.status
      /\ AtRevision(match, answer.revision).requested = match.requested
      /\ {"status", "requested", "attempt"} \subseteq DOMAIN AtRevision(match, answer.revision)
  BY DEF AtRevision, Tables, DeskTyped, MatchRow
<1>4. issued[k].action = "withdraw" => issued[k].about \in Joins
  BY DEF Tables, DeskTyped
<1>5. CASE /\ issued[k].action = "withdraw" /\ answer.decision = "held_revoked"
  <2>1. JoinsLeave
    BY <1>4, <1>5, OneLeaves DEF ResolutionApplied
  <2>2. \E same \in BOOLEAN : \E attempt :
          match' = [AtRevision(match, answer.revision) EXCEPT
                      !.status = IF @ = "filled" THEN "open" ELSE @,
                      !.requested = @ /\ ~same, !.attempt = attempt]
    BY <1>5 DEF ResolutionApplied
  <2>3. RowMoves
    BY <1>3, <2>2 DEF RowMoves, Tables, DeskTyped, MatchRow
  <2> QED
    BY <1>1, <1>2, <2>1, <2>3 DEF QuietMoves
<1>6. CASE answer.decision = "confirmed"
  <2>1. JoinsLeave
    <3>1. CASE issued[k].action = "withdraw"
      BY <1>4, <1>6, <3>1, OneLeaves DEF ResolutionApplied
    <3>2. CASE issued[k].action = "cancel"
      BY <1>6, <3>2 DEF ResolutionApplied, JoinsLeave
    <3> QED
      BY <3>1, <3>2 DEF ResolutionApplied
  <2>2. match' = [AtRevision(match, answer.revision) EXCEPT !.status = "confirmed"]
    BY <1>6 DEF ResolutionApplied
  <2>3. NoneApproved
    BY <1>6 DEF DeskRules, Sealed
  <2>4. RowMoves
    BY <1>3, <2>1, <2>2, <2>3 DEF RowMoves, JoinsLeave, NoneApproved
  <2> QED
    BY <1>1, <1>2, <2>1, <2>4 DEF QuietMoves
<1>7. CASE issued[k].action = "cancel" /\ answer.decision = "cancelled"
  <2>1. joins' = AllWithdrawn /\ match'.status = "cancelled" /\ match'.requested = FALSE
    BY <1>3, <1>7 DEF ResolutionApplied
  <2> QED
    BY <1>1, <1>2, <2>1, WithdrawnLeave DEF QuietMoves, RowMoves
<1>8. CASE UNCHANGED joins /\ (match' = match \/ match' = AtRevision(match, answer.revision))
  BY <1>1, <1>2, <1>3, <1>8 DEF QuietMoves, RowMoves, JoinsLeave
<1> QED
  BY <1>5, <1>6, <1>7, <1>8 DEF ResolutionApplied

\* Every step but the three that take a seat or draw the settlement.
LEMMA StepIsQuiet ==
  ASSUME FundingInv, Tables, DeskRules, Bought, [MatchNext]_fundingVars,
         ~ \E j \in Joins : RequestJoin(j) \/ HandleJoinPaid(j),
         ~ \E k \in Commands : RequestMatchFundingAtCutoff(k)
  PROVE  QuietMoves
<1>1. CASE UNCHANGED matchVars
  BY <1>1, SettlesKept DEF matchVars, QuietMoves, JoinsLeave, RowMoves, DepositMoves
<1>2. ASSUME NEW j \in Joins, JoinWindowEnds(j) PROVE QuietMoves
  BY <1>2, SettlesKept DEF JoinWindowEnds, QuietMoves, JoinsLeave, RowMoves, DepositMoves
<1>3. ASSUME NEW j \in Joins, WithdrawFromPaidBookingMatch(j) PROVE QuietMoves
  <2>1. JoinsLeave /\ Settles' = Settles /\ DepositMoves
    BY <1>3, SettlesKept
    DEF WithdrawFromPaidBookingMatch, JoinsLeave, DepositMoves, FundingInv, Shapes
  <2>2. RowMoves
    BY <1>3 DEF WithdrawFromPaidBookingMatch, RowMoves, Tables, DeskTyped, MatchRow
  <2> QED
    BY <2>1, <2>2 DEF QuietMoves
<1>4. ASSUME NEW k \in Commands, NEW action \in {"withdraw", "cancel"}, NEW about,
             BeginResolution(k, action, about)
      PROVE  QuietMoves
  <2>1. NewCommand(k, action, about) /\ action # "settle"
    BY <1>4, IssueIsNew DEF BeginResolution
  <2>2. Settles' = Settles
    BY <2>1, SettlesKept
  <2> QED
    BY <1>4, <2>2 DEF BeginResolution, QuietMoves, JoinsLeave, RowMoves, DepositMoves
<1>5. ASSUME NEW j \in Joins, NEW k \in Commands, WithdrawJoin(j, k) PROVE QuietMoves
  BY <1>4, <1>5 DEF WithdrawJoin
<1>6. ASSUME NEW k \in Commands, ApplyMatchBookingResolution(k) PROVE QuietMoves
  <2>1. k \in DOMAIN commands /\ k \in DOMAIN issued
    BY <1>6 DEF ApplyMatchBookingResolution, Tables, CourtTyped
  <2>2. commands[k].decision = "confirmed" => Settles # {}
    BY <2>1 DEF Bought
  <2> QED
    BY <1>6, <2>1, <2>2, ResolutionIsQuiet DEF ApplyMatchBookingResolution
<1>7. ASSUME NEW k \in Commands, CancelWithoutBooking(k) PROVE QuietMoves
  <2> DEFINE answer == [decision |-> "cancelled", winner |-> None, revision |-> issued[k].revision]
  <2>1. k \in DOMAIN issued /\ answer.decision # "confirmed" /\ ResolutionApplied(k, answer)
    BY <1>7 DEF CancelWithoutBooking
  <2> HIDE DEF answer
  <2> QED
    BY <1>7, <2>1, ResolutionIsQuiet DEF CancelWithoutBooking
<1>8. ASSUME NEW k \in Commands, HandleSettleResolved(k) PROVE QuietMoves
  <2>1. Settles' = Settles /\ DepositMoves
    BY <1>8, SettlesKept DEF HandleSettleResolved, DepositMoves
  <2>2. k \in Settles
    BY <1>8 DEF HandleSettleResolved, Tables, LettersFit, CourtTyped, Settles
  <2>3. AtRevision(match, commands[k].revision).status = match.status
        /\ AtRevision(match, commands[k].revision).requested = match.requested
        /\ {"status", "requested", "attempt"} \subseteq DOMAIN AtRevision(match, commands[k].revision)
    BY DEF AtRevision, Tables, DeskTyped, MatchRow
  <2>4. NoneApproved
    BY <2>2 DEF DeskRules, Sealed
  <2>5. CASE match' = [AtRevision(match, commands[k].revision) EXCEPT !.status = "confirmed"]
             /\ UNCHANGED joins
    BY <2>1, <2>3, <2>4, <2>5 DEF QuietMoves, RowMoves, JoinsLeave, NoneApproved
  <2>6. CASE match' = [AtRevision(match, commands[k].revision) EXCEPT
                         !.requested = FALSE, !.attempt = None,
                         !.status = IF @ = "filled" THEN "open" ELSE @]
             /\ UNCHANGED joins
    BY <2>1, <2>3, <2>6 DEF QuietMoves, RowMoves, JoinsLeave
  <2>7. CASE match' = [match EXCEPT !.status = "cancelled"] /\ joins' = AllWithdrawn
    BY <2>1, <2>7, WithdrawnLeave DEF QuietMoves, RowMoves, Tables, DeskTyped, MatchRow
  <2>8. CASE UNCHANGED <<match, joins>>
    BY <2>1, <2>8 DEF QuietMoves, RowMoves, JoinsLeave
  <2> QED
    BY <1>8, <2>5, <2>6, <2>7, <2>8 DEF HandleSettleResolved
<1>9. CASE ClosePaidBookingMatchLayer \/ FinalizeConfirmedPolicyCancellation
  <2>1. joins' = AllWithdrawn /\ match' = [match EXCEPT !.status = "cancelled"]
        /\ UNCHANGED <<issued, deposit>>
    BY <1>9 DEF ClosePaidBookingMatchLayer, FinalizeConfirmedPolicyCancellation
  <2> QED
    BY <2>1, SettlesKept, WithdrawnLeave
    DEF QuietMoves, RowMoves, DepositMoves, Tables, DeskTyped, MatchRow
<1>10. CASE CancelMatchAtCutoff \/ CancelMatchByOrganizer
  BY <1>10, <1>9, <1>4 DEF CancelMatchAtCutoff, CancelMatchByOrganizer
<1>11. CASE ReleaseExpiredApprovedJoins
  BY <1>11, SettlesKept
  DEF ReleaseExpiredApprovedJoins, QuietMoves, JoinsLeave, RowMoves, DepositMoves
<1>12. CASE CancelExpiredDepositMatch
  <2>1. NoneApproved /\ match' = [match EXCEPT !.status = "cancelled"]
        /\ UNCHANGED <<joins, issued, deposit>>
    BY <1>12 DEF CancelExpiredDepositMatch, DeskRules, Deposits, NoneApproved
  <2> QED
    BY <2>1, SettlesKept
    DEF QuietMoves, RowMoves, DepositMoves, JoinsLeave, NoneApproved, Tables, DeskTyped, MatchRow
<1>13. CASE ActivateMatchHold
  BY <1>13, SettlesKept DEF ActivateMatchHold, QuietMoves, RowMoves, DepositMoves, JoinsLeave
<1>14. CASE HandleDepositPaid
  <2>1. UNCHANGED <<joins, issued, deposit>>
    BY <1>14 DEF HandleDepositPaid
  <2>2. CASE deposit = "too_late"
    <3>1. NoneApproved
      BY <2>2 DEF DeskRules, Deposits, NoneApproved
    <3> QED
      BY <1>14, <2>1, <2>2, <3>1, SettlesKept
      DEF HandleDepositPaid, QuietMoves, RowMoves, DepositMoves, JoinsLeave, NoneApproved,
          Tables, DeskTyped, MatchRow
  <2>3. CASE deposit # "too_late"
    BY <1>14, <2>1, <2>3, SettlesKept
    DEF HandleDepositPaid, QuietMoves, RowMoves, DepositMoves, JoinsLeave,
        Tables, DeskTyped, MatchRow
  <2> QED
    BY <2>2, <2>3
<1>15. ASSUME NEW type, HandleFunded(type) PROVE QuietMoves
  <2>1. UNCHANGED <<joins, issued, deposit>>
    BY <1>15 DEF HandleFunded
  <2>2. match.requested => NoneApproved
    BY DEF DeskRules, Sealed
  <2> QED
    BY <1>15, <2>1, <2>2, SettlesKept
    DEF HandleFunded, QuietMoves, RowMoves, DepositMoves, JoinsLeave, NoneApproved,
        Tables, DeskTyped, MatchRow
<1>16. CASE HandleBookingCompleted
  <2>1. UNCHANGED <<joins, issued, deposit>>
    BY <1>16 DEF HandleBookingCompleted
  <2>2. match.status = "confirmed" => NoneApproved
    BY DEF DeskRules, Shut
  <2> QED
    BY <1>16, <2>1, <2>2, SettlesKept
    DEF HandleBookingCompleted, QuietMoves, RowMoves, DepositMoves, JoinsLeave, NoneApproved,
        Tables, DeskTyped, MatchRow
<1>17. ASSUME NEW was, HandleShutdownBookingCancellation(was) PROVE QuietMoves
  <2>1. UNCHANGED <<issued, deposit>>
        /\ \/ UNCHANGED <<match, joins>>
           \/ joins' = AllWithdrawn /\ match' = [match EXCEPT !.status = "cancelled"]
    BY <1>17 DEF HandleShutdownBookingCancellation
  <2> QED
    BY <2>1, SettlesKept, WithdrawnLeave
    DEF QuietMoves, RowMoves, DepositMoves, JoinsLeave, Tables, DeskTyped, MatchRow
<1> QED
  BY <1>1, <1>2, <1>3, <1>5, <1>6, <1>7, <1>8, <1>9, <1>10, <1>11, <1>12, <1>13, <1>14,
     <1>15, <1>16, <1>17, OutsideDesk
  DEF MatchNext, MatchmakingNext

\* A new join takes a free place, or one that an expired join gives back.
LEMMA RequestTakesSeat ==
  ASSUME FundingInv, Tables, DeskRules, NEW j \in Joins, RequestJoin(j)
  PROVE  DeskRules'
<1>1. match.status = "open" /\ UNCHANGED <<match, issued, deposit, phase>>
  BY DEF RequestJoin
<1>2. Settles' = Settles
  BY <1>1, SettlesKept
<1>3. Settles = {}
  BY DEF RequestJoin, DeskRules, Sealed, Tables, CourtTyped
<1>4. Living' \subseteq Taken \cup {j}
  BY DEF RequestJoin, Living, Taken, FundingInv, Shapes
<1>5. Seats'
  <2>1. IsFiniteSet(Taken) /\ IsFiniteSet(Taken \cup {j})
    BY FundingAssumption, FS_Subset DEF Taken
  <2>2. Cardinality(Taken \cup {j}) <= Cardinality(Taken) + 1
    BY <2>1, FS_AddElement, FS_CardinalityType
  <2>3. Cardinality(Living') <= Cardinality(Taken \cup {j}) /\ IsFiniteSet(Living')
    BY <1>4, <2>1, FS_Subset
  <2>4. Cardinality(Taken) < Slots
    BY DEF RequestJoin
  <2>5. /\ Cardinality(Taken) \in Nat /\ Cardinality(Taken \cup {j}) \in Nat
        /\ Cardinality(Living') \in Nat /\ Slots \in Nat
    BY <2>1, <2>3, FS_CardinalityType, FundingAssumption
  <2>6. Cardinality(Living') <= Slots
    BY <2>2, <2>3, <2>4, <2>5
  <2> QED
    BY <2>6 DEF Seats
<1>6. Sealed' /\ Shut' /\ Deposits'
  BY <1>1, <1>2, <1>3 DEF DeskRules, Sealed, Shut, Deposits
<1> QED
  BY <1>5, <1>6 DEF DeskRules

\* When every place is confirmed, no join is waiting for its payment.
LEMMA FullIsFinal ==
  ASSUME FundingInv, Seats, NEW S, S \subseteq Living, Cardinality(S) = Slots
  PROVE  S = Living
<1>1. Cardinality(S) <= Cardinality(Living) /\ Cardinality(Living) <= Slots
  BY LivingIsFinite DEF Seats
<1>2. Cardinality(Living) = Cardinality(S)
  BY <1>1, LivingIsFinite, FundingAssumption
<1> QED
  BY <1>2, LivingIsFinite, FS_Subset

\* A match that is ready has no join left that waits for its payment.
LEMMA ReadyIsLast ==
  ASSUME Tables, NEW m, NEW S, FundingReady(m, S)
  PROVE  phase >= 2 /\ m.status = "filled" /\ ~m.requested /\ Cardinality(S) = Slots
BY DEF FundingReady

\* The settlement is drawn when every place is paid for, and only once.
LEMMA RequestIsLast ==
  ASSUME FundingInv, Tables, DeskRules, NEW k \in Commands, RequestMatchFundingAtCutoff(k)
  PROVE  DeskRules'
<1>1. phase >= 2 /\ match.status = "filled" /\ ~match.requested /\ Cardinality(Confirmed) = Slots
  BY ReadyIsLast DEF RequestMatchFundingAtCutoff
<1>2. Confirmed = Living
  BY <1>1, FullIsFinal DEF Confirmed, Living, DeskRules
<1>3. NoneApproved
  BY <1>2 DEF Confirmed, Living, NoneApproved
<1>4. Settles = {}
  BY <1>1 DEF DeskRules, Sealed
<1>5. NewCommand(k, "settle", None) /\ UNCHANGED <<joins, phase, deposit>>
      /\ match' = [match EXCEPT !.requested = TRUE, !.attempt = k]
  BY IssueIsNew DEF RequestMatchFundingAtCutoff
<1>6. Settles' = {k}
  BY <1>4, <1>5 DEF Settles, NewCommand
<1>7. match'.status = match.status /\ match'.requested
  BY <1>5 DEF Tables, DeskTyped, MatchRow
<1>8. NoneApproved' /\ Living' = Living
  BY <1>3, <1>5 DEF NoneApproved, Living
<1> QED
  BY <1>1, <1>5, <1>6, <1>7, <1>8 DEF DeskRules, Seats, Sealed, Shut, Deposits

\* The payment of a join that waited takes the place it was approved for.
LEMMA PaidTakesSeat ==
  ASSUME FundingInv, Tables, DeskRules, NEW j \in Joins, HandleJoinPaid(j)
  PROVE  DeskRules'
<1> DEFINE m == [match EXCEPT !.status = IF Cardinality(Confirmed) + 1 = Slots THEN "filled" ELSE @]
<1>1. UNCHANGED <<deposit, phase>>
  BY DEF HandleJoinPaid
<1>2. CASE UNCHANGED <<match, issued>>
      /\ joins' = [joins EXCEPT ![j] = IF @ = "approved" THEN "rejected" ELSE @]
  <2>1. JoinsLeave /\ RowMoves /\ DepositMoves /\ Settles' = Settles
    BY <1>1, <1>2, SettlesKept
    DEF JoinsLeave, RowMoves, DepositMoves, FundingInv, Shapes
  <2> QED
    BY <1>1, <2>1, QuietDesk DEF Tables, CourtTyped
<1>3. CASE /\ joins[j] = "approved" /\ joins' = [joins EXCEPT ![j] = "confirmed"]
           /\ \/ match' = m /\ UNCHANGED issued
              \/ \E k \in Commands : /\ FundingReady(m, Confirmed \cup {j})
                                     /\ Fresh(k) /\ Issue(k, "settle", None)
                                     /\ match' = [m EXCEPT !.requested = TRUE, !.attempt = k]
  <2>1. ~NoneApproved /\ Settles = {}
    BY <1>3 DEF NoneApproved, DeskRules, Sealed
  <2>2. Living' = Living
    BY <1>3 DEF Living, FundingInv, Shapes
  <2>3. match.status \notin {"confirmed", "completed", "cancelled", "awaiting_deposit"}
        /\ deposit # "too_late"
    BY <1>3, <2>1 DEF DeskRules, Shut, Deposits
  <2>4. match.status \in {"open", "filled"}
    BY <2>3 DEF Tables, DeskTyped, MatchRow
  <2>5. m.status \in {"open", "filled"} /\ m.requested = match.requested
        /\ {"requested", "attempt"} \subseteq DOMAIN m
    BY <2>4 DEF Tables, DeskTyped, MatchRow
  <2>6. ~match.requested
    BY <2>1 DEF DeskRules, Sealed
  <2>7. CASE match' = m /\ UNCHANGED issued
    <3>1. Settles' = Settles
      BY <2>7, SettlesKept
    <3> QED
      BY <1>1, <2>1, <2>2, <2>3, <2>5, <2>6, <2>7, <3>1
      DEF DeskRules, Seats, Sealed, Shut, Deposits
  <2>8. ASSUME NEW k \in Commands, FundingReady(m, Confirmed \cup {j}),
               Fresh(k), Issue(k, "settle", None),
               match' = [m EXCEPT !.requested = TRUE, !.attempt = k]
        PROVE  DeskRules'
    <3>1. NewCommand(k, "settle", None)
      BY <2>8, IssueIsNew
    <3>2. Settles' = {k}
      BY <2>1, <3>1 DEF Settles, NewCommand
    <3>3. phase >= 2 /\ Cardinality(Confirmed \cup {j}) = Slots
      BY <2>8, ReadyIsLast
    <3>4. Confirmed \cup {j} = Living
      BY <1>3, <3>3, FullIsFinal DEF Confirmed, Living, DeskRules
    <3>5. NoneApproved'
      BY <1>3, <3>4 DEF Confirmed, Living, NoneApproved, FundingInv, Shapes
    <3>6. match'.status \in {"open", "filled"} /\ match'.requested
      BY <2>5, <2>8
    <3> QED
      BY <1>1, <2>2, <2>3, <3>2, <3>3, <3>5, <3>6
      DEF DeskRules, Seats, Sealed, Shut, Deposits
  <2> QED
    BY <1>3, <2>7, <2>8
<1> QED
  BY <1>2, <1>3 DEF HandleJoinPaid

\* The rules of the places are inductive.
LEMMA DeskRulesStep ==
  ASSUME FundingInv, Tables, DeskRules, Bought, [MatchNext]_fundingVars
  PROVE  DeskRules'
<1>1. phase' \in 0..3 /\ phase' >= phase
  BY PhaseMoves, TablesStep DEF MatchPhaseEnds, Tables, CourtTyped
<1>2. CASE QuietMoves
  BY <1>1, <1>2, QuietDesk DEF QuietMoves
<1> QED
  BY <1>2, StepIsQuiet, RequestTakesSeat, PaidTakesSeat, RequestIsLast

\* A court is sold by a settlement that wins.
Wins(k) ==
  /\ ResolveMatchBooking(k) /\ issued[k].action = "settle"
  /\ HeldAndPayable /\ booking.revision = issued[k].revision

\* A booking that becomes confirmed is sold by the command that is answered.
LEMMA SaleStep ==
  ASSUME Tables, [MatchNext]_fundingVars, booking'.status \in {"confirmed", "completed"}
  PROVE  booking.status \in {"confirmed", "completed"} \/ \E k \in Commands : Wins(k)
<1>1. CASE UNCHANGED venueVars
  BY <1>1 DEF venueVars
<1>2. CASE ActivateMatchHold
  BY <1>2 DEF ActivateMatchHold, Tables, CourtTyped
<1>3. CASE CourtActions
  BY <1>3
  DEF CourtActions, ReleaseHeldMatchBooking, ReapExpiredMatchBooking, LeaveMatchCheckout,
      CancelBookingByOwner, ShutdownCancelsBooking, CompleteMatchBooking, Tables, CourtTyped
<1>4. ASSUME NEW k \in Commands, ResolveMatchBooking(k), ~Wins(k)
      PROVE  booking.status \in {"confirmed", "completed"}
  <2>1. \/ booking' = booking
        \/ /\ HeldAndPayable /\ booking.revision = issued[k].revision
           /\ \E decision \in Decisions :
                /\ booking' = [booking EXCEPT !.revision = @ + 1,
                     !.status = IF issued[k].action = "withdraw" THEN @ ELSE decision,
                     !.winner = IF issued[k].action = "settle" THEN k ELSE None]
                /\ issued[k].action = "cancel" => decision = "cancelled"
    BY <1>4 DEF ResolveMatchBooking, Tables, DeskTyped, Command, Decisions
  <2>2. issued[k].action \in {"withdraw", "cancel"} \/ booking' = booking
    BY <1>4, <2>1 DEF Wins, ResolveMatchBooking, Tables, DeskTyped, Command
  <2> QED
    BY <2>1, <2>2 DEF Tables, CourtTyped
<1> QED
  BY <1>1, <1>2, <1>3, <1>4, OutsideCourt DEF MatchNext, VenueNext, CourtActions

\* The court of a hold is sold to a settlement of the match only.
LEMMA BoughtStep ==
  ASSUME FundingInv, Tables, Bought, [MatchNext]_fundingVars
  PROVE  Bought'
<1>1. Settles \subseteq Settles' /\ AnswersStay /\ source' = source
  BY SettlesOnlyGrow, AnswersOnlyGrow, PhaseMoves
<1>2. source = "paid_booking" => DOMAIN issued' = Settles'
  <2>1. CASE UNCHANGED issued
    BY <2>1, SettlesKept DEF Bought
  <2>2. ASSUME NEW k \in Commands, NewCommand(k, "settle", None), source = "paid_booking"
        PROVE  DOMAIN issued' = Settles'
    BY <2>2 DEF Bought, NewCommand, Settles
  <2> QED
    BY <2>1, <2>2, CommandsOnlyGrow
<1>3. (\E k \in Commands : Wins(k)) => Settles # {}
  BY DEF Wins, ResolveMatchBooking, Settles
<1>4. ASSUME NEW k \in DOMAIN commands', commands'[k].decision = "confirmed"
      PROVE  Settles' # {}
  <2>1. CASE k \in DOMAIN commands
    BY <1>1, <1>4, <2>1 DEF AnswersStay, Bought
  <2>2. CASE k \notin DOMAIN commands
    <3>1. k \in Commands /\ ResolveMatchBooking(k)
      <4>1. UNCHANGED commands \/ \E c \in Commands : ResolveMatchBooking(c)
        <5>1. CASE ActivateMatchHold \/ CourtActions
          BY <5>1
          DEF ActivateMatchHold, CourtActions, ReleaseHeldMatchBooking, ReapExpiredMatchBooking,
              LeaveMatchCheckout, CancelBookingByOwner, ShutdownCancelsBooking, CompleteMatchBooking
        <5>2. UNCHANGED venueVars => UNCHANGED commands
          BY DEF venueVars
        <5> QED
          BY <5>1, <5>2, OutsideCourt DEF MatchNext, VenueNext, CourtActions
      <4>2. PICK c \in Commands : ResolveMatchBooking(c)
        BY <4>1, <2>2
      <4>3. DOMAIN commands' = DOMAIN commands \cup {c}
        BY <4>2 DEF ResolveMatchBooking
      <4> QED
        BY <4>2, <4>3, <2>2
    <3>2. k \in DOMAIN issued
      BY <3>1 DEF ResolveMatchBooking
    <3>3. CASE source = "paid_booking"
      BY <1>1, <3>2, <3>3 DEF Bought
    <3>4. CASE source = "hold"
      <4>1. CASE booking.status \in {"confirmed", "completed"}
        BY <1>1, <3>4, <4>1 DEF Bought
      <4>2. CASE booking.status \notin {"confirmed", "completed"}
        <5>1. issued[k].action = "settle"
          BY <1>4, <3>1, <4>2 DEF ResolveMatchBooking, Tables, DeskTyped, Command
        <5> QED
          BY <1>1, <3>2, <5>1 DEF Settles
      <4> QED
        BY <4>1, <4>2
    <3> QED
      BY <3>3, <3>4 DEF FundingInv, Shapes
  <2> QED
    BY <2>1, <2>2
<1> QED
  BY <1>1, <1>2, <1>3, <1>4, SaleStep DEF Bought

-----------------------------------------------------------------------------
(* The money of a match that is cancelled                                  *)

\* Which event a step takes from the mail, and whose handler does.
DeskTakes ==
  \/ mail \subseteq mail'
  \/ \E type, about :
       /\ mail \ {Event("matchmaking", type, about)} \subseteq mail'
       /\ type = "PaymentCompleted" /\ about \in Joins => HandleJoinPaid(about)

\* A step of venue takes at most one event.
CourtTakes == \E type, about : mail \ {Event("venue", type, about)} \subseteq mail'

\* A step of finance takes at most one event, and leaves those of others.
FinanceTakes ==
  \/ mail \subseteq mail'
  \/ \E type, about :
       /\ mail \ {Event("finance", type, about)} \subseteq mail'
       /\ type = "MatchCancelled" => about \in Reasons /\ HandleMatchCancelled(about)
       /\ type = "MatchFeeRefundRequested" =>
            about \in Joins /\ HandleMatchFeeRefundRequested(about)
       /\ type = "MatchBookingResolved" =>
            about \in Commands /\ HandleMatchBookingResolved(about)

\* Matchmaking takes its own events only.
LEMMA DeskTakesMail ==
  ASSUME MatchmakingNext
  PROVE  DeskTakes
<1>1. ASSUME NEW j \in Joins, HandleJoinPaid(j) PROVE DeskTakes
  <2>1. mail \ {Event("matchmaking", "PaymentCompleted", j)} \subseteq mail'
    BY <1>1 DEF HandleJoinPaid, HandledAndPost, Handled
  <2> QED
    BY <1>1, <2>1 DEF DeskTakes
<1>2. ASSUME NEW type, NEW about, mail \ {Event("matchmaking", type, about)} \subseteq mail',
             type # "PaymentCompleted" \/ about = Organizer
      PROVE  DeskTakes
  BY <1>2, FundingAssumption DEF DeskTakes
<1>3. CASE HandleDepositPaid
  <2>1. mail \ {Event("matchmaking", "PaymentCompleted", Organizer)} \subseteq mail'
    BY <1>3 DEF HandleDepositPaid, HandledAndPost, Handled
  <2> QED
    BY <1>2, <2>1
<1>4. ASSUME NEW k \in Commands, HandleSettleResolved(k) \/ HandleCommandResolved(k)
      PROVE  DeskTakes
  <2>1. mail \ {Event("matchmaking", "MatchBookingResolved", k)} \subseteq mail'
    BY <1>4 DEF HandleSettleResolved, HandleCommandResolved, HandledAndPost, Handled
  <2> QED
    BY <1>2, <2>1
<1>5. ASSUME NEW type \in {"BookingConfirmed", "MatchFundingCompleted"}, HandleFunded(type)
      PROVE  DeskTakes
  <2>1. mail \ {Event("matchmaking", type, None)} \subseteq mail'
    BY <1>5 DEF HandleFunded, Handled
  <2> QED
    BY <1>2, <2>1
<1>6. ASSUME NEW was, HandleShutdownBookingCancellation(was) PROVE DeskTakes
  <2>1. mail \ {Event("matchmaking", "ShutdownBookingCancellationRequested", was)} \subseteq mail'
    BY <1>6 DEF HandleShutdownBookingCancellation, HandledAndPost
  <2> QED
    BY <1>2, <2>1
<1>7. CASE HandleBookingCompleted
  <2>1. mail \ {Event("matchmaking", "BookingCompleted", None)} \subseteq mail'
    BY <1>7 DEF HandleBookingCompleted, Handled
  <2> QED
    BY <1>2, <2>1
<1>8. CASE mail \subseteq mail'
  BY <1>8 DEF DeskTakes
<1>9. ASSUME NEW j \in Joins,
             \/ RequestJoin(j) \/ JoinWindowEnds(j) \/ WithdrawFromPaidBookingMatch(j)
             \/ (\E k \in Commands : WithdrawJoin(j, k))
      PROVE  mail \subseteq mail'
  BY <1>9 DEF RequestJoin, JoinWindowEnds, WithdrawFromPaidBookingMatch, WithdrawJoin,
              BeginResolution, Post
<1>10. ASSUME NEW k \in Commands,
              \/ RequestMatchFundingAtCutoff(k) \/ ApplyMatchBookingResolution(k)
              \/ CancelWithoutBooking(k)
       PROVE  mail \subseteq mail'
  BY <1>10 DEF RequestMatchFundingAtCutoff, ApplyMatchBookingResolution, CancelWithoutBooking,
               ResolutionApplied, Post
<1>11. ASSUME \/ CancelMatchAtCutoff \/ CancelMatchByOrganizer
              \/ ReleaseExpiredApprovedJoins \/ FinalizeConfirmedPolicyCancellation
              \/ CancelExpiredDepositMatch \/ FinalizeResult \/ ActivateMatchHold
       PROVE  mail \subseteq mail'
  BY <1>11
  DEF CancelMatchAtCutoff, CancelMatchByOrganizer, ClosePaidBookingMatchLayer,
      BeginResolution, ReleaseExpiredApprovedJoins, FinalizeConfirmedPolicyCancellation,
      CancelExpiredDepositMatch, FinalizeResult, ActivateMatchHold, Post
<1> QED
  BY <1>1, <1>3, <1>4, <1>5, <1>6, <1>7, <1>8, <1>9, <1>10, <1>11 DEF MatchmakingNext

\* Venue takes its own events only.
LEMMA CourtTakesMail ==
  ASSUME VenueNext
  PROVE  CourtTakes
<1>1. ASSUME NEW k \in Commands, ResolveMatchBooking(k) PROVE CourtTakes
  <2>1. mail \ {Event("venue", "Settle", k)} \subseteq mail'
    BY <1>1 DEF ResolveMatchBooking, HandledAndPost
  <2> QED
    BY <2>1 DEF CourtTakes
<1>2. ASSUME NEW r \in Reasons, ReleaseHeldMatchBooking(r) PROVE CourtTakes
  <2>1. mail \ {Event("venue", "MatchCancelled", r)} \subseteq mail'
    BY <1>2 DEF ReleaseHeldMatchBooking, Handled
  <2> QED
    BY <2>1 DEF CourtTakes
<1>3. ASSUME \/ ReapExpiredMatchBooking \/ LeaveMatchCheckout \/ CancelBookingByOwner
             \/ ShutdownCancelsBooking \/ CompleteMatchBooking
      PROVE  mail \subseteq mail'
  BY <1>3 DEF ReapExpiredMatchBooking, LeaveMatchCheckout, CancelBookingByOwner,
              ShutdownCancelsBooking, CompleteMatchBooking, Post
<1> QED
  BY <1>1, <1>2, <1>3 DEF VenueNext, CourtTakes

\* Finance takes its own events only, one at a time.
LEMMA FinanceTakesMail ==
  ASSUME FinanceNext
  PROVE  FinanceTakes
<1>1. ASSUME NEW type \in {"MatchCreated", "JoinApproved", "MatchConfirmed",
                           "MatchSettlementRequested", "BookingCancelled",
                           "MatchResultFinalized"}, NEW about,
             mail \ {Event("finance", type, about)} \subseteq mail'
      PROVE  FinanceTakes
  BY <1>1 DEF FinanceTakes
<1>2. ASSUME NEW j \in Joins, HandleMatchFeeRefundRequested(j) PROVE FinanceTakes
  <2>1. mail \ {Event("finance", "MatchFeeRefundRequested", j)} \subseteq mail'
    BY <1>2 DEF HandleMatchFeeRefundRequested, Handled
  <2> QED
    BY <1>2, <2>1 DEF FinanceTakes
<1>3. ASSUME NEW r \in Reasons, HandleMatchCancelled(r) PROVE FinanceTakes
  <2>1. mail \ {Event("finance", "MatchCancelled", r)} \subseteq mail'
    BY <1>3 DEF HandleMatchCancelled, Handled
  <2> QED
    BY <1>3, <2>1 DEF FinanceTakes
<1>4. ASSUME NEW k \in Commands, HandleMatchBookingResolved(k) PROVE FinanceTakes
  <2>1. mail \ {Event("finance", "MatchBookingResolved", k)} \subseteq mail'
    BY <1>4 DEF HandleMatchBookingResolved, HandledAndPost, Handled
  <2> QED
    BY <1>4, <2>1 DEF FinanceTakes
<1>5. ASSUME NEW p \in Payers, StartPayment(p) \/ CommitPayment(p) PROVE FinanceTakes
  BY <1>5 DEF StartPayment, CommitPayment, Post, FinanceTakes
<1>6. CASE HandleMatchCreated
  <2>1. mail \ {Event("finance", "MatchCreated", None)} \subseteq mail'
    BY <1>6 DEF HandleMatchCreated, Handled
  <2> QED
    BY <1>1, <2>1
<1>7. ASSUME NEW j \in Joins, HandleJoinApproved(j) PROVE FinanceTakes
  <2>1. mail \ {Event("finance", "JoinApproved", j)} \subseteq mail'
    BY <1>7 DEF HandleJoinApproved, Handled
  <2> QED
    BY <1>1, <2>1
<1>8. ASSUME NEW k \in Commands, HandleMatchConfirmed(k) PROVE FinanceTakes
  <2>1. mail \ {Event("finance", "MatchConfirmed", k)} \subseteq mail'
    BY <1>8 DEF HandleMatchConfirmed, Handled, HandledAndPost
  <2> QED
    BY <1>1, <2>1
<1>9. ASSUME NEW k \in Commands, HandleMatchSettlementRequested(k) PROVE FinanceTakes
  <2>1. mail \ {Event("finance", "MatchSettlementRequested", k)} \subseteq mail'
    BY <1>9 DEF HandleMatchSettlementRequested, HandledAndPost
  <2> QED
    BY <1>1, <2>1
<1>10. CASE HandleMatchBookingCancelled
  <2>1. mail \ {Event("finance", "BookingCancelled", None)} \subseteq mail'
    BY <1>10 DEF HandleMatchBookingCancelled, Handled
  <2> QED
    BY <1>1, <2>1
<1>11. CASE HandleMatchResultFinalized
  <2>1. mail \ {Event("finance", "MatchResultFinalized", None)} \subseteq mail'
    BY <1>11 DEF HandleMatchResultFinalized, Handled
  <2> QED
    BY <1>1, <2>1
<1> QED
  BY <1>2, <1>3, <1>4, <1>5, <1>6, <1>7, <1>8, <1>9, <1>10, <1>11 DEF FinanceNext

\* What finance keeps is changed by finance alone.
LEMMA OutsideFinance ==
  ASSUME \/ MatchmakingNext \/ VenueNext \/ (\E e \in mail : GiveUp(e)) \/ MatchPhaseEnds
         \/ UNCHANGED fundingVars
  PROVE  UNCHANGED financeVars
<1>1. CASE (\E e \in mail : GiveUp(e)) \/ MatchPhaseEnds \/ UNCHANGED fundingVars
  BY <1>1 DEF GiveUp, MatchPhaseEnds, fundingVars
<1>2. CASE VenueNext
  BY <1>2
  DEF VenueNext, ResolveMatchBooking, ReleaseHeldMatchBooking, ReapExpiredMatchBooking,
      LeaveMatchCheckout, CancelBookingByOwner, ShutdownCancelsBooking, CompleteMatchBooking
<1>3. CASE MatchmakingNext
  <2>1. ASSUME NEW j \in Joins,
               \/ RequestJoin(j) \/ JoinWindowEnds(j) \/ WithdrawFromPaidBookingMatch(j)
               \/ HandleJoinPaid(j) \/ (\E k \in Commands : WithdrawJoin(j, k))
        PROVE  UNCHANGED financeVars
    BY <2>1 DEF RequestJoin, JoinWindowEnds, WithdrawFromPaidBookingMatch, HandleJoinPaid,
                WithdrawJoin, BeginResolution
  <2>2. ASSUME NEW k \in Commands,
               \/ RequestMatchFundingAtCutoff(k) \/ ApplyMatchBookingResolution(k)
               \/ CancelWithoutBooking(k) \/ HandleSettleResolved(k) \/ HandleCommandResolved(k)
        PROVE  UNCHANGED financeVars
    BY <2>2 DEF RequestMatchFundingAtCutoff, ApplyMatchBookingResolution,
                CancelWithoutBooking, HandleSettleResolved, HandleCommandResolved
  <2>3. CASE CancelMatchAtCutoff \/ CancelMatchByOrganizer
    BY <2>3 DEF CancelMatchAtCutoff, CancelMatchByOrganizer, ClosePaidBookingMatchLayer,
                BeginResolution
  <2>4. CASE \/ ReleaseExpiredApprovedJoins \/ FinalizeConfirmedPolicyCancellation
             \/ CancelExpiredDepositMatch \/ HandleDepositPaid \/ FinalizeResult
             \/ HandleBookingCompleted \/ (\E type : HandleFunded(type))
             \/ (\E was : HandleShutdownBookingCancellation(was)) \/ ActivateMatchHold
    BY <2>4
    DEF ReleaseExpiredApprovedJoins, FinalizeConfirmedPolicyCancellation,
        CancelExpiredDepositMatch, HandleDepositPaid, HandleBookingCompleted,
        HandleFunded, HandleShutdownBookingCancellation, FinalizeResult, ActivateMatchHold
  <2> QED
    BY <1>3, <2>1, <2>2, <2>3, <2>4 DEF MatchmakingNext
<1> QED
  BY <1>1, <1>2, <1>3

\* Finance has closed the match: its money is spent, or on its way back.
Over == funding.status \in {"settled", "cancelled"}

\* Finance is still to be told of the cancellation.
CancelComes == \E r \in Reasons : Event("finance", "MatchCancelled", r) \in mail

\* A closed match holds the money of nobody, but of those whose payment finance
\* committed after the cancellation.
Returned ==
  Over => \A p \in Payers \ overtaken : Cash(p) => contributions[p] # "paid"

\* Finance closes every match that is cancelled, unless the event is lost.
CancelFollows ==
  lost = {} /\ match.status = "cancelled" => CancelComes \/ Over \/ Organizer \in overtaken

\* A fee that is paid for a cancelled match is on its way back.
FeeFollows ==
  lost = {} /\ match.status = "cancelled" =>
    \A j \in Joins : contributions[j] = "paid" =>
      \/ j \in overtaken \/ CancelComes \/ Over
      \/ Event("matchmaking", "PaymentCompleted", j) \in mail
      \/ Event("finance", "MatchFeeRefundRequested", j) \in mail

\* What finance does to the row of the match and to a contribution.
OverStays == Over => Over'
\* Those whom a cancellation has overtaken are remembered.
OvertakenStay == overtaken \subseteq overtaken'

\* A funding that is over stays so, and so do those it has overtaken.
LEMMA FinanceCloses ==
  ASSUME FundingInv, FinanceNext
  PROVE  OverStays /\ OvertakenStay
<1>1. CASE HandleMatchCreated
  BY <1>1 DEF HandleMatchCreated, OverStays, OvertakenStay, Over, FundingInv, MailFits, Created
<1>2. ASSUME NEW j \in Joins, HandleJoinApproved(j) \/ HandleMatchFeeRefundRequested(j)
      PROVE  OverStays /\ OvertakenStay
  BY <1>2 DEF HandleJoinApproved, HandleMatchFeeRefundRequested, OverStays, OvertakenStay, Over
<1>3. ASSUME NEW p \in Payers, StartPayment(p) \/ CommitPayment(p)
      PROVE  OverStays /\ OvertakenStay
  BY <1>3 DEF StartPayment, CommitPayment, OverStays, OvertakenStay, Over
<1>4. ASSUME NEW k \in Commands, HandleMatchConfirmed(k) PROVE OverStays /\ OvertakenStay
  BY <1>4 DEF HandleMatchConfirmed, OverStays, OvertakenStay, Over
<1>5. ASSUME NEW k \in Commands, HandleMatchSettlementRequested(k) PROVE OverStays /\ OvertakenStay
  BY <1>5 DEF HandleMatchSettlementRequested, financeVars, OverStays, OvertakenStay, Over
<1>6. ASSUME NEW k \in Commands, HandleMatchBookingResolved(k) PROVE OverStays /\ OvertakenStay
  <2>1. "status" \in DOMAIN funding
    BY DEF FundingInv, Shapes, IsRow, Columns
  <2> QED
    BY <1>6, <2>1 DEF HandleMatchBookingResolved, VenueConfirmed, CurrentAttempt, FundingRefunded,
                      OverStays, OvertakenStay, Over
<1>7. ASSUME NEW r \in Reasons, HandleMatchCancelled(r) PROVE OverStays /\ OvertakenStay
  BY <1>7 DEF HandleMatchCancelled, FundingRefunded, OverStays, OvertakenStay, Over
<1>8. CASE HandleMatchBookingCancelled \/ HandleMatchResultFinalized
  <2>1. IsRow(funding)
    BY DEF FundingInv, Shapes
  <2> QED
    BY <1>8, <2>1 DEF HandleMatchBookingCancelled, HandleMatchResultFinalized,
                      OverStays, OvertakenStay, Over, IsRow, Columns
<1> QED
  BY <1>1, <1>2, <1>3, <1>4, <1>5, <1>6, <1>7, <1>8 DEF FinanceNext

\* The return of the money is inductive: finance refunds everyone when it cancels.
LEMMA ReturnedKept ==
  ASSUME FundingInv, Returned, [MatchNext]_fundingVars
  PROVE  Returned'
<1>1. source' = source
  BY PhaseMoves
<1>2. CASE UNCHANGED financeVars
  BY <1>1, <1>2 DEF financeVars, Returned, Over, Cash
<1>3. contributions \in [Payers -> Contribution] /\ "status" \in DOMAIN funding /\ Joins \subseteq Payers
  BY DEF FundingInv, Shapes, IsRow, Columns, Payers
<1> USE <1>1, <1>3
<1>4. CASE HandleMatchCreated \/ \E j \in Joins : HandleJoinApproved(j)
  BY <1>4 DEF HandleMatchCreated, HandleJoinApproved, Returned, Over
<1>5. ASSUME NEW j \in Joins, HandleMatchFeeRefundRequested(j) PROVE Returned'
  BY <1>5 DEF HandleMatchFeeRefundRequested, Returned, Over, Cash
<1>6. ASSUME NEW p \in Payers, StartPayment(p) \/ CommitPayment(p) PROVE Returned'
  BY <1>6 DEF StartPayment, CommitPayment, Returned, Over, Cash
<1>7. ASSUME \/ contributions' = Settled \/ contributions' = AllRefunded PROVE Returned'
  <2>1. \A p \in Payers : Cash(p) => contributions'[p] # "paid"
    BY <1>7 DEF Settled, AllRefunded, Refunded
  <2> QED
    BY <2>1 DEF Returned, Cash
<1>8. ASSUME NEW k \in Commands, HandleMatchConfirmed(k) PROVE Returned'
  BY <1>7, <1>8 DEF HandleMatchConfirmed, Returned, Over, Cash
<1>9. ASSUME NEW k \in Commands, HandleMatchSettlementRequested(k) PROVE Returned'
  BY <1>2, <1>9 DEF HandleMatchSettlementRequested
<1>10. ASSUME NEW k \in Commands, HandleMatchBookingResolved(k) PROVE Returned'
  BY <1>7, <1>10 DEF HandleMatchBookingResolved, FundingRefunded, Returned, Over, Cash
<1>11. ASSUME NEW r \in Reasons, HandleMatchCancelled(r) PROVE Returned'
  BY <1>7, <1>11 DEF HandleMatchCancelled, FundingRefunded, Returned, Over, Cash
<1>12. CASE HandleMatchBookingCancelled \/ HandleMatchResultFinalized
  BY <1>12 DEF HandleMatchBookingCancelled, HandleMatchResultFinalized, Returned, Over, Cash
<1> QED
  BY <1>2, <1>4, <1>5, <1>6, <1>8, <1>9, <1>10, <1>11, <1>12, OutsideFinance
  DEF MatchNext, FinanceNext

\* No match is cancelled without an event to finance.
LEMMA CancelPosts ==
  ASSUME Tables, MatchmakingNext, match'.status = "cancelled"
  PROVE  match.status = "cancelled" \/ CancelComes'
<1>1. ASSUME NEW r \in Reasons, MatchCancelled(r) \subseteq mail' PROVE CancelComes'
  <2>1. Event("finance", "MatchCancelled", r) \in mail'
    BY <1>1 DEF MatchCancelled
  <2> QED
    BY <2>1 DEF CancelComes, Event
<1>2. /\ "status" \in DOMAIN match
      /\ \A revision : AtRevision(match, revision).status = match.status
                       /\ "status" \in DOMAIN AtRevision(match, revision)
  BY DEF AtRevision, Tables, DeskTyped, MatchRow
<1>3. "other" \in Reasons /\ "confirmed_booking_policy" \in Reasons
  BY DEF Reasons
<1> USE <1>2, <1>3
<1>4. CASE UNCHANGED match
  BY <1>4
<1>5. ASSUME NEW j \in Joins,
             \/ RequestJoin(j) \/ JoinWindowEnds(j) \/ (\E k \in Commands : WithdrawJoin(j, k))
      PROVE  UNCHANGED match
  BY <1>5 DEF RequestJoin, JoinWindowEnds, WithdrawJoin, BeginResolution
<1>6. ASSUME NEW j \in Joins, WithdrawFromPaidBookingMatch(j) \/ HandleJoinPaid(j)
      PROVE  match.status = "cancelled"
  <2>1. CASE WithdrawFromPaidBookingMatch(j)
    <3>1. match' = [match EXCEPT !.status = IF match.status = "filled" THEN "open" ELSE match.status]
      BY <2>1 DEF WithdrawFromPaidBookingMatch
    <3> QED
      BY <3>1
  <2>2. CASE HandleJoinPaid(j)
    <3> DEFINE m == [match EXCEPT !.status = IF Cardinality(Confirmed) + 1 = Slots
                                             THEN "filled" ELSE match.status]
    <3>1. \/ match' \in {match, m}
          \/ \E k \in Commands : match' = [m EXCEPT !.requested = TRUE, !.attempt = k]
      BY <2>2 DEF HandleJoinPaid
    <3>2. m.status = "cancelled" => match.status = "cancelled"
      OBVIOUS
    <3> QED
      BY <3>1, <3>2
  <2> QED
    BY <1>6, <2>1, <2>2
<1>7. ASSUME NEW k \in Commands, RequestMatchFundingAtCutoff(k) PROVE match.status = "cancelled"
  BY <1>7 DEF RequestMatchFundingAtCutoff
<1>8. ASSUME NEW k \in Commands, NEW answer, ResolutionApplied(k, answer)
      PROVE  match.status = "cancelled" \/ CancelComes'
  BY <1>8, <1>1 DEF ResolutionApplied, Post
<1>9. ASSUME NEW k \in Commands, HandleSettleResolved(k)
      PROVE  match.status = "cancelled" \/ CancelComes'
  BY <1>9, <1>1 DEF HandleSettleResolved, HandledAndPost
<1>10. CASE ClosePaidBookingMatchLayer \/ FinalizeConfirmedPolicyCancellation
            \/ CancelExpiredDepositMatch
  BY <1>10, <1>1 DEF ClosePaidBookingMatchLayer, FinalizeConfirmedPolicyCancellation,
                     CancelExpiredDepositMatch, Post
<1>11. CASE CancelMatchAtCutoff \/ CancelMatchByOrganizer
  BY <1>11, <1>4, <1>10 DEF CancelMatchAtCutoff, CancelMatchByOrganizer, BeginResolution
<1>12. CASE \/ ReleaseExpiredApprovedJoins \/ ActivateMatchHold \/ FinalizeResult
            \/ (\E k \in Commands : HandleCommandResolved(k))
  BY <1>12, <1>4 DEF ReleaseExpiredApprovedJoins, ActivateMatchHold, FinalizeResult,
                     HandleCommandResolved, matchVars
<1>13. CASE HandleDepositPaid
  BY <1>13, <1>1 DEF HandleDepositPaid, HandledAndPost
<1>14. CASE HandleBookingCompleted \/ (\E type : HandleFunded(type))
  BY <1>14 DEF HandleBookingCompleted, HandleFunded
<1>15. ASSUME NEW was, HandleShutdownBookingCancellation(was)
       PROVE  match.status = "cancelled" \/ CancelComes'
  BY <1>15, <1>1 DEF HandleShutdownBookingCancellation, HandledAndPost
<1> QED
  BY <1>4, <1>5, <1>6, <1>7, <1>8, <1>9, <1>10, <1>11, <1>12, <1>13, <1>14, <1>15
  DEF MatchmakingNext, ApplyMatchBookingResolution, CancelWithoutBooking

\* A step of finance closes the match when it takes its cancellation.
LEMMA CancelCloses ==
  ASSUME FundingInv, FinanceNext, CancelComes
  PROVE  CancelComes' \/ Over' \/ (funding.status = "none" /\ Organizer \in overtaken')
<1>1. ASSUME NEW r \in Reasons, HandleMatchCancelled(r)
      PROVE  Over' \/ (funding.status = "none" /\ Organizer \in overtaken')
  BY <1>1 DEF HandleMatchCancelled, FundingRefunded, Over, FundingInv, Shapes, IsRow, Columns
<1>2. PICK r \in Reasons : Event("finance", "MatchCancelled", r) \in mail
  BY DEF CancelComes
<1>3. CASE Event("finance", "MatchCancelled", r) \in mail'
  BY <1>3 DEF CancelComes, Event
<1>4. CASE Event("finance", "MatchCancelled", r) \notin mail'
  BY <1>1, <1>2, <1>4, FinanceTakesMail, EventEq DEF FinanceTakes
<1> QED
  BY <1>3, <1>4

\* The other services leave the events to finance where they are.
LEMMA FinanceMailStays ==
  ASSUME MatchmakingNext \/ VenueNext \/ MatchPhaseEnds \/ UNCHANGED fundingVars,
         NEW type, NEW about, Event("finance", type, about) \in mail
  PROVE  Event("finance", type, about) \in mail'
BY DeskTakesMail, CourtTakesMail, EventEq DEF DeskTakes, CourtTakes, MatchPhaseEnds, fundingVars

\* The announcement of a cancellation is inductive: each way to cancel posts it.
LEMMA CancelFollowsKept ==
  ASSUME FundingInv, Tables, CancelFollows, [MatchNext]_fundingVars
  PROVE  CancelFollows'
<1>1. CASE \E e \in mail : GiveUp(e)
  BY <1>1 DEF GiveUp, CancelFollows
<1>2. lost' = {} => lost = {}
  BY PhaseMoves
<1>3. CASE FinanceNext
  <2>1. UNCHANGED match
    BY <1>3, OutsideDesk DEF matchVars
  <2> QED
    BY <1>2, <1>3, <2>1, FinanceCloses, CancelCloses DEF CancelFollows, OverStays, OvertakenStay
<1>4. CASE MatchmakingNext \/ VenueNext \/ MatchPhaseEnds \/ UNCHANGED fundingVars
  <2>1. UNCHANGED <<funding, overtaken>>
    BY <1>4, OutsideFinance DEF financeVars
  <2>2. CancelComes => CancelComes'
    <3> SUFFICES ASSUME CancelComes PROVE CancelComes'
      OBVIOUS
    <3>1. PICK r \in Reasons : Event("finance", "MatchCancelled", r) \in mail
      BY DEF CancelComes
    <3>2. Event("finance", "MatchCancelled", r) \in mail'
      BY <1>4, <3>1, FinanceMailStays
    <3> QED
      BY <3>2 DEF CancelComes, Event
  <2>3. match'.status = "cancelled" => match.status = "cancelled" \/ CancelComes'
    <3>1. CASE MatchmakingNext
      BY <3>1, CancelPosts
    <3>2. CASE VenueNext \/ MatchPhaseEnds \/ UNCHANGED fundingVars
      BY <3>2, OutsideDesk DEF matchVars
    <3> QED
      BY <1>4, <3>1, <3>2
  <2> QED
    BY <1>2, <2>1, <2>2, <2>3 DEF CancelFollows, Over
<1> QED
  BY <1>1, <1>3, <1>4 DEF MatchNext

\* A fee becomes paid with an event to matchmaking only.
LEMMA FeeIsAnnounced ==
  ASSUME FundingInv, FinanceNext, NEW j \in Joins, contributions'[j] = "paid"
  PROVE  contributions[j] = "paid" \/ Event("matchmaking", "PaymentCompleted", j) \in mail'
<1>1. /\ contributions \in [Payers -> Contribution] /\ j \in Payers /\ Joins \subseteq Payers
      /\ j # Organizer /\ Organizer \in Payers
  BY FundingAssumption DEF FundingInv, Shapes, Payers
<1> USE <1>1
<1>2. CASE HandleMatchCreated
  BY <1>2 DEF HandleMatchCreated
<1>3. ASSUME NEW i \in Joins, HandleJoinApproved(i) \/ HandleMatchFeeRefundRequested(i)
      PROVE  contributions[j] = "paid"
  BY <1>3 DEF HandleJoinApproved, HandleMatchFeeRefundRequested
<1>4. ASSUME NEW p \in Payers, StartPayment(p) \/ CommitPayment(p)
      PROVE  contributions[j] = "paid" \/ Event("matchmaking", "PaymentCompleted", j) \in mail'
  BY <1>4 DEF StartPayment, CommitPayment, Post
<1>5. CASE UNCHANGED contributions
  BY <1>5
<1>6. CASE contributions' = Settled \/ contributions' = AllRefunded
  BY <1>6 DEF Settled, AllRefunded
<1>7. ASSUME NEW k \in Commands,
             \/ HandleMatchConfirmed(k) \/ HandleMatchSettlementRequested(k)
             \/ HandleMatchBookingResolved(k)
      PROVE  contributions[j] = "paid"
  BY <1>5, <1>6, <1>7 DEF HandleMatchConfirmed, HandleMatchSettlementRequested,
        HandleMatchBookingResolved, FundingRefunded, financeVars, Settled, AllRefunded
<1>8. ASSUME NEW r \in Reasons, HandleMatchCancelled(r) PROVE contributions[j] = "paid"
  BY <1>8 DEF HandleMatchCancelled, FundingRefunded, AllRefunded
<1>9. CASE HandleMatchBookingCancelled \/ HandleMatchResultFinalized
  BY <1>9 DEF HandleMatchBookingCancelled, HandleMatchResultFinalized
<1> QED
  BY <1>2, <1>3, <1>4, <1>7, <1>8, <1>9 DEF FinanceNext

\* The refund of a join that is given up is inductive: each way to give up posts it.
LEMMA FeeFollowsKept ==
  ASSUME FundingInv, Tables, DeskRules, FeeFollows, [MatchNext]_fundingVars
  PROVE  FeeFollows'
<1>1. CASE \E e \in mail : GiveUp(e)
  BY <1>1 DEF GiveUp, FeeFollows
<1>2. lost' = {} => lost = {}
  BY PhaseMoves
<1>3. \A e, f, g : Event(e, f, g)' = Event(e, f, g)
  BY DEF Event
<1>4. CASE FinanceNext
  <2>1. UNCHANGED match
    BY <1>4, OutsideDesk DEF matchVars
  <2> SUFFICES ASSUME lost' = {}, match'.status = "cancelled", NEW j \in Joins,
                      contributions'[j] = "paid",
                      j \notin overtaken', ~CancelComes', ~Over',
                      Event("matchmaking", "PaymentCompleted", j) \notin mail'
               PROVE  Event("finance", "MatchFeeRefundRequested", j) \in mail'
    BY <1>3 DEF FeeFollows
  <2>2. contributions[j] = "paid" /\ lost = {} /\ match.status = "cancelled"
    BY <1>2, <1>4, <2>1, FeeIsAnnounced
  <2>3. ~Over /\ j \notin overtaken
    BY <1>4, FinanceCloses DEF OverStays, OvertakenStay
  <2>4. funding.status # "none"
    <3>1. j \in Payers
      BY DEF Payers
    <3> QED
      BY <2>2, <3>1 DEF FundingInv, PaymentsFit
  <2>5. ~CancelComes
    BY <1>4, <2>4, CancelCloses
  <2>6. Event("matchmaking", "PaymentCompleted", j) \notin mail
    BY <1>4, FinanceTakesMail, EventEq DEF FinanceTakes
  <2>7. Event("finance", "MatchFeeRefundRequested", j) \in mail
    BY <2>2, <2>3, <2>5, <2>6 DEF FeeFollows
  <2>8. ~HandleMatchFeeRefundRequested(j)
    <3>1. contributions \in [Payers -> Contribution] /\ j \in Payers
      BY DEF FundingInv, Shapes, Payers
    <3> QED
      BY <2>2, <3>1 DEF HandleMatchFeeRefundRequested
  <2> QED
    BY <1>4, <2>7, <2>8, FinanceTakesMail, EventEq DEF FinanceTakes
<1>5. CASE MatchmakingNext \/ VenueNext \/ MatchPhaseEnds \/ UNCHANGED fundingVars
  <2>1. UNCHANGED <<funding, contributions, overtaken>>
    BY <1>5, OutsideFinance DEF financeVars
  <2>2. CancelComes => CancelComes'
    <3> SUFFICES ASSUME CancelComes PROVE CancelComes'
      OBVIOUS
    <3>1. PICK r \in Reasons : Event("finance", "MatchCancelled", r) \in mail
      BY DEF CancelComes
    <3>2. Event("finance", "MatchCancelled", r) \in mail'
      BY <1>5, <3>1, FinanceMailStays
    <3> QED
      BY <3>2 DEF CancelComes, Event
  <2>3. match'.status = "cancelled" => match.status = "cancelled" \/ CancelComes'
    <3>1. CASE MatchmakingNext
      BY <3>1, CancelPosts
    <3>2. CASE VenueNext \/ MatchPhaseEnds \/ UNCHANGED fundingVars
      BY <3>2, OutsideDesk DEF matchVars
    <3> QED
      BY <1>5, <3>1, <3>2
  <2> SUFFICES ASSUME lost' = {}, match'.status = "cancelled", NEW j \in Joins,
                      contributions'[j] = "paid",
                      j \notin overtaken', ~CancelComes', ~Over',
                      Event("matchmaking", "PaymentCompleted", j) \notin mail'
               PROVE  Event("finance", "MatchFeeRefundRequested", j) \in mail'
    BY <1>3 DEF FeeFollows
  <2>4. \/ Event("matchmaking", "PaymentCompleted", j) \in mail
        \/ Event("finance", "MatchFeeRefundRequested", j) \in mail
    BY <1>2, <2>1, <2>2, <2>3 DEF FeeFollows, Over
  <2>5. CASE Event("finance", "MatchFeeRefundRequested", j) \in mail
    BY <1>5, <2>5, FinanceMailStays
  <2>6. CASE Event("matchmaking", "PaymentCompleted", j) \in mail
    <3>1. MatchmakingNext
      BY <1>5, <2>6, CourtTakesMail, EventEq DEF CourtTakes, MatchPhaseEnds, fundingVars
    <3>2. HandleJoinPaid(j)
      BY <2>6, <3>1, DeskTakesMail, EventEq DEF DeskTakes
    <3>3. joins[j] # "approved"
      BY <2>2, <2>3 DEF DeskRules, Shut, NoneApproved
    <3> QED
      BY <3>2, <3>3 DEF HandleJoinPaid, HandledAndPost
  <2> QED
    BY <2>4, <2>5, <2>6
<1> QED
  BY <1>1, <1>4, <1>5 DEF MatchNext

\* Everything that the money of a cancelled match rests on.
MatchInv ==
  /\ FundingInv /\ Tables /\ DeskRules /\ Bought
  /\ Returned /\ CancelFollows /\ FeeFollows

\* It holds when the match is created.
LEMMA MatchInitially == MatchInit => MatchInv
<1> SUFFICES ASSUME MatchInit PROVE MatchInv
  OBVIOUS
<1>1. FundingInv /\ Tables
  BY FundingInitially, TablesInitially
<1>2. /\ Living = {} /\ Settles = {} /\ NoneApproved /\ match.requested = FALSE
      /\ deposit = "none" /\ \A j \in Joins : joins[j] = "none"
      /\ match.status \in {"awaiting_deposit", "open"}
  BY DEF MatchInit, Living, Settles, NoneApproved
<1>3. DeskRules
  BY <1>2, FS_EmptySet, FundingAssumption DEF DeskRules, Seats, Sealed, Shut, Deposits
<1>4. Bought
  BY DEF MatchInit, Bought, Settles
<1>5. Returned /\ CancelFollows /\ FeeFollows
  BY <1>2 DEF MatchInit, Returned, CancelFollows, FeeFollows, Over
<1> QED
  BY <1>1, <1>3, <1>4, <1>5 DEF MatchInv

\* It is inductive.
LEMMA MatchInvStep == MatchInv /\ [MatchNext]_fundingVars => MatchInv'
<1> SUFFICES ASSUME MatchInv, [MatchNext]_fundingVars PROVE MatchInv'
  OBVIOUS
<1>1. FundingInv /\ Tables /\ DeskRules /\ Bought /\ Returned /\ CancelFollows /\ FeeFollows
  BY DEF MatchInv
<1>2. FundingInv' /\ Tables' /\ DeskRules' /\ Bought'
  BY <1>1, FundingStep, TablesStep, DeskRulesStep, BoughtStep
<1>3. Returned' /\ CancelFollows' /\ FeeFollows'
  BY <1>1, ReturnedKept, CancelFollowsKept, FeeFollowsKept
<1> QED
  BY <1>2, <1>3 DEF MatchInv

\* At rest, a match that is cancelled, or that finance has cancelled, keeps the
\* money of nobody but of those who paid after finance had handled the
\* cancellation, whatever the order in which the three services hear of joins,
\* payments, withdrawals, shutdowns and answers.
THEOREM NothingIsStranded == MatchSpec => []NoMoneyIsStranded
<1>1. MatchInv => NoMoneyIsStranded
  <2> SUFFICES ASSUME MatchInv, AtRest, match.status = "cancelled" \/ funding.status = "cancelled",
                      NEW p \in Payers \ overtaken, Cash(p), contributions[p] = "paid"
               PROVE  FALSE
    BY DEF NoMoneyIsStranded
  <2>1. mail = {} /\ lost = {}
    BY DEF AtRest
  <2>2. ~Over
    BY DEF MatchInv, Returned
  <2>3. match.status = "cancelled" /\ ~CancelComes
    BY <2>1, <2>2 DEF Over, CancelComes
  <2>4. CASE p = Organizer
    BY <2>1, <2>2, <2>3, <2>4 DEF MatchInv, CancelFollows
  <2>5. CASE p # Organizer
    BY <2>1, <2>2, <2>3, <2>5 DEF MatchInv, FeeFollows, Payers
  <2> QED
    BY <2>4, <2>5
<1> QED
  BY <1>1, MatchInitially, MatchInvStep, PTL DEF MatchSpec

\* The places of a match: approved and confirmed joins never outnumber them, at
\* most one settlement is ever drawn, and a match that is over, or cancelled,
\* has no join that waits for its payment.
THEOREM SeatsAreKept == MatchSpec => []DeskRules
<1>1. MatchInv => DeskRules
  BY DEF MatchInv
<1> QED
  BY <1>1, MatchInitially, MatchInvStep, PTL DEF MatchSpec

-----------------------------------------------------------------------------
(* The court that a match has bought                                       *)

\* The court has been sold, and perhaps played on.
SoldOut == booking.status \in {"confirmed", "completed"}

\* What the fence of venue does with one command.
Granted(k) ==
  /\ HeldAndPayable /\ booking.revision = issued[k].revision
  /\ booking'.revision = booking.revision + 1
  /\ booking'.winner = (IF issued[k].action = "settle" THEN k ELSE None)
  /\ \/ /\ issued[k].action = "settle" /\ booking'.status = "confirmed"
        /\ commands'[k].decision = "confirmed"
        /\ Event("venue", "Settle", k) \in mail /\ Event("finance", "MatchBookingResolved", k) \in mail'
     \/ /\ issued[k].action = "withdraw" /\ booking'.status = "held"
        /\ commands'[k].decision = "held_revoked"
     \/ /\ issued[k].action = "cancel" /\ booking'.status = "cancelled"
        /\ commands'[k].decision = "cancelled"

\* It refuses a command that finds the court sold, gone, or at another revision.
Refused(k) ==
  /\ booking' = booking
  /\ \/ SoldOut /\ commands'[k].decision = "confirmed"
     \/ /\ ~SoldOut /\ (~HeldAndPayable \/ issued[k].action = "settle")
        /\ commands'[k].decision = "cancelled"
     \/ /\ ~SoldOut /\ booking.revision # issued[k].revision
        /\ commands'[k].decision = "held_revoked"

\* Venue answers the command k in this step.
Answered(k) ==
  /\ k \in DOMAIN issued /\ k \notin DOMAIN commands
  /\ DOMAIN commands' = DOMAIN commands \cup {k}
  /\ \A c \in DOMAIN commands : commands'[c] = commands[c]
  /\ commands'[k].revision = booking'.revision /\ commands'[k].winner = booking'.winner
  /\ Granted(k) \/ Refused(k)

\* resolveMatchBooking sells the court to the command, or refuses it.
LEMMA ResolveAnswers ==
  ASSUME Tables, NEW k \in Commands, ResolveMatchBooking(k)
  PROVE  Answered(k)
<1>1. PICK open \in BOOLEAN :
        LET settle == Event("venue", "Settle", k)
            action == issued[k].action
            exact == booking.revision = issued[k].revision
            payable == HeldAndPayable /\ (action = "settle" => open)
            wins == payable /\ exact
            decision == IF wins THEN CASE action = "settle" -> "confirmed"
                                       [] action = "withdraw" -> "held_revoked"
                                       [] action = "cancel" -> "cancelled"
                        ELSE IF booking.status \in {"confirmed", "completed"} THEN "confirmed"
                        ELSE IF ~payable THEN "cancelled"
                        ELSE "held_revoked"
            b == IF wins
                 THEN [booking EXCEPT !.revision = @ + 1,
                         !.status = IF action = "withdraw" THEN @ ELSE decision,
                         !.winner = IF action = "settle" THEN k ELSE None]
                 ELSE booking
        IN
        /\ booking' = b
        /\ commands' = [c \in DOMAIN commands \cup {k} |->
                          IF c = k THEN [decision |-> decision, winner |-> b.winner,
                                         revision |-> b.revision]
                          ELSE commands[c]]
        /\ Event("finance", "MatchBookingResolved", k) \in mail'
  BY DEF ResolveMatchBooking, HandledAndPost
<1>2. /\ k \in DOMAIN issued /\ k \notin DOMAIN commands
      /\ issued[k].action = "settle" => Event("venue", "Settle", k) \in mail
  BY DEF ResolveMatchBooking
<1>3. issued[k].action \in {"settle", "withdraw", "cancel"}
  BY <1>2 DEF Tables, DeskTyped, Command
<1>4. {"status", "revision", "winner"} \subseteq DOMAIN booking
  BY DEF Tables, CourtTyped
<1>5. /\ DOMAIN commands' = DOMAIN commands \cup {k}
      /\ \A c \in DOMAIN commands : commands'[c] = commands[c]
      /\ commands'[k].revision = booking'.revision /\ commands'[k].winner = booking'.winner
  BY <1>1, <1>2
<1>6. CASE HeldAndPayable /\ (issued[k].action = "settle" => open)
           /\ booking.revision = issued[k].revision
  <2>1. booking.status = "held"
    BY <1>6 DEF HeldAndPayable
  <2>2. ASSUME issued[k].action = "settle" PROVE Granted(k)
    BY <1>1, <1>2, <1>4, <1>6, <2>2 DEF Granted
  <2>3. ASSUME issued[k].action = "withdraw" PROVE Granted(k)
    BY <1>1, <1>4, <1>6, <2>1, <2>3 DEF Granted
  <2>4. ASSUME issued[k].action = "cancel" PROVE Granted(k)
    BY <1>1, <1>4, <1>6, <2>4 DEF Granted
  <2>5. Granted(k)
    BY <1>3, <2>2, <2>3, <2>4
  <2> QED
    BY <1>2, <1>5, <2>5 DEF Answered
<1>7. CASE ~(HeldAndPayable /\ (issued[k].action = "settle" => open)
             /\ booking.revision = issued[k].revision)
  <2>1. Refused(k)
    BY <1>1, <1>7 DEF Refused, SoldOut
  <2> QED
    BY <1>2, <1>5, <2>1 DEF Answered
<1> QED
  BY <1>6, <1>7

\* An answer is stored by resolveMatchBooking only.
LEMMA AnswersComeFrom ==
  ASSUME Tables, [MatchNext]_fundingVars
  PROVE  UNCHANGED commands \/ \E k \in Commands : ResolveMatchBooking(k) /\ Answered(k)
<1>1. CASE ActivateMatchHold \/ CourtActions
  BY <1>1
  DEF ActivateMatchHold, CourtActions, ReleaseHeldMatchBooking, ReapExpiredMatchBooking,
      LeaveMatchCheckout, CancelBookingByOwner, ShutdownCancelsBooking, CompleteMatchBooking
<1>2. UNCHANGED venueVars => UNCHANGED commands
  BY DEF venueVars
<1> QED
  BY <1>1, <1>2, OutsideCourt, ResolveAnswers DEF MatchNext, VenueNext, CourtActions

\* The other steps of the court.
CourtMoves ==
  /\ booking'.revision >= booking.revision
  /\ HeldAndPayable' => HeldAndPayable
  /\ booking.status = "cancelled" => booking'.status = "cancelled"
  /\ SoldOut' => \/ SoldOut /\ booking'.winner = booking.winner /\ booking'.revision = booking.revision
                 \/ \E k \in Commands : Answered(k) /\ Granted(k) /\ issued[k].action = "settle"

\* Every step moves the booking on as CourtMoves says.
LEMMA CourtMovesOn ==
  ASSUME Tables, [MatchNext]_fundingVars
  PROVE  CourtMoves
<1>1. phase \in Nat /\ phase' \in Nat /\ phase' >= phase
  BY PhaseMoves, TablesStep DEF MatchPhaseEnds, Tables, CourtTyped
<1>2. booking \in CourtRow /\ booking' \in CourtRow
  BY TablesStep DEF Tables, CourtTyped, CourtRow
<1>3. /\ booking.revision \in Nat /\ booking'.revision \in Nat /\ booking.active \in BOOLEAN
      /\ {"status", "revision", "winner", "active", "by"} \subseteq DOMAIN booking
  BY <1>2 DEF CourtRow
<1>4. CASE booking' = booking
  BY <1>1, <1>3, <1>4 DEF CourtMoves, HeldAndPayable, Unexpired, SoldOut
<1>5. UNCHANGED venueVars => booking' = booking
  BY DEF venueVars
<1>6. CASE ActivateMatchHold
  <2>1. booking' = booking \/ (HeldAndPayable /\ booking' = [booking EXCEPT !.active = TRUE])
    BY <1>6 DEF ActivateMatchHold
  <2>2. CASE HeldAndPayable /\ booking' = [booking EXCEPT !.active = TRUE]
    BY <1>3, <2>2 DEF CourtMoves, SoldOut
  <2> QED
    BY <2>1, <2>2, <1>4
<1>7. CASE \E r \in Reasons : ReleaseHeldMatchBooking(r)
  BY <1>1, <1>3, <1>7 DEF ReleaseHeldMatchBooking, CourtMoves, HeldAndPayable, Unexpired, SoldOut
<1>8. CASE \/ ReapExpiredMatchBooking \/ LeaveMatchCheckout \/ CancelBookingByOwner
           \/ CompleteMatchBooking
  <2>1. /\ booking'.status \in {"cancelled", "deleted", "completed"}
        /\ booking'.revision = booking.revision /\ booking'.winner = booking.winner
        /\ booking'.status = "completed" => booking.status = "confirmed"
        /\ booking.status \in {"held", "confirmed"}
    BY <1>3, <1>8
    DEF ReapExpiredMatchBooking, LeaveMatchCheckout, CancelBookingByOwner, CompleteMatchBooking
  <2> QED
    BY <1>3, <2>1 DEF CourtMoves, HeldAndPayable, SoldOut
<1>9. CASE ShutdownCancelsBooking
  BY <1>3, <1>9 DEF ShutdownCancelsBooking, CourtMoves, HeldAndPayable, SoldOut
<1>10. ASSUME NEW k \in Commands, ResolveMatchBooking(k) PROVE CourtMoves
  <2>1. Answered(k)
    BY <1>10, ResolveAnswers
  <2>2. CASE Refused(k)
    BY <1>4, <2>2 DEF Refused
  <2>3. CASE Granted(k)
    <3>1. booking.status = "held" /\ HeldAndPayable
      BY <2>3 DEF Granted, HeldAndPayable
    <3>2. SoldOut' => issued[k].action = "settle"
      BY <2>3 DEF Granted, SoldOut
    <3>3. booking'.revision >= booking.revision
      BY <1>3, <2>3 DEF Granted
    <3> QED
      BY <2>1, <2>3, <3>1, <3>2, <3>3 DEF CourtMoves
  <2> QED
    BY <2>1, <2>2, <2>3 DEF Answered
<1> QED
  BY <1>4, <1>5, <1>6, <1>7, <1>8, <1>9, <1>10, OutsideCourt DEF MatchNext, VenueNext

\* What matchmaking learns of the revision of the booking, and which attempt
\* its row names.
RevisionMoves ==
  \/ match'.revision = match.revision
  \/ \E k \in DOMAIN commands : match'.revision = Later(match.revision, commands[k].revision)
  \/ \E k \in DOMAIN issued : match'.revision = Later(match.revision, issued[k].revision)

\* The attempt of a row is kept, dropped, or the settlement that is drawn now.
AttemptMoves ==
  match'.attempt \in {match.attempt, None} \/ NewCommand(match'.attempt, "settle", None)

\* What the fields of a row are after it has learned of a revision.
LEMMA MatchFields ==
  ASSUME Tables
  PROVE  /\ {"status", "organizerPaid", "requested", "ended", "attempt", "revision"} \subseteq DOMAIN match
         /\ \A r : /\ AtRevision(match, r).revision = Later(match.revision, r)
                   /\ AtRevision(match, r).attempt = match.attempt
                   /\ {"status", "organizerPaid", "requested", "ended", "attempt", "revision"}
                        \subseteq DOMAIN AtRevision(match, r)
BY DEF Tables, DeskTyped, MatchRow, AtRevision

\* Every step moves the row of the match on as these two say.
LEMMA RowMovesOn ==
  ASSUME Tables, [MatchNext]_fundingVars
  PROVE  RevisionMoves /\ AttemptMoves
<1>1. CASE match' = match
  BY <1>1 DEF RevisionMoves, AttemptMoves
<1> DEFINE Same == match'.revision = match.revision /\ match'.attempt \in {match.attempt, None}
<1>2. Same => RevisionMoves /\ AttemptMoves
  BY DEF RevisionMoves, AttemptMoves
<1>3. UNCHANGED matchVars => match' = match
  BY DEF matchVars
<1>4. ASSUME NEW j \in Joins,
             \/ RequestJoin(j) \/ JoinWindowEnds(j) \/ (\E k \in Commands : WithdrawJoin(j, k))
      PROVE  match' = match
  BY <1>4 DEF RequestJoin, JoinWindowEnds, WithdrawJoin, BeginResolution
<1>5. ASSUME NEW j \in Joins, WithdrawFromPaidBookingMatch(j) PROVE Same
  BY <1>5, MatchFields DEF WithdrawFromPaidBookingMatch
<1>6. ASSUME NEW j \in Joins, HandleJoinPaid(j) PROVE RevisionMoves /\ AttemptMoves
  <2>1. \/ match' = match
        \/ \E s : match' = [match EXCEPT !.status = s]
        \/ \E s : \E k \in Commands :
             /\ match' = [[match EXCEPT !.status = s] EXCEPT !.requested = TRUE, !.attempt = k]
             /\ Fresh(k) /\ Issue(k, "settle", None)
    BY <1>6 DEF HandleJoinPaid
  <2>2. CASE \E s : match' = [match EXCEPT !.status = s]
    BY <2>2, <1>2, MatchFields
  <2>3. CASE \E s : \E k \in Commands :
             /\ match' = [[match EXCEPT !.status = s] EXCEPT !.requested = TRUE, !.attempt = k]
             /\ Fresh(k) /\ Issue(k, "settle", None)
    BY <2>3, MatchFields, IssueIsNew DEF RevisionMoves, AttemptMoves
  <2> QED
    BY <1>1, <2>1, <2>2, <2>3
<1>7. ASSUME NEW k \in Commands, RequestMatchFundingAtCutoff(k) PROVE RevisionMoves /\ AttemptMoves
  BY <1>7, MatchFields, IssueIsNew DEF RequestMatchFundingAtCutoff, RevisionMoves, AttemptMoves
<1>8. ASSUME NEW k, NEW answer, ResolutionApplied(k, answer)
      PROVE  /\ match'.revision \in {match.revision, Later(match.revision, answer.revision)}
             /\ AttemptMoves
  BY <1>8, MatchFields DEF ResolutionApplied, AttemptMoves
<1>9. ASSUME NEW k \in Commands, ApplyMatchBookingResolution(k) PROVE RevisionMoves /\ AttemptMoves
  BY <1>8, <1>9 DEF ApplyMatchBookingResolution, RevisionMoves
<1>10. ASSUME NEW k \in Commands, CancelWithoutBooking(k) PROVE RevisionMoves /\ AttemptMoves
  BY <1>8, <1>10 DEF CancelWithoutBooking, RevisionMoves
<1>11. ASSUME NEW k \in Commands, HandleSettleResolved(k) PROVE RevisionMoves /\ AttemptMoves
  <2>1. k \in DOMAIN commands
    BY <1>11 DEF HandleSettleResolved, Tables, LettersFit
  <2>2. match'.revision \in {match.revision, Later(match.revision, commands[k].revision)}
        /\ match'.attempt \in {match.attempt, None}
    BY <1>11, MatchFields DEF HandleSettleResolved
  <2> QED
    BY <2>1, <2>2 DEF RevisionMoves, AttemptMoves
<1>12. CASE \/ ClosePaidBookingMatchLayer \/ FinalizeConfirmedPolicyCancellation
            \/ CancelExpiredDepositMatch
  BY <1>2, <1>12, MatchFields
  DEF ClosePaidBookingMatchLayer, FinalizeConfirmedPolicyCancellation, CancelExpiredDepositMatch
<1>13. CASE CancelMatchAtCutoff \/ CancelMatchByOrganizer
  BY <1>1, <1>12, <1>13 DEF CancelMatchAtCutoff, CancelMatchByOrganizer, BeginResolution
<1>14. CASE ReleaseExpiredApprovedJoins \/ ActivateMatchHold
  BY <1>1, <1>14 DEF ReleaseExpiredApprovedJoins, ActivateMatchHold
<1>15. CASE HandleDepositPaid \/ HandleBookingCompleted \/ (\E type : HandleFunded(type))
  BY <1>2, <1>15, MatchFields DEF HandleDepositPaid, HandleBookingCompleted, HandleFunded
<1>16. ASSUME NEW was, HandleShutdownBookingCancellation(was) PROVE Same
  BY <1>16, MatchFields DEF HandleShutdownBookingCancellation
<1> QED
  BY <1>1, <1>2, <1>3, <1>4, <1>5, <1>6, <1>7, <1>9, <1>10, <1>11, <1>12, <1>13, <1>14,
     <1>15, <1>16, OutsideDesk
  DEF MatchNext, MatchmakingNext

\* Matchmaking never knows a revision that the booking has not had, and a hold
\* that was revoked is at a later revision than the command that found it.
Revisions ==
  /\ match.revision <= booking.revision
  /\ \A k \in DOMAIN issued : issued[k].revision <= match.revision
  /\ \A k \in DOMAIN commands : commands[k].revision <= booking.revision
  /\ \A k \in DOMAIN commands : commands[k].decision = "held_revoked"
                                  => issued[k].revision < commands[k].revision

\* Revisions can be compared.
LEMMA RevisionsAreNat ==
  ASSUME Tables
  PROVE  /\ match.revision \in Nat /\ booking.revision \in Nat
         /\ \A k \in DOMAIN issued : issued[k].revision \in Nat
         /\ \A k \in DOMAIN commands : k \in DOMAIN issued /\ commands[k].revision \in Nat
BY DEF Tables, DeskTyped, CourtTyped, MatchRow, Command, Answer

\* What is known of the revisions is inductive.
LEMMA RevisionsKept ==
  ASSUME Tables, Revisions, [MatchNext]_fundingVars
  PROVE  Revisions'
<1> DEFINE r == match.revision
           b == booking.revision
<1>1. Tables' /\ CourtMoves /\ RevisionMoves /\ CommandsStay
  BY TablesStep, CourtMovesOn, RowMovesOn, CommandsOnlyGrow
<1>2. /\ r \in Nat /\ b \in Nat /\ r' \in Nat /\ b' \in Nat /\ b' >= b /\ r <= b
      /\ \A k \in DOMAIN issued : issued[k].revision \in Nat /\ issued[k].revision <= r
      /\ \A k \in DOMAIN commands : commands[k].revision \in Nat /\ commands[k].revision <= b
  <2>1. r' \in Nat /\ b' \in Nat
    BY <1>1 DEF Tables, DeskTyped, CourtTyped, MatchRow
  <2> QED
    BY <1>1, <2>1, RevisionsAreNat DEF Revisions, CourtMoves
<1>3. r <= r' /\ r' <= b
  BY <1>1, <1>2 DEF RevisionMoves, Later
<1>4. \A k \in DOMAIN issued' : issued'[k].revision <= r'
  <2>1. \A k \in DOMAIN issued : issued'[k].revision <= r'
    BY <1>1, <1>2, <1>3 DEF CommandsStay
  <2>2. \A k \in DOMAIN issued' \ DOMAIN issued : issued'[k].revision = r
    <3>1. \A k, action, about : NewCommand(k, action, about) =>
            \A c \in DOMAIN issued' \ DOMAIN issued : issued'[c].revision = match.revision
      BY DEF NewCommand
    <3> QED
      BY <3>1, CommandsOnlyGrow
  <2> QED
    BY <1>2, <1>3, <2>1, <2>2
<1>5. \A k \in DOMAIN commands' :
        /\ commands'[k].revision <= b'
        /\ commands'[k].decision = "held_revoked" => issued'[k].revision < commands'[k].revision
  <2>1. ASSUME NEW k \in DOMAIN commands
        PROVE  /\ k \in DOMAIN commands' => commands'[k].revision <= b'
               /\ commands'[k].decision = "held_revoked" => issued'[k].revision < commands'[k].revision
    <3>1. commands'[k] = commands[k] /\ issued'[k] = issued[k]
      BY <1>1, AnswersOnlyGrow, RevisionsAreNat DEF AnswersStay, CommandsStay
    <3>2. commands[k].revision <= b'
      BY <1>2
    <3> QED
      BY <3>1, <3>2 DEF Revisions
  <2>2. ASSUME NEW k \in Commands, Answered(k)
        PROVE  /\ commands'[k].revision <= b'
               /\ commands'[k].decision = "held_revoked" => issued'[k].revision < commands'[k].revision
    <3>1. commands'[k].revision = b' /\ issued'[k] = issued[k] /\ issued[k].revision <= b
          /\ issued[k].revision \in Nat
      BY <1>1, <1>2, <2>2 DEF Answered, CommandsStay
    <3>2. CASE Granted(k)
      BY <1>2, <3>1, <3>2 DEF Granted
    <3>3. CASE Refused(k)
      BY <1>2, <3>1, <3>3 DEF Refused
    <3> QED
      BY <2>2, <3>2, <3>3 DEF Answered
  <2>3. UNCHANGED commands \/ \E k \in Commands : Answered(k)
    BY AnswersComeFrom
  <2>4. \A k \in Commands : Answered(k) => DOMAIN commands' = DOMAIN commands \cup {k}
    BY DEF Answered
  <2> QED
    BY <2>1, <2>2, <2>3, <2>4
<1> QED
  BY <1>2, <1>3, <1>4, <1>5 DEF Revisions

\* An attempt is a settlement that was drawn before the command that names it.
Attempts ==
  /\ match.attempt # None => match.attempt \in Settles
  /\ \A k \in DOMAIN issued : issued[k].attempt # None =>
       /\ issued[k].attempt \in Settles
       /\ issued[issued[k].attempt].revision <= issued[k].revision

\* What is known of the attempts is inductive.
LEMMA AttemptsKept ==
  ASSUME Tables, Revisions, Attempts, [MatchNext]_fundingVars
  PROVE  Attempts'
<1>1. CommandsStay /\ AttemptMoves /\ Settles \subseteq Settles'
      /\ \A k : NewCommand(k, "settle", None) => k \in Settles'
  BY CommandsOnlyGrow, RowMovesOn, SettlesOnlyGrow
<1>2. match'.attempt # None => match'.attempt \in Settles'
  BY <1>1 DEF Attempts, AttemptMoves
<1>3. \A k \in Settles : k \in DOMAIN issued
  BY DEF Settles
<1>4. ASSUME NEW k \in DOMAIN issued, issued'[k].attempt # None
      PROVE  /\ issued'[k].attempt \in Settles'
             /\ issued'[issued'[k].attempt].revision <= issued'[k].revision
  <2>1. issued'[k] = issued[k] /\ issued[k].attempt \in Settles
        /\ issued[issued[k].attempt].revision <= issued[k].revision
    BY <1>1, <1>4 DEF CommandsStay, Attempts
  <2>2. issued'[issued[k].attempt] = issued[issued[k].attempt]
    BY <1>1, <1>3, <2>1 DEF CommandsStay
  <2> QED
    BY <1>1, <2>1, <2>2
<1>5. ASSUME NEW k, NEW action, NEW about, NewCommand(k, action, about), issued'[k].attempt # None,
             action = "settle" => about = None
      PROVE  /\ issued'[k].attempt \in Settles'
             /\ issued'[issued'[k].attempt].revision <= issued'[k].revision
  <2>1. match.revision \in Nat
    BY RevisionsAreNat
  <2>2. CASE action = "settle"
    <3>1. issued'[k].attempt = k /\ issued'[k].revision = match.revision
      BY <1>5, <2>2 DEF NewCommand
    <3>2. k \in Settles'
      BY <1>1, <1>5, <2>2
    <3> QED
      BY <2>1, <3>1, <3>2
  <2>3. CASE action # "settle"
    <3>1. issued'[k].attempt = match.attempt /\ issued'[k].revision = match.revision
      BY <1>5, <2>3 DEF NewCommand
    <3>2. match.attempt \in Settles /\ match.attempt \in DOMAIN issued
      BY <1>3, <1>5, <3>1 DEF Attempts
    <3>3. issued'[match.attempt] = issued[match.attempt]
      BY <1>1, <3>2 DEF CommandsStay
    <3>4. issued[match.attempt].revision <= match.revision
      BY <3>2 DEF Revisions
    <3> QED
      BY <1>1, <3>1, <3>2, <3>3, <3>4
  <2> QED
    BY <2>2, <2>3
<1>6. ASSUME NEW k \in DOMAIN issued' \ DOMAIN issued
      PROVE  \E action, about : NewCommand(k, action, about) /\ (action = "settle" => about = None)
  <2>1. \A c, action, about : NewCommand(c, action, about) => DOMAIN issued' = DOMAIN issued \cup {c}
    BY DEF NewCommand
  <2>2. \E c, action, about : NewCommand(c, action, about) /\ (action = "settle" => about = None)
    <3>1. \/ \E c \in Commands : NewCommand(c, "settle", None)
          \/ \E c \in Commands, j \in Joins : NewCommand(c, "withdraw", j)
          \/ \E c \in Commands : NewCommand(c, "cancel", "cutoff")
          \/ \E c \in Commands : NewCommand(c, "cancel", "organizer")
      BY <1>6, CommandsOnlyGrow
    <3>2. "withdraw" # "settle" /\ "cancel" # "settle"
      OBVIOUS
    <3> QED
      BY <3>1, <3>2, Zenon
  <2>3. PICK c, action, about : NewCommand(c, action, about) /\ (action = "settle" => about = None)
    BY <2>2
  <2>4. k = c
    BY <1>6, <2>1, <2>3
  <2> QED
    BY <2>3, <2>4
<1>7. \A k \in DOMAIN issued' : issued'[k].attempt # None =>
       /\ issued'[k].attempt \in Settles'
       /\ issued'[issued'[k].attempt].revision <= issued'[k].revision
  BY <1>4, <1>5, <1>6
<1> QED
  BY <1>2, <1>7 DEF Attempts

\* No settlement is drawn, and none can be any more.
Vacated ==
  Settles = {} /\ match.status \notin {"awaiting_deposit", "open", "filled"} /\ NoneApproved

\* The settlement k will not be granted, or has not been.
Late(k) == IF k \in DOMAIN commands THEN commands[k].decision # "confirmed"
           ELSE issued[k].revision < booking.revision

\* The court can no longer be sold to the match: its hold is gone, no settlement
\* can be drawn any more, or the one that was drawn comes too late for the fence.
NeverSold == ~SoldOut /\ (~HeldAndPayable \/ Vacated \/ \E k \in Settles : Late(k))

\* Once the court can no longer be sold, no settlement is granted.
LEMMA NeverGranted ==
  ASSUME Tables, Sealed, NeverSold, NEW k \in Commands, Answered(k), Granted(k),
         issued[k].action = "settle"
  PROVE  FALSE
<1>1. k \in Settles /\ k \notin DOMAIN commands
  BY DEF Answered, Settles
<1>2. HeldAndPayable /\ booking.revision = issued[k].revision
  BY DEF Granted
<1>3. Late(k)
  BY <1>1, <1>2 DEF NeverSold, Vacated, Sealed
<1> QED
  BY <1>1, <1>2, <1>3, RevisionsAreNat DEF Late, Answered

\* A court that can no longer be sold remains so.
LEMMA NeverSoldStays ==
  ASSUME FundingInv, Tables, DeskRules, Bought, NeverSold, [MatchNext]_fundingVars
  PROVE  NeverSold'
<1>1. CourtMoves /\ CommandsStay /\ AnswersStay /\ Settles \subseteq Settles'
  BY CourtMovesOn, CommandsOnlyGrow, AnswersOnlyGrow, SettlesOnlyGrow
<1>2. ~SoldOut'
  BY <1>1, NeverGranted DEF CourtMoves, NeverSold, DeskRules
<1>3. ~HeldAndPayable => ~HeldAndPayable'
  BY <1>1 DEF CourtMoves
<1>4. ASSUME Vacated PROVE Vacated'
  <2>1. CASE QuietMoves
    BY <1>4, <2>1 DEF QuietMoves, RowMoves, JoinsLeave, Vacated, NoneApproved
  <2>2. ~ \E j \in Joins : RequestJoin(j)
    BY <1>4 DEF Vacated, RequestJoin
  <2>3. ~ \E k \in Commands : RequestMatchFundingAtCutoff(k)
    BY <1>4 DEF Vacated, RequestMatchFundingAtCutoff, FundingReady
  <2>4. ASSUME NEW j \in Joins, HandleJoinPaid(j) PROVE Vacated'
    <3>1. joins[j] # "approved"
      BY <1>4 DEF Vacated, NoneApproved
    <3>2. UNCHANGED <<match, issued>> /\ joins' = [joins EXCEPT ![j] = joins[j]]
      BY <2>4, <3>1 DEF HandleJoinPaid
    <3>3. joins' = joins
      BY <3>2 DEF FundingInv, Shapes
    <3> QED
      BY <1>4, <3>2, <3>3 DEF Vacated, NoneApproved, Settles
  <2> QED
    BY <2>1, <2>2, <2>3, <2>4, StepIsQuiet
<1>5. ASSUME NEW k \in Settles, Late(k) PROVE Late(k)'
  <2>1. k \in DOMAIN issued /\ issued'[k] = issued[k]
    BY <1>1 DEF CommandsStay, Settles
  <2>2. CASE k \in DOMAIN commands
    BY <1>1, <1>5, <2>2 DEF AnswersStay, Late
  <2>3. CASE k \notin DOMAIN commands'
    <3>1. k \notin DOMAIN commands
      BY <1>1, <2>3 DEF AnswersStay
    <3>2. issued[k].revision < booking.revision /\ booking'.revision >= booking.revision
      BY <1>1, <1>5, <3>1 DEF Late, CourtMoves
    <3>3. booking'.revision \in Nat /\ booking.revision \in Nat /\ issued[k].revision \in Nat
      BY <2>1, TablesStep, RevisionsAreNat DEF Tables, CourtTyped
    <3> QED
      BY <2>1, <2>3, <3>2, <3>3 DEF Late
  <2>4. CASE k \notin DOMAIN commands /\ k \in DOMAIN commands'
    <3>1. PICK c \in Commands : Answered(c)
      BY <2>4, AnswersComeFrom
    <3>2. Answered(k)
      BY <2>4, <3>1 DEF Answered
    <3>3. issued[k].revision < booking.revision
      BY <1>5, <2>4 DEF Late
    <3>4. ~Granted(k)
      BY <2>1, <3>3, RevisionsAreNat DEF Granted
    <3>5. commands'[k].decision # "confirmed"
      BY <3>2, <3>4 DEF Answered, Refused, NeverSold
    <3> QED
      BY <2>4, <3>5 DEF Late
  <2> QED
    BY <2>2, <2>3, <2>4
<1>6. (\E k \in Settles : Late(k)) => \E k \in Settles' : Late(k)'
  BY <1>1, <1>5
<1> QED
  BY <1>2, <1>3, <1>4, <1>6 DEF NeverSold

\* What tells finance, or matchmaking, that the court is gone is true for good.
Cancels ==
  source = "hold" =>
    /\ \A k \in DOMAIN commands : commands[k].decision = "cancelled" => NeverSold
    /\ Event("finance", "MatchCancelled", "other") \in mail => NeverSold
    /\ Event("matchmaking", "ShutdownBookingCancellationRequested", "held") \in mail => NeverSold
    /\ deposit = "too_late" => NeverSold

\* The step does not tell finance of a cancellation by venue.
NoOther == Event("finance", "MatchCancelled", "other") \in mail'
             => Event("finance", "MatchCancelled", "other") \in mail

\* Finance, venue and the clock never tell finance of one.
LEMMA OutsideNoOther ==
  ASSUME \/ FinanceNext \/ VenueNext \/ (\E e \in mail : GiveUp(e)) \/ MatchPhaseEnds
         \/ FinalizeResult \/ (\E k \in Commands : HandleCommandResolved(k))
         \/ UNCHANGED fundingVars
  PROVE  NoOther
<1>2. CASE mail' \subseteq mail
  BY <1>2 DEF NoOther
<1>3. ASSUME NEW k \in Commands, HandleMatchConfirmed(k) \/ HandleMatchSettlementRequested(k)
                                 \/ HandleMatchBookingResolved(k)
      PROVE  NoOther
  <2>1. mail' \subseteq mail \cup {Event("matchmaking", "MatchFundingCompleted", None),
               Event("finance", "MatchSettlementRequested", k), Event("venue", "Settle", k)}
    BY <1>3 DEF HandleMatchConfirmed, HandleMatchSettlementRequested, HandleMatchBookingResolved,
                Handled, HandledAndPost
  <2> QED
    BY <2>1, EventEq DEF NoOther
<1>4. ASSUME NEW p \in Payers, CommitPayment(p) PROVE NoOther
  BY <1>4, EventEq DEF CommitPayment, Post, NoOther
<1>5. ASSUME \/ HandleMatchCreated
             \/ (\E j \in Joins : HandleJoinApproved(j) \/ HandleMatchFeeRefundRequested(j))
             \/ (\E p \in Payers : StartPayment(p))
             \/ (\E r \in Reasons : HandleMatchCancelled(r))
             \/ HandleMatchBookingCancelled \/ HandleMatchResultFinalized
      PROVE  mail' \subseteq mail
  BY <1>5
  DEF HandleMatchCreated, HandleJoinApproved, HandleMatchFeeRefundRequested,
      StartPayment, HandleMatchCancelled,
      HandleMatchBookingCancelled, HandleMatchResultFinalized, Handled
<1>6. CASE FinanceNext
  BY <1>2, <1>3, <1>4, <1>5, <1>6 DEF FinanceNext
<1>7. ASSUME NEW k \in Commands, ResolveMatchBooking(k) PROVE NoOther
  <2>1. mail' \subseteq mail \cup {Event("finance", "MatchBookingResolved", k),
                                   Event("matchmaking", "MatchBookingResolved", k),
                                   Event("matchmaking", "BookingConfirmed", None)}
    BY <1>7 DEF ResolveMatchBooking, HandledAndPost
  <2> QED
    BY <2>1, EventEq DEF NoOther
<1>8. CASE CourtActions
  <2>1. mail' \subseteq mail \cup {Event("finance", "BookingCancelled", None),
               Event("matchmaking", "BookingCompleted", None),
               Event("matchmaking", "ShutdownBookingCancellationRequested", booking.status)}
    BY <1>8 DEF CourtActions, ReleaseHeldMatchBooking, ReapExpiredMatchBooking, LeaveMatchCheckout,
                CancelBookingByOwner, ShutdownCancelsBooking, CompleteMatchBooking, Post, Handled
  <2> QED
    BY <2>1, EventEq DEF NoOther
<1>9. CASE FinalizeResult
  BY <1>9, EventEq DEF FinalizeResult, Post, NoOther
<1>10. ASSUME (\E e \in mail : GiveUp(e)) \/ MatchPhaseEnds \/ UNCHANGED fundingVars
             \/ (\E k \in Commands : HandleCommandResolved(k))
       PROVE  mail' \subseteq mail
  BY <1>10 DEF GiveUp, MatchPhaseEnds, fundingVars, Handled, HandleCommandResolved
<1> QED
  BY <1>2, <1>6, <1>7, <1>8, <1>9, <1>10 DEF VenueNext, CourtActions

\* Matchmaking does so only when the court can no longer be sold.
LEMMA OtherIsTrue ==
  ASSUME FundingInv, Tables, DeskRules, Bought, Cancels, source = "hold", [MatchNext]_fundingVars
  PROVE  NoOther \/ NeverSold \/ NeverSold'
<1>2. CASE mail' \subseteq mail
  BY <1>2 DEF NoOther
<1>3. ASSUME NEW j \in Joins,
             \/ RequestJoin(j) \/ JoinWindowEnds(j) \/ WithdrawFromPaidBookingMatch(j)
             \/ HandleJoinPaid(j) \/ (\E k \in Commands : WithdrawJoin(j, k))
      PROVE  NoOther
  <2>1. \/ mail' \subseteq mail \cup {Event("finance", "JoinApproved", j),
                                      Event("finance", "MatchFeeRefundRequested", j)}
        \/ \E k : mail' \subseteq mail \cup {Event("finance", "MatchConfirmed", k)}
    BY <1>3 DEF RequestJoin, JoinWindowEnds, WithdrawFromPaidBookingMatch, HandleJoinPaid,
                WithdrawJoin, BeginResolution, Post, Handled, HandledAndPost
  <2> QED
    BY <2>1, EventEq DEF NoOther
<1>4. ASSUME NEW k \in Commands, RequestMatchFundingAtCutoff(k) PROVE NoOther
  BY <1>4, EventEq DEF RequestMatchFundingAtCutoff, Post, NoOther
<1>5. ASSUME NEW k, NEW answer, ResolutionApplied(k, answer), answer.decision # "cancelled"
      PROVE  NoOther
  <2>1. mail' \subseteq mail \cup {Event("finance", "MatchFeeRefundRequested", issued[k].about)}
    BY <1>5 DEF ResolutionApplied, Post
  <2> QED
    BY <2>1, EventEq DEF NoOther
<1>6. ASSUME NEW k \in Commands, ApplyMatchBookingResolution(k) PROVE NoOther \/ NeverSold
  BY <1>5, <1>6 DEF ApplyMatchBookingResolution, Cancels
<1>7. ASSUME NEW k \in Commands, CancelWithoutBooking(k) PROVE NeverSold
  BY <1>7 DEF CancelWithoutBooking, NeverSold, SoldOut, HeldAndPayable
<1>8. ASSUME NEW k \in Commands, HandleSettleResolved(k) PROVE NoOther \/ NeverSold
  <2>1. k \in DOMAIN commands
    BY <1>8 DEF HandleSettleResolved, Tables, LettersFit
  <2>2. commands[k].decision = "cancelled" \/ mail' \subseteq mail
    BY <1>8 DEF HandleSettleResolved, Handled
  <2>3. commands[k].decision = "cancelled" => NeverSold
    BY <2>1 DEF Cancels
  <2> QED
    BY <2>2, <2>3 DEF NoOther
<1>9. CASE FinalizeConfirmedPolicyCancellation
  <2>1. mail' \subseteq mail \cup MatchCancelled("confirmed_booking_policy")
    BY <1>9 DEF FinalizeConfirmedPolicyCancellation, Post
  <2> QED
    BY <2>1, EventEq DEF NoOther, MatchCancelled
<1>10. CASE CancelMatchAtCutoff \/ CancelMatchByOrganizer
  <2>1. mail' \subseteq mail
    BY <1>10 DEF CancelMatchAtCutoff, CancelMatchByOrganizer, ClosePaidBookingMatchLayer,
                 BeginResolution
  <2> QED
    BY <1>2, <2>1
<1>11. CASE CancelExpiredDepositMatch
  <2>1. Settles = {} /\ NoneApproved
    BY <1>11 DEF CancelExpiredDepositMatch, DeskRules, Sealed, Deposits, NoneApproved
  <2>2. ~SoldOut
    BY <2>1 DEF Bought, SoldOut
  <2>3. UNCHANGED <<issued, joins, booking>> /\ match'.status = "cancelled"
    BY <1>11, MatchFields DEF CancelExpiredDepositMatch, venueVars
  <2>4. ~SoldOut' /\ Vacated'
    BY <2>1, <2>2, <2>3 DEF SoldOut, Vacated, NoneApproved, Settles
  <2> QED
    BY <2>4 DEF NeverSold
<1>12. CASE \/ ReleaseExpiredApprovedJoins \/ ActivateMatchHold \/ HandleBookingCompleted
            \/ (\E type : HandleFunded(type))
  <2>1. mail' \subseteq mail
    BY <1>12 DEF ReleaseExpiredApprovedJoins, ActivateMatchHold, HandleBookingCompleted,
                 HandleFunded, Handled
  <2> QED
    BY <1>2, <2>1
<1>13. CASE HandleDepositPaid
  <2>1. deposit = "too_late" \/ mail' \subseteq mail
    BY <1>13 DEF HandleDepositPaid, Handled
  <2> QED
    BY <1>2, <2>1 DEF Cancels
<1>14. ASSUME NEW was \in {"held", "confirmed"}, HandleShutdownBookingCancellation(was)
       PROVE  NoOther \/ NeverSold
  <2>1. CASE was = "held"
    BY <1>14, <2>1 DEF HandleShutdownBookingCancellation, Cancels
  <2>2. CASE was = "confirmed"
    <3>1. mail' \subseteq mail \cup MatchCancelled("confirmed_booking_policy")
      BY <1>14, <2>2 DEF HandleShutdownBookingCancellation, HandledAndPost
    <3> QED
      BY <3>1, EventEq DEF NoOther, MatchCancelled
  <2> QED
    BY <2>1, <2>2
<1> QED
  BY <1>3, <1>4, <1>6, <1>7, <1>8, <1>9, <1>10, <1>11, <1>12, <1>13, <1>14, OutsideNoOther
  DEF MatchNext, MatchmakingNext

\* The truth of what the other services are told is inductive.
LEMMA CancelsKept ==
  ASSUME FundingInv, Tables, DeskRules, Bought, Cancels, [MatchNext]_fundingVars
  PROVE  Cancels'
<1> SUFFICES ASSUME source = "hold", ~NeverSold'
             PROVE  /\ \A k \in DOMAIN commands' : commands'[k].decision # "cancelled"
                    /\ Event("finance", "MatchCancelled", "other") \notin mail'
                    /\ Event("matchmaking", "ShutdownBookingCancellationRequested", "held") \notin mail'
                    /\ deposit' # "too_late"
  <2>1. source' = source
    BY PhaseMoves
  <2>2. Event("finance", "MatchCancelled", "other")' = Event("finance", "MatchCancelled", "other")
        /\ Event("matchmaking", "ShutdownBookingCancellationRequested", "held")'
             = Event("matchmaking", "ShutdownBookingCancellationRequested", "held")
    BY DEF Event
  <2> QED
    BY <2>1, <2>2 DEF Cancels
<1>1. ~NeverSold
  BY NeverSoldStays
<1>2. ASSUME booking'.status = "cancelled" PROVE FALSE
  BY <1>2 DEF NeverSold, SoldOut, HeldAndPayable
<1>3. \A k \in DOMAIN commands' : commands'[k].decision # "cancelled"
  <2>1. CASE UNCHANGED commands
    BY <1>1, <2>1 DEF Cancels
  <2>2. ASSUME NEW k \in Commands, Answered(k), NEW c \in DOMAIN commands',
               commands'[c].decision = "cancelled"
        PROVE  FALSE
    <3>1. c = k
      BY <1>1, <2>2 DEF Answered, Cancels
    <3>2. ~Granted(k)
      BY <1>2, <2>2, <3>1 DEF Granted
    <3>3. booking' = booking /\ ~SoldOut /\ (~HeldAndPayable \/ issued[k].action = "settle")
      BY <2>2, <3>1, <3>2 DEF Answered, Refused
    <3>4. issued[k].action = "settle" /\ k \in DOMAIN issued
      BY <1>1, <2>2, <3>3 DEF NeverSold, Answered
    <3>5. k \in Settles'
      BY <3>4, SettlesOnlyGrow DEF Settles
    <3>6. Late(k)'
      BY <2>2, <3>1 DEF Late
    <3>7. ~SoldOut'
      BY <3>3 DEF SoldOut
    <3> QED
      BY <3>5, <3>6, <3>7 DEF NeverSold
  <2> QED
    BY <2>1, <2>2, AnswersComeFrom
<1>4. Event("finance", "MatchCancelled", "other") \notin mail'
  BY <1>1, OtherIsTrue DEF NoOther, Cancels
<1>5. Event("matchmaking", "ShutdownBookingCancellationRequested", "held") \notin mail'
  BY <1>1, <1>2, LettersComeFrom DEF NewLetters, Cancels, Tables
<1>6. deposit' # "too_late"
  <2> SUFFICES ASSUME deposit' = "too_late" PROVE FALSE
    OBVIOUS
  <2>1. deposit # "too_late"
    BY <1>1 DEF Cancels
  <2>2. DepositMoves
    <3>1. ASSUME NEW j \in Joins, RequestJoin(j) \/ HandleJoinPaid(j) PROVE deposit' = deposit
      BY <3>1 DEF RequestJoin, HandleJoinPaid
    <3>2. ASSUME NEW k \in Commands, RequestMatchFundingAtCutoff(k) PROVE deposit' = deposit
      BY <3>2 DEF RequestMatchFundingAtCutoff
    <3> QED
      BY <3>1, <3>2, StepIsQuiet DEF QuietMoves, DepositMoves
  <2>3. match.status = "awaiting_deposit" /\ ~HeldAndPayable
    BY <2>1, <2>2 DEF DepositMoves
  <2>4. Settles = {}
    BY <2>3 DEF DeskRules, Sealed
  <2>5. ~SoldOut
    BY <2>4 DEF Bought, SoldOut
  <2> QED
    BY <1>1, <2>3, <2>5 DEF NeverSold
<1> QED
  BY <1>3, <1>4, <1>5, <1>6

\* The cancellation that finance is told of has happened at venue.
CourtGone ==
  Event("finance", "BookingCancelled", None) \in mail => booking.status = "cancelled"

\* A cancellation that finance hears of remains one.
LEMMA CourtGoneKept ==
  ASSUME Tables, CourtGone, [MatchNext]_fundingVars
  PROVE  CourtGone'
<1>1. NewLetters /\ CourtMoves
  BY LettersComeFrom, CourtMovesOn DEF Tables
<1>2. Event("finance", "BookingCancelled", None)' = Event("finance", "BookingCancelled", None)
  BY DEF Event
<1> QED
  BY <1>1, <1>2 DEF CourtGone, NewLetters, CourtMoves

\* A court that is sold is sold to the settlement, at the revision that follows
\* its own, before any answer that it is cancelled and after every answer that
\* its hold was revoked.
Sold ==
  source = "hold" /\ SoldOut =>
    LET k == booking.winner IN
    /\ k \in Settles /\ k \in DOMAIN commands
    /\ commands[k].decision = "confirmed" /\ commands[k].winner = k
    /\ \A c \in DOMAIN commands :
         /\ commands[c].decision # "cancelled"
         /\ commands[c].decision = "held_revoked" => commands[c].revision <= issued[k].revision

\* What is known of the sale is inductive.
LEMMA SoldKept ==
  ASSUME FundingInv, Tables, DeskRules, Revisions, Cancels, Sold, [MatchNext]_fundingVars
  PROVE  Sold'
<1>1. CourtMoves /\ CommandsStay /\ AnswersStay /\ Settles \subseteq Settles' /\ source' = source
  BY CourtMovesOn, CommandsOnlyGrow, AnswersOnlyGrow, SettlesOnlyGrow, PhaseMoves
<1>2. \A k \in Settles : k \in DOMAIN issued
  BY DEF Settles
<1> SUFFICES ASSUME source = "hold", SoldOut'
             PROVE  \E k : /\ booking'.winner = k /\ k \in Settles' /\ k \in DOMAIN commands'
                           /\ commands'[k].decision = "confirmed" /\ commands'[k].winner = k
                           /\ \A c \in DOMAIN commands' :
                                /\ commands'[c].decision # "cancelled"
                                /\ commands'[c].decision = "held_revoked"
                                     => commands'[c].revision <= issued'[k].revision
  BY <1>1 DEF Sold
<1>3. CASE SoldOut /\ booking'.winner = booking.winner
  <2>1. PICK k : /\ booking.winner = k /\ k \in Settles /\ k \in DOMAIN commands
                 /\ commands[k].decision = "confirmed" /\ commands[k].winner = k
                 /\ \A c \in DOMAIN commands :
                      /\ commands[c].decision # "cancelled"
                      /\ commands[c].decision = "held_revoked"
                           => commands[c].revision <= issued[k].revision
    BY <1>3 DEF Sold
  <2>2. booking'.winner = k /\ k \in Settles' /\ k \in DOMAIN commands'
        /\ commands'[k] = commands[k] /\ issued'[k] = issued[k]
    BY <1>1, <1>2, <1>3, <2>1 DEF AnswersStay, CommandsStay
  <2>3. ASSUME NEW c \in DOMAIN commands'
        PROVE  /\ commands'[c].decision # "cancelled"
               /\ commands'[c].decision = "held_revoked" => commands'[c].revision <= issued[k].revision
    <3>1. CASE c \in DOMAIN commands
      BY <1>1, <2>1, <3>1 DEF AnswersStay
    <3>2. CASE c \notin DOMAIN commands
      <4>1. PICK d \in Commands : Answered(d)
        BY <2>3, <3>2, AnswersComeFrom
      <4>2. Answered(c)
        BY <2>3, <3>2, <4>1 DEF Answered
      <4>3. ~Granted(c)
        BY <1>3 DEF Granted, HeldAndPayable, SoldOut
      <4> QED
        BY <1>3, <4>2, <4>3 DEF Answered, Refused
    <3> QED
      BY <3>1, <3>2
  <2> QED
    BY <2>1, <2>2, <2>3
<1>4. ASSUME NEW k \in Commands, Answered(k), Granted(k), issued[k].action = "settle"
      PROVE  \E w : /\ booking'.winner = w /\ w \in Settles' /\ w \in DOMAIN commands'
                    /\ commands'[w].decision = "confirmed" /\ commands'[w].winner = w
                    /\ \A c \in DOMAIN commands' :
                         /\ commands'[c].decision # "cancelled"
                         /\ commands'[c].decision = "held_revoked"
                              => commands'[c].revision <= issued'[w].revision
  <2>1. ~NeverSold
    BY <1>4, NeverGranted DEF DeskRules
  <2>2. booking'.winner = k /\ k \in Settles /\ k \in Settles' /\ k \in DOMAIN commands'
        /\ commands'[k].decision = "confirmed" /\ commands'[k].winner = k
    BY <1>1, <1>4 DEF Answered, Granted, Settles
  <2>3. issued'[k] = issued[k] /\ booking.revision = issued[k].revision
    BY <1>1, <1>2, <1>4, <2>2 DEF CommandsStay, Granted
  <2>4. ASSUME NEW c \in DOMAIN commands', commands'[c].decision # "confirmed"
        PROVE  commands'[c].decision # "cancelled" /\ commands'[c].revision <= issued'[k].revision
    <3>1. c \in DOMAIN commands /\ commands'[c] = commands[c]
      BY <1>4, <2>2, <2>4 DEF Answered
    <3> QED
      BY <2>1, <2>3, <3>1 DEF Cancels, Revisions
  <2> QED
    BY <2>2, <2>4
<1> QED
  BY <1>1, <1>3, <1>4 DEF CourtMoves

\* How finance leaves the attempt that it is settling.
LEMMA AttemptEnds ==
  ASSUME FundingInv, Tables, DeskRules, Cancels, source = "hold", ~NeverSold,
         NEW k \in Settles, CurrentAttempt(k), FinanceNext
  PROVE  \/ CurrentAttempt(k)'
         \/ funding'.status = "settled" /\ k \in DOMAIN commands
         \/ \E c \in DOMAIN commands : /\ commands[c].decision = "held_revoked"
                                       /\ issued[c].attempt = k
<1>1. funding.status = "settling" /\ funding.attempt = k
  BY DEF CurrentAttempt
<1>2. IsRow(funding)
  BY DEF FundingInv, Shapes
<1>3. funding' = funding => CurrentAttempt(k)'
  BY DEF CurrentAttempt
<1>4. ~HandleMatchCreated /\ ~HandleMatchBookingCancelled
  BY <1>1 DEF HandleMatchCreated, HandleMatchBookingCancelled, FundingInv, MailFits, Created
<1>5. ASSUME \/ (\E j \in Joins : HandleJoinApproved(j) \/ HandleMatchFeeRefundRequested(j))
             \/ (\E p \in Payers : StartPayment(p) \/ CommitPayment(p))
             \/ (\E c \in Commands : HandleMatchSettlementRequested(c))
             \/ HandleMatchResultFinalized
      PROVE  funding' = funding
  BY <1>1, <1>5 DEF HandleJoinApproved, HandleMatchFeeRefundRequested, StartPayment, CommitPayment,
                    HandleMatchSettlementRequested, HandleMatchResultFinalized, financeVars
<1>6. ASSUME NEW c \in Commands, HandleMatchConfirmed(c) PROVE CurrentAttempt(k)'
  <2>1. c = k
    BY <1>6 DEF HandleMatchConfirmed, Tables, LettersFit, DeskRules, Sealed
  <2>2. \/ funding' = funding
        \/ \E r : funding' = [funding EXCEPT !.status = "settling", !.attempt = k, !.revision = r]
    BY <1>6, <2>1 DEF HandleMatchConfirmed
  <2> QED
    BY <1>2, <1>3, <2>2 DEF CurrentAttempt, IsRow, Columns
<1>7. ASSUME NEW r \in Reasons, HandleMatchCancelled(r) PROVE FALSE
  <2>1. r # "confirmed_booking_policy" /\ Event("finance", "MatchCancelled", r) \in mail
    BY <1>1, <1>7 DEF HandleMatchCancelled
  <2>2. r = "other"
    BY <2>1 DEF Reasons
  <2> QED
    BY <2>1, <2>2 DEF Cancels
<1>8. ASSUME NEW c \in Commands, HandleMatchBookingResolved(c)
      PROVE  \/ CurrentAttempt(k)'
             \/ funding'.status = "settled" /\ k \in DOMAIN commands
             \/ /\ c \in DOMAIN commands /\ commands[c].decision = "held_revoked"
                /\ issued[c].attempt = k
  <2>1. c \in DOMAIN commands
    BY <1>8 DEF HandleMatchBookingResolved, Tables, LettersFit
  <2>2. commands[c].decision # "cancelled"
    BY <2>1 DEF Cancels
  <2>3. VenueConfirmed(c) => c = k
    BY <1>1 DEF VenueConfirmed, CurrentAttempt
  <2>4. \/ /\ VenueConfirmed(c)
           /\ \E r : funding' = [FundingSettled(funding) EXCEPT !.revision = r]
        \/ commands[c].decision = "held_revoked" /\ funding.attempt = issued[c].attempt
        \/ funding' = funding
    BY <1>8, <2>2 DEF HandleMatchBookingResolved
  <2>5. (\E r : funding' = [FundingSettled(funding) EXCEPT !.revision = r])
          => funding'.status = "settled"
    BY <1>2 DEF FundingSettled, IsRow, Columns
  <2> QED
    BY <1>1, <1>3, <2>1, <2>3, <2>4, <2>5
<1> QED
  BY <1>3, <1>4, <1>5, <1>6, <1>7, <1>8 DEF FinanceNext

\* An attempt whose hold was revoked is behind the booking.
LEMMA RevokedIsBehind ==
  ASSUME Tables, Revisions, Attempts, NEW k \in Settles, k # None, NEW c \in DOMAIN commands,
         commands[c].decision = "held_revoked", issued[c].attempt = k
  PROVE  issued[k].revision < commands[c].revision /\ issued[k].revision < booking.revision
<1>1. c \in DOMAIN issued /\ k \in DOMAIN issued
  BY RevisionsAreNat DEF Settles
<1>2. issued[k].revision <= issued[c].revision
  BY <1>1 DEF Attempts
<1>3. issued[c].revision < commands[c].revision /\ commands[c].revision <= booking.revision
  BY DEF Revisions
<1> QED
  BY <1>1, <1>2, <1>3, RevisionsAreNat

\* The command that is on its way to venue is the attempt that finance waits
\* for, unless it can no longer win.
OnTheWay ==
  source = "hold" =>
    \A k : Event("venue", "Settle", k) \in mail /\ k \notin DOMAIN commands
             => NeverSold \/ CurrentAttempt(k)

\* Finance waits for the settlement that is on its way, step by step.
LEMMA OnTheWayKept ==
  ASSUME FundingInv, Tables, DeskRules, Bought, Revisions, Attempts, Cancels, Sold, OnTheWay,
         [MatchNext]_fundingVars
  PROVE  OnTheWay'
<1> SUFFICES ASSUME source = "hold", NEW k, Event("venue", "Settle", k) \in mail',
                    k \notin DOMAIN commands', ~NeverSold'
             PROVE  CurrentAttempt(k)'
  <2>1. source' = source
    BY PhaseMoves
  <2>2. \A k : Event("venue", "Settle", k)' = Event("venue", "Settle", k)
    BY DEF Event
  <2> QED
    BY <2>1, <2>2 DEF OnTheWay
<1>1. ~NeverSold /\ k \notin DOMAIN commands
  BY NeverSoldStays, AnswersOnlyGrow DEF AnswersStay
<1>2. CASE CurrentAttempt(k) /\ UNCHANGED funding
  BY <1>2 DEF CurrentAttempt
<1>3. CASE Event("venue", "Settle", k) \in mail
  <2>1. k \in Settles /\ CurrentAttempt(k)
    BY <1>1, <1>3 DEF Tables, LettersFit, OnTheWay
  <2>2. CASE ~FinanceNext
    <3>1. UNCHANGED funding
      BY <2>2, OutsideFinance DEF MatchNext, financeVars
    <3> QED
      BY <1>2, <2>1, <3>1
  <2>3. CASE FinanceNext
    <3>1. ASSUME NEW c \in DOMAIN commands, commands[c].decision = "held_revoked",
                 issued[c].attempt = k
          PROVE  FALSE
      <4>1. k # None
        BY <2>1, FundingAssumption DEF Settles, Tables, DeskTyped
      <4>2. issued[k].revision < booking.revision
        BY <2>1, <3>1, <4>1, RevokedIsBehind
      <4>3. Late(k)
        BY <1>1, <4>2 DEF Late
      <4>4. ~SoldOut
        BY <1>1, <2>1 DEF Sold, DeskRules, Sealed
      <4> QED
        BY <1>1, <2>1, <4>3, <4>4 DEF NeverSold
    <3> QED
      BY <1>1, <2>1, <2>3, <3>1, AttemptEnds
  <2> QED
    BY <2>2, <2>3
<1> QED
  BY <1>2, <1>3, LettersComeFrom DEF NewLetters, Tables

\* What is settled stays so unless the booking is cancelled.
LEMMA SettledStays ==
  ASSUME FundingInv, FinanceNext, funding.status = "settled",
         Event("finance", "BookingCancelled", None) \notin mail
  PROVE  funding'.status = "settled"
<1>1. IsRow(funding)
  BY DEF FundingInv, Shapes
<1>2. ~HandleMatchCreated /\ ~HandleMatchBookingCancelled
  BY DEF HandleMatchCreated, HandleMatchBookingCancelled, FundingInv, MailFits, Created
<1>3. ASSUME \/ (\E j \in Joins : HandleJoinApproved(j) \/ HandleMatchFeeRefundRequested(j))
             \/ (\E p \in Payers : StartPayment(p) \/ CommitPayment(p))
             \/ (\E c \in Commands : HandleMatchSettlementRequested(c) \/ HandleMatchConfirmed(c))
             \/ (\E r \in Reasons : HandleMatchCancelled(r))
             \/ (\E c \in Commands : HandleMatchBookingResolved(c))
      PROVE  funding' = funding
  BY <1>3 DEF HandleJoinApproved, HandleMatchFeeRefundRequested, StartPayment, CommitPayment,
              HandleMatchSettlementRequested, HandleMatchConfirmed, HandleMatchCancelled,
              HandleMatchBookingResolved, VenueConfirmed, CurrentAttempt, financeVars
<1>4. CASE HandleMatchResultFinalized
  BY <1>1, <1>4 DEF HandleMatchResultFinalized, IsRow, Columns
<1> QED
  BY <1>2, <1>3, <1>4 DEF FinanceNext

\* The court that is sold has been paid for, or finance still waits for the
\* settlement that bought it, whose answer is on its way unless it was lost.
PaidFor ==
  source = "hold" /\ SoldOut =>
    \/ funding.status = "settled"
    \/ /\ CurrentAttempt(booking.winner)
       /\ lost = {} => Event("finance", "MatchBookingResolved", booking.winner) \in mail

\* The payment of the court that is sold is inductive.
LEMMA PaidForKept ==
  ASSUME FundingInv, Tables, DeskRules, Bought, Revisions, Attempts, Cancels, CourtGone, Sold,
         OnTheWay, PaidFor, [MatchNext]_fundingVars
  PROVE  PaidFor'
<1> SUFFICES ASSUME source = "hold", SoldOut'
             PROVE  \/ funding'.status = "settled"
                    \/ /\ funding'.status = "settling" /\ funding'.attempt = booking'.winner
                       /\ lost' = {} => Event("finance", "MatchBookingResolved", booking'.winner) \in mail'
  <2>1. source' = source
    BY PhaseMoves
  <2> QED
    BY <2>1 DEF PaidFor, Event, CurrentAttempt
<1>1. lost' = {} => lost = {} /\ ~ \E e \in mail : GiveUp(e)
  BY PhaseMoves DEF GiveUp
<1>2. ASSUME NEW k \in Commands, Answered(k), Granted(k), issued[k].action = "settle"
      PROVE  CurrentAttempt(k)' /\ booking'.winner = k
             /\ Event("finance", "MatchBookingResolved", k) \in mail'
  <2>1. Event("venue", "Settle", k) \in mail /\ k \notin DOMAIN commands /\ booking'.winner = k
        /\ Event("finance", "MatchBookingResolved", k) \in mail'
    BY <1>2 DEF Answered, Granted
  <2>2. CurrentAttempt(k)
    BY <1>2, <2>1, NeverGranted DEF OnTheWay, DeskRules
  <2>3. UNCHANGED funding
    <3>1. ~UNCHANGED commands
      BY <1>2 DEF Answered
    <3>2. VenueNext
      BY <3>1, AnswersComeFrom DEF VenueNext
    <3> QED
      BY <3>2, OutsideFinance DEF financeVars
  <2> QED
    BY <2>1, <2>2, <2>3 DEF CurrentAttempt
<1>3. ASSUME SoldOut, booking'.winner = booking.winner
      PROVE  \/ funding'.status = "settled"
             \/ /\ funding'.status = "settling" /\ funding'.attempt = booking'.winner
                /\ lost' = {} => Event("finance", "MatchBookingResolved", booking'.winner) \in mail'
  <2>1. PICK k : /\ booking.winner = k /\ k \in Settles /\ k \in DOMAIN commands
                 /\ commands[k].decision = "confirmed" /\ commands[k].winner = k
                 /\ \A c \in DOMAIN commands :
                      /\ commands[c].decision # "cancelled"
                      /\ commands[c].decision = "held_revoked"
                           => commands[c].revision <= issued[k].revision
    BY <1>3 DEF Sold
  <2>2. ~NeverSold /\ Event("finance", "BookingCancelled", None) \notin mail
    BY <1>3 DEF NeverSold, CourtGone, SoldOut
  <2>3. CASE funding.status = "settled"
    <3>1. CASE FinanceNext
      BY <2>2, <2>3, <3>1, SettledStays
    <3>2. CASE ~FinanceNext
      BY <2>3, <3>2, OutsideFinance DEF MatchNext, financeVars
    <3> QED
      BY <3>1, <3>2
  <2>4. CASE /\ CurrentAttempt(k)
             /\ lost = {} => Event("finance", "MatchBookingResolved", k) \in mail
    <3>1. CASE ~FinanceNext
      <4>1. CurrentAttempt(k)'
        BY <2>4, <3>1, OutsideFinance DEF MatchNext, financeVars, CurrentAttempt
      <4>2. lost' = {} => Event("finance", "MatchBookingResolved", k) \in mail'
        BY <1>1, <2>4, <3>1, FinanceMailStays DEF MatchNext
      <4> QED
        BY <1>3, <2>1, <4>1, <4>2 DEF CurrentAttempt
    <3>2. CASE FinanceNext
      <4>1. ASSUME NEW c \in DOMAIN commands, commands[c].decision = "held_revoked",
                   issued[c].attempt = k
            PROVE  FALSE
        <5>1. k # None
          BY <2>1, FundingAssumption DEF Settles, Tables, DeskTyped
        <5>2. issued[k].revision < commands[c].revision
          BY <2>1, <4>1, <5>1, RevokedIsBehind
        <5>3. commands[c].revision <= issued[k].revision
          BY <2>1, <4>1
        <5>4. commands[c].revision \in Nat /\ issued[k].revision \in Nat
          BY <2>1, <4>1, RevisionsAreNat DEF Settles
        <5> QED
          BY <5>2, <5>3, <5>4
      <4>2. CASE HandleMatchBookingResolved(k)
        <5>1. VenueConfirmed(k)
          BY <2>1, <2>4 DEF VenueConfirmed, Settles
        <5>2. \/ \E r : funding' = [FundingSettled(funding) EXCEPT !.revision = r]
              \/ commands[k].decision \in {"held_revoked", "cancelled"}
          BY <4>2, <5>1 DEF HandleMatchBookingResolved
        <5>3. IsRow(funding)
          BY DEF FundingInv, Shapes
        <5> QED
          BY <2>1, <5>2, <5>3 DEF FundingSettled, IsRow, Columns
      <4>3. CASE ~HandleMatchBookingResolved(k)
        <5>1. lost' = {} => Event("finance", "MatchBookingResolved", k) \in mail'
          BY <1>1, <2>4, <3>2, <4>3, FinanceTakesMail, EventEq DEF FinanceTakes
        <5>2. CurrentAttempt(k)' \/ funding'.status = "settled"
          BY <2>1, <2>2, <2>4, <3>2, <4>1, AttemptEnds
        <5> QED
          BY <1>3, <2>1, <5>1, <5>2 DEF CurrentAttempt
      <4> QED
        BY <4>2, <4>3
    <3> QED
      BY <3>1, <3>2
  <2> QED
    BY <1>1, <1>3, <2>1, <2>3, <2>4 DEF PaidFor
<1> QED
  BY <1>2, <1>3, CourtMovesOn DEF CourtMoves, CurrentAttempt

\* Everything that the purchase of the court rests on.
CourtPaidInv ==
  MatchInv /\ Revisions /\ Attempts /\ Cancels /\ CourtGone /\ Sold /\ OnTheWay /\ PaidFor

\* It holds when the match is created.
LEMMA CourtPaidInitially == MatchInit => CourtPaidInv
<1> SUFFICES ASSUME MatchInit PROVE CourtPaidInv
  OBVIOUS
<1>1. /\ DOMAIN issued = {} /\ DOMAIN commands = {} /\ match.attempt = None
      /\ match.revision = 0 /\ booking.revision = 0 /\ deposit = "none"
      /\ mail = {Event("finance", "MatchCreated", None)}
      /\ source = "hold" => booking.status = "held"
  BY DEF MatchInit
<1>2. Revisions /\ Attempts /\ Cancels /\ CourtGone
  BY <1>1, EventEq DEF Revisions, Attempts, Cancels, CourtGone
<1>3. Sold /\ OnTheWay /\ PaidFor
  BY <1>1, EventEq DEF Sold, OnTheWay, PaidFor, SoldOut
<1> QED
  BY <1>2, <1>3, MatchInitially DEF CourtPaidInv

\* It is inductive.
LEMMA CourtPaidStep == CourtPaidInv /\ [MatchNext]_fundingVars => CourtPaidInv'
<1> SUFFICES ASSUME CourtPaidInv, [MatchNext]_fundingVars PROVE CourtPaidInv'
  OBVIOUS
<1>1. MatchInv /\ Revisions /\ Attempts /\ Cancels /\ CourtGone /\ Sold /\ OnTheWay /\ PaidFor
  BY DEF CourtPaidInv
<1>2. FundingInv /\ Tables /\ DeskRules /\ Bought
  BY <1>1 DEF MatchInv
<1>3. MatchInv'
  BY <1>1, MatchInvStep
<1>4. Revisions' /\ Attempts' /\ Cancels' /\ CourtGone'
  BY <1>1, <1>2, RevisionsKept, AttemptsKept, CancelsKept, CourtGoneKept
<1>5. Sold' /\ OnTheWay' /\ PaidFor'
  BY <1>1, <1>2, SoldKept, OnTheWayKept, PaidForKept
<1> QED
  BY <1>3, <1>4, <1>5 DEF CourtPaidInv

\* At rest, the court that venue has confirmed for the hold of a match has been
\* paid for by finance, whatever was revoked, cancelled or answered meanwhile.
THEOREM CourtsArePaid == MatchSpec => []ConfirmedCourtIsPaid
<1>1. CourtPaidInv => ConfirmedCourtIsPaid
  BY DEF CourtPaidInv, PaidFor, SoldOut, ConfirmedCourtIsPaid, AtRest
<1> QED
  BY <1>1, CourtPaidInitially, CourtPaidStep, PTL DEF MatchSpec

-----------------------------------------------------------------------------
(* The purchase of the court, as CourtPurchase promises it                 *)

\* How the status of the booking moves on.
CourtTurns ==
  \/ booking'.status = booking.status
  \/ booking.status = "held" /\ booking'.status \in {"cancelled", "deleted"}
  \/ booking.status = "confirmed" /\ booking'.status \in {"completed", "cancelled"}
  \/ \E k \in Commands : Answered(k) /\ Granted(k) /\ issued[k].action = "settle"

\* It moves on as CourtTurns says.
LEMMA CourtTurnsOn ==
  ASSUME Tables, [MatchNext]_fundingVars
  PROVE  CourtTurns
<1>1. {"status", "revision", "winner", "active", "by"} = DOMAIN booking
  BY DEF Tables, CourtTyped
<1>2. CASE UNCHANGED venueVars
  BY <1>2 DEF venueVars, CourtTurns
<1>3. CASE ActivateMatchHold
  BY <1>1, <1>3 DEF ActivateMatchHold, CourtTurns
<1>4. CASE CourtActions
  BY <1>1, <1>4
  DEF CourtActions, ReleaseHeldMatchBooking, ReapExpiredMatchBooking, LeaveMatchCheckout,
      CancelBookingByOwner, ShutdownCancelsBooking, CompleteMatchBooking, CourtTurns
<1>5. ASSUME NEW k \in Commands, ResolveMatchBooking(k) PROVE CourtTurns
  <2>1. Answered(k)
    BY <1>5, ResolveAnswers
  <2>2. Refused(k) => booking'.status = booking.status
    BY DEF Refused
  <2>3. Granted(k) => booking.status = "held"
    BY DEF Granted, HeldAndPayable
  <2>4. Granted(k) /\ issued[k].action # "settle" => booking'.status \in {"held", "cancelled"}
    BY DEF Granted
  <2> QED
    BY <2>1, <2>2, <2>3, <2>4 DEF Answered, CourtTurns
<1> QED
  BY <1>2, <1>3, <1>4, <1>5, OutsideCourt DEF MatchNext, VenueNext, CourtActions

\* A court that was bought is bought, or cancelled: it is not held again.
StaysBought == WasBought => SoldOut \/ booking.status = "cancelled"

\* Only the sale of the court makes a court that was bought.
LEMMA BoughtSince ==
  ASSUME Tables, [MatchNext]_fundingVars
  PROVE  /\ WasBought => WasBought'
         /\ WasBought' => WasBought \/ SoldOut'
<1>1. source' = source /\ AnswersStay
  BY PhaseMoves, AnswersOnlyGrow
<1>2. WasBought => WasBought'
  BY <1>1 DEF WasBought, AnswersStay
<1>3. ASSUME WasBought', ~WasBought PROVE SoldOut'
  <2>1. PICK k \in DOMAIN commands' : commands'[k].decision = "confirmed" /\ commands'[k].winner = k
    BY <1>1, <1>3 DEF WasBought
  <2>2. k \notin DOMAIN commands
    BY <1>1, <1>3, <2>1 DEF WasBought, AnswersStay
  <2>3. PICK c \in Commands : Answered(c)
    BY <2>1, <2>2, AnswersComeFrom
  <2>4. Answered(k)
    BY <2>1, <2>2, <2>3 DEF Answered
  <2>5. CASE Granted(k)
    BY <2>1, <2>5 DEF Granted, SoldOut
  <2>6. CASE Refused(k)
    BY <2>1, <2>6 DEF Refused, SoldOut
  <2> QED
    BY <2>4, <2>5, <2>6 DEF Answered
<1> QED
  BY <1>2, <1>3

\* That a court is not held again is inductive.
LEMMA StaysBoughtKept ==
  ASSUME Tables, StaysBought, [MatchNext]_fundingVars
  PROVE  StaysBought'
<1>1. CASE WasBought
  <2>1. SoldOut \/ booking.status = "cancelled"
    BY <1>1 DEF StaysBought
  <2>2. ~ \E k \in Commands : Granted(k)
    BY <2>1 DEF Granted, HeldAndPayable, SoldOut
  <2> QED
    BY <2>1, <2>2, CourtTurnsOn DEF CourtTurns, SoldOut, StaysBought
<1>2. CASE ~WasBought
  BY <1>2, BoughtSince DEF StaysBought
<1> QED
  BY <1>1, <1>2

\* Everything that the promise rests on.
PurchaseInv == CourtPaidInv /\ StaysBought

\* It holds in the beginning.
LEMMA PurchaseInitially == MatchInit => PurchaseInv
<1> SUFFICES ASSUME MatchInit PROVE StaysBought
  BY CourtPaidInitially DEF PurchaseInv
<1>1. source \in {"hold", "paid_booking"} /\ commands = [k \in {} |-> None]
      /\ booking.status = (IF source = "hold" THEN "held" ELSE "confirmed")
  BY FundingAssumption DEF MatchInit
<1> QED
  BY <1>1 DEF StaysBought, WasBought, SoldOut

\* Every step of the three services keeps it.
LEMMA PurchaseInvStep == PurchaseInv /\ [MatchNext]_fundingVars => PurchaseInv'
BY CourtPaidStep, StaysBoughtKept DEF PurchaseInv, CourtPaidInv, MatchInv

\* A match begins with nothing bought and nothing paid.
LEMMA PurchaseInit == MatchInit => Purchase!Init
<1> SUFFICES ASSUME MatchInit PROVE Purchase!Init
  OBVIOUS
<1>1. /\ source \in {"hold", "paid_booking"} /\ commands = [k \in {} |-> None]
      /\ booking.status = (IF source = "hold" THEN "held" ELSE "confirmed")
      /\ funding.status = "none" /\ contributions = [p \in Payers |-> "none"] /\ paying = {}
  BY FundingAssumption DEF MatchInit
<1>2. CourtSeen = IF source = "paid_booking" THEN "bought" ELSE "free"
  BY <1>1 DEF CourtSeen, WasBought
<1>3. FundsSeen = "open"
  BY <1>1 DEF FundsSeen
<1>4. SharesSeen = [p \in Payers |-> "out"]
  BY <1>1 DEF SharesSeen, ShareSeen
<1> QED
  BY <1>1, <1>2, <1>3, <1>4 DEF Purchase!Init, Purchase!Backers, Payers

\* What the players see of the money while finance does nothing.
LEMMA MoneySeen ==
  ASSUME UNCHANGED <<source, funding, contributions, paying>>
  PROVE  UNCHANGED <<FundsSeen, SharesSeen, paying>> /\ UNCHANGED (source = "paid_booking")
BY DEF FundsSeen, SharesSeen, ShareSeen, Cash

\* The court is bought, is lost, or stays as it is seen.
LEMMA CourtStep ==
  ASSUME PurchaseInv, [MatchNext]_fundingVars, ~FinanceNext
  PROVE  Purchase!Buy \/ Purchase!Lose \/ UNCHANGED Purchase!purchaseVars
<1>1. /\ Tables /\ DeskRules /\ Sold /\ OnTheWay /\ StaysBought /\ FundingInv
      /\ source \in {"hold", "paid_booking"}
  BY DEF PurchaseInv, CourtPaidInv, MatchInv, FundingInv, Shapes
<1>2. /\ UNCHANGED financeVars /\ source' = source
      /\ UNCHANGED <<FundsSeen, SharesSeen, paying>> /\ UNCHANGED (source = "paid_booking")
  <2>1. UNCHANGED financeVars /\ source' = source
    BY OutsideFinance, PhaseMoves DEF MatchNext
  <2> QED
    BY <2>1, MoneySeen DEF financeVars
<1>3. SoldOut => WasBought
  BY <1>1 DEF Sold, WasBought
<1>4. /\ WasBought => WasBought'
      /\ WasBought' => WasBought \/ SoldOut'
  BY <1>1, BoughtSince
<1>5. CourtTurns
  BY <1>1, CourtTurnsOn
<1>6. CASE booking'.status = booking.status
  <2>1. CourtSeen' = CourtSeen
    BY <1>4, <1>6, <1>3 DEF CourtSeen, SoldOut
  <2> QED
    BY <1>2, <2>1 DEF Purchase!purchaseVars
<1>7. CASE booking.status = "held" /\ booking'.status \in {"cancelled", "deleted"}
  <2>1. CourtSeen = "free" /\ CourtSeen' = "gone"
    BY <1>1, <1>4, <1>7 DEF CourtSeen, SoldOut, StaysBought
  <2> QED
    BY <1>2, <2>1 DEF Purchase!Lose
<1>8. CASE booking.status = "confirmed" /\ booking'.status \in {"completed", "cancelled"}
  <2>1. /\ CourtSeen = "bought"
        /\ CourtSeen' = IF booking'.status = "completed" THEN "bought" ELSE "cancelled"
    BY <1>3, <1>4, <1>8 DEF CourtSeen, SoldOut
  <2> QED
    BY <1>2, <2>1 DEF Purchase!Lose, Purchase!purchaseVars
<1>9. ASSUME NEW k \in Commands, Answered(k), Granted(k), issued[k].action = "settle"
      PROVE  Purchase!Buy
  <2>1. booking.status = "held" /\ booking'.status = "confirmed"
    BY <1>9 DEF Granted, HeldAndPayable
  <2>2. CourtSeen = "free" /\ CourtSeen' = "bought" /\ source = "hold"
    BY <1>1, <2>1 DEF CourtSeen, SoldOut, StaysBought, WasBought
  <2>3. Event("venue", "Settle", k) \in mail /\ k \notin DOMAIN commands
    BY <1>9 DEF Answered, Granted
  <2>4. CurrentAttempt(k)
    BY <1>1, <1>9, <2>2, <2>3, NeverGranted DEF OnTheWay, DeskRules
  <2>5. FundsSeen = "committed"
    BY <2>4 DEF CurrentAttempt, FundsSeen
  <2> QED
    BY <1>2, <2>2, <2>5 DEF Purchase!Buy
<1> QED
  BY <1>5, <1>6, <1>7, <1>8, <1>9 DEF CourtTurns

\* The tables of finance that the purchase looks at.
FinanceTyped ==
  /\ contributions \in [Payers -> Contribution] /\ IsRow(funding)
  /\ funding.status \in {"none", "collecting", "settling", "settled", "cancelled"}

\* What the players see of the funding.
LEMMA FundsAre ==
  ASSUME FinanceTyped
  PROVE  /\ funding.status \in {"none", "collecting"} <=> FundsSeen = "open"
         /\ funding.status = "settling" <=> FundsSeen = "committed"
         /\ funding.status = "settled" <=> FundsSeen = "spent"
         /\ funding.status = "cancelled" <=> FundsSeen = "closed"
BY DEF FinanceTyped, FundsSeen

\* What the players see of a contribution.
LEMMA SharesAre ==
  ASSUME FinanceTyped
  PROVE  /\ SharesSeen = [p \in Payers |-> SharesSeen[p]]
         /\ \A p \in Payers :
              /\ SharesSeen[p] \in {"out", "in", "spent", "back"}
              /\ SharesSeen[p] = "in" <=> Cash(p) /\ contributions[p] = "paid"
              /\ SharesSeen[p] = "spent" <=> Cash(p) /\ contributions[p] = "settled"
              /\ SharesSeen[p] = "back" <=> Cash(p) /\ contributions[p] = "refunded"
BY DEF FinanceTyped, SharesSeen, ShareSeen, Contribution

\* One contribution changes, and nobody else's is seen to.
LEMMA OneShare ==
  ASSUME FinanceTyped, FinanceTyped', source' = source, NEW p \in Payers,
         \A q \in Payers : q # p => contributions'[q] = contributions[q]
  PROVE  SharesSeen' = [SharesSeen EXCEPT ![p] = SharesSeen'[p]]
<1>1. SharesSeen = [q \in Payers |-> ShareSeen(q)] /\ SharesSeen' = [q \in Payers |-> ShareSeen(q)']
  BY DEF SharesSeen
<1>2. \A q \in Payers : q # p => ShareSeen(q)' = ShareSeen(q)
  BY DEF ShareSeen, Cash
<1> QED
  BY <1>1, <1>2

\* The price of the court is there when finance finds it fully reserved.
LEMMA PriceSeen ==
  ASSUME FinanceTyped, FullyReserved, source \in {"hold", "paid_booking"}
  PROVE  Purchase!PriceIsIn
<1>1. {g \in Joins : SharesSeen[g] = "in"} = PaidJoins
  BY SharesAre, FundingAssumption DEF Payers, PaidJoins, Cash
<1>2. source = "paid_booking" \/ SharesSeen[Organizer] = "in"
  BY SharesAre DEF Payers, Cash, FullyReserved
<1>3. {g \in Joins : SharesSeen[g] = "in"} \in {J \in SUBSET Joins : Cardinality(J) = Slots}
  BY <1>1 DEF FullyReserved, PaidJoins
<1> QED
  BY <1>2, <1>3 DEF Purchase!PriceIsIn

\* Money that is settled, given back, or given back after it was settled.
LEMMA MoneyMoves ==
  ASSUME FinanceTyped, source' = source
  PROVE  /\ contributions' = Settled => Purchase!Move("in", "spent")
         /\ contributions' = AllRefunded => Purchase!Move("in", "back")
         /\ contributions' = [p \in Payers |-> IF contributions[p] = "settled" THEN "refunded"
                                               ELSE contributions[p]]
              => Purchase!Move("spent", "back")
<1>1. Purchase!Backers = Payers
  BY DEF Purchase!Backers, Payers
<1>2. ASSUME contributions' = Settled PROVE Purchase!Move("in", "spent")
  BY <1>1, <1>2 DEF FinanceTyped, Contribution, Settled, SharesSeen, ShareSeen, Cash, Purchase!Move
<1>3. ASSUME contributions' = AllRefunded PROVE Purchase!Move("in", "back")
  BY <1>1, <1>3
  DEF FinanceTyped, Contribution, AllRefunded, Refunded, SharesSeen, ShareSeen, Cash, Purchase!Move
<1>4. ASSUME contributions' = [p \in Payers |-> IF contributions[p] = "settled" THEN "refunded"
                                                ELSE contributions[p]]
      PROVE  Purchase!Move("spent", "back")
  BY <1>1, <1>4 DEF FinanceTyped, Contribution, SharesSeen, ShareSeen, Cash, Purchase!Move
<1> QED
  BY <1>2, <1>3, <1>4

\* Finance leaves the court as it is seen, and a court that is bought committed
\* or paid for.
CourtStands ==
  /\ UNCHANGED <<source, CourtSeen>> /\ UNCHANGED (source = "paid_booking")
  /\ source \in {"hold", "paid_booking"}
  /\ CourtSeen = "bought" /\ source = "hold" => funding'.status \in {"settling", "settled"}

\* Finance reads neither the booking nor the answers, and writes none of them.
LEMMA CourtIsLeft ==
  ASSUME PurchaseInv, FinanceNext
  PROVE  /\ CourtStands /\ FinanceTyped /\ FinanceTyped'
         /\ UNCHANGED booking
<1>1. PurchaseInv'
  BY PurchaseInvStep DEF MatchNext
<1>2. UNCHANGED <<booking, commands, source>>
  BY OutsideCourt, PhaseMoves DEF venueVars, MatchNext
<1>3. FinanceTyped /\ FinanceTyped' /\ source \in {"hold", "paid_booking"}
  BY <1>1 DEF PurchaseInv, CourtPaidInv, MatchInv, FundingInv, Shapes, FinanceTyped
<1>4. UNCHANGED CourtSeen
  BY <1>2 DEF CourtSeen, WasBought
<1>5. CourtSeen = "bought" => SoldOut
  BY DEF CourtSeen, SoldOut
<1>6. SoldOut /\ source = "hold" => funding'.status \in {"settling", "settled"}
  BY <1>1, <1>2 DEF PurchaseInv, CourtPaidInv, PaidFor, SoldOut, CurrentAttempt
<1> QED
  BY <1>2, <1>3, <1>4, <1>5, <1>6 DEF CourtStands

\* What a payment, a refund of a fee, and the beginning of a funding are.
LEMMA PaymentStep ==
  ASSUME PurchaseInv, FinanceNext, NEW p \in Payers,
         \/ StartPayment(p) \/ CommitPayment(p)
         \/ p \in Joins /\ (HandleJoinApproved(p) \/ HandleMatchFeeRefundRequested(p))
         \/ p = Organizer /\ HandleMatchCreated
  PROVE  Purchase!Next \/ UNCHANGED Purchase!purchaseVars
<1>1. CourtStands /\ FinanceTyped /\ FinanceTyped' /\ PaymentsFit /\ MailFits
  BY CourtIsLeft DEF PurchaseInv, CourtPaidInv, MatchInv, FundingInv
<1>2. Purchase!Backers = Payers
  BY DEF Purchase!Backers, Payers
<1>3. source' = source
  BY <1>1 DEF CourtStands
<1>4. CASE StartPayment(p)
  <2>1. /\ funding.status = "collecting" /\ contributions[p] = "pending"
        /\ paying' = paying \cup {p} /\ UNCHANGED <<funding, contributions>>
    BY <1>4 DEF StartPayment, ContributionPayable
  <2>2. FundsSeen = "open" /\ SharesSeen[p] = "out"
    BY <1>1, <2>1, FundsAre, SharesAre
  <2>3. UNCHANGED <<FundsSeen, SharesSeen>>
    BY <2>1, <1>3 DEF FundsSeen, SharesSeen, ShareSeen, Cash
  <2>4. Purchase!Pledge(p)
    BY <1>1, <2>1, <2>2, <2>3 DEF CourtStands, Purchase!Pledge
  <2> QED
    BY <1>2, <2>4 DEF Purchase!Next
<1>5. CASE CommitPayment(p)
  <2>1. /\ p \in paying /\ contributions[p] = "pending"
        /\ paying' = paying \ {p} /\ UNCHANGED funding
        /\ contributions' = [contributions EXCEPT ![p] = "paid"]
    BY <1>1, <1>5 DEF CommitPayment, PaymentsFit
  <2>2. Cash(p) /\ Cash(p)'
    BY <1>1, <2>1, <1>3 DEF Cash, PaymentsFit, CourtStands
  <2>3. SharesSeen[p] = "out" /\ SharesSeen'[p] = "in"
    BY <1>1, <2>1, <2>2 DEF FinanceTyped, SharesSeen, ShareSeen
  <2>4. SharesSeen' = [SharesSeen EXCEPT ![p] = "in"]
    BY <1>1, <1>3, <2>1, <2>3, OneShare DEF FinanceTyped
  <2>5. UNCHANGED FundsSeen
    BY <2>1 DEF FundsSeen
  <2>6. Purchase!Pay(p)
    BY <1>1, <2>1, <2>3, <2>4, <2>5 DEF CourtStands, Purchase!Pay
  <2> QED
    BY <1>2, <2>6 DEF Purchase!Next
<1>6. CASE p \in Joins /\ HandleMatchFeeRefundRequested(p)
  <2>1. UNCHANGED <<funding, paying>>
    BY <1>6 DEF HandleMatchFeeRefundRequested
  <2>2. UNCHANGED FundsSeen
    BY <2>1 DEF FundsSeen
  <2>3. CASE contributions[p] = "paid"
    <3>1. contributions' = [contributions EXCEPT ![p] = "refunded"]
      BY <1>6, <2>3 DEF HandleMatchFeeRefundRequested
    <3>2. Cash(p) /\ Cash(p)'
      BY <1>6, FundingAssumption DEF Cash
    <3>3. SharesSeen[p] = "in" /\ SharesSeen'[p] = "back"
      BY <1>1, <2>3, <3>1, <3>2 DEF FinanceTyped, SharesSeen, ShareSeen
    <3>4. SharesSeen' = [SharesSeen EXCEPT ![p] = "back"]
      BY <1>1, <1>3, <3>1, <3>3, OneShare DEF FinanceTyped
    <3>5. Purchase!GiveBack(p)
      BY <1>1, <2>1, <2>2, <3>3, <3>4 DEF CourtStands, Purchase!GiveBack
    <3> QED
      BY <1>6, <3>5 DEF Purchase!Next
  <2>4. CASE contributions[p] # "paid"
    <3>1. UNCHANGED contributions
      BY <1>6, <2>4 DEF HandleMatchFeeRefundRequested
    <3>2. UNCHANGED <<FundsSeen, SharesSeen, paying>>
      BY <1>3, <2>1, <3>1, MoneySeen
    <3> QED
      BY <1>1, <3>2 DEF CourtStands, Purchase!purchaseVars
  <2> QED
    BY <2>3, <2>4
<1>7. CASE p \in Joins /\ HandleJoinApproved(p)
  <2>1. /\ contributions[p] = "none" /\ contributions' = [contributions EXCEPT ![p] = "pending"]
        /\ UNCHANGED <<funding, paying>>
    BY <1>1, <1>7 DEF HandleJoinApproved, MailFits, Approved
  <2>2. SharesSeen[p] = "out" /\ SharesSeen'[p] = "out"
    BY <1>1, <2>1 DEF FinanceTyped, SharesSeen, ShareSeen
  <2>3. SharesSeen' = [SharesSeen EXCEPT ![p] = "out"]
    BY <1>1, <1>3, <2>1, <2>2, OneShare DEF FinanceTyped
  <2>4. UNCHANGED SharesSeen
    BY <1>1, <2>2, <2>3, SharesAre
  <2>5. UNCHANGED FundsSeen
    BY <2>1 DEF FundsSeen
  <2> QED
    BY <1>1, <2>1, <2>4, <2>5 DEF CourtStands, Purchase!purchaseVars
<1>8. CASE p = Organizer /\ HandleMatchCreated
  <2>1. /\ contributions[p] = "none" /\ funding.status = "none" /\ UNCHANGED paying
        /\ funding' = [funding EXCEPT !.status = "collecting"]
        /\ contributions' = [contributions EXCEPT ![p] =
                               IF source = "paid_booking" THEN "paid" ELSE "pending"]
    BY <1>1, <1>8 DEF HandleMatchCreated, MailFits, PaymentsFit, Created
  <2>2. SharesSeen[p] = "out" /\ SharesSeen'[p] = "out"
    BY <1>1, <1>3, <1>8, <2>1 DEF FinanceTyped, SharesSeen, ShareSeen, Cash, CourtStands
  <2>3. SharesSeen' = [SharesSeen EXCEPT ![p] = "out"]
    BY <1>1, <1>3, <2>1, <2>2, OneShare DEF FinanceTyped
  <2>4. UNCHANGED SharesSeen
    BY <1>1, <2>2, <2>3, SharesAre
  <2>5. funding'.status = "collecting"
    BY <1>1, <2>1 DEF FinanceTyped, IsRow, Columns
  <2>6. UNCHANGED FundsSeen
    BY <2>1, <2>5 DEF FundsSeen
  <2> QED
    BY <1>1, <2>1, <2>4, <2>6 DEF CourtStands, Purchase!purchaseVars
<1> QED
  BY <1>4, <1>5, <1>6, <1>7, <1>8

\* The row of the funding and the contributions that a settlement or a refund
\* leaves are what the players see as money spent, freed or given back.
LEMMA FundingEnds ==
  ASSUME PurchaseInv, FinanceNext, UNCHANGED paying
  PROVE  /\ FundingRefunded /\ funding.status \in {"collecting", "settling"} => Purchase!Close
         /\ (/\ FullyReserved /\ contributions' = Settled /\ funding'.status = "settled"
             /\ funding.status = (IF source = "paid_booking" THEN "collecting" ELSE "settling")
             /\ WasBought) => Purchase!Spend
<1>1. CourtStands /\ FinanceTyped /\ FinanceTyped' /\ StaysBought /\ UNCHANGED paying
  BY CourtIsLeft DEF PurchaseInv
<1>2. source' = source
  BY <1>1 DEF CourtStands
<1>3. ASSUME FullyReserved, contributions' = Settled, funding'.status = "settled", WasBought,
             funding.status = (IF source = "paid_booking" THEN "collecting" ELSE "settling")
      PROVE  Purchase!Spend
  <2>1. FundsSeen = (IF source = "paid_booking" THEN "open" ELSE "committed") /\ FundsSeen' = "spent"
    BY <1>3 DEF FundsSeen
  <2>2. CourtSeen \in {"bought", "cancelled"}
    BY <1>1, <1>3 DEF CourtSeen, StaysBought, SoldOut
  <2>3. Purchase!PriceIsIn
    BY <1>1, <1>3, PriceSeen DEF CourtStands
  <2>4. Purchase!Move("in", "spent")
    BY <1>1, <1>2, <1>3, MoneyMoves
  <2> QED
    BY <1>1, <2>1, <2>2, <2>3, <2>4 DEF Purchase!Spend, CourtStands
<1>4. ASSUME FundingRefunded, funding.status \in {"collecting", "settling"}
      PROVE  Purchase!Close
  <2>1. contributions' = AllRefunded /\ funding'.status = "cancelled"
    BY <1>1, <1>4 DEF FundingRefunded, FinanceTyped, IsRow, Columns
  <2>2. FundsSeen \in {"open", "committed"} /\ FundsSeen' = "closed"
    BY <1>4, <2>1 DEF FundsSeen
  <2>3. source = "paid_booking" \/ CourtSeen # "bought"
    BY <1>1, <2>1 DEF CourtStands
  <2>4. Purchase!Move("in", "back")
    BY <1>1, <1>2, <2>1, MoneyMoves
  <2> QED
    BY <1>1, <2>2, <2>3, <2>4 DEF Purchase!Close, CourtStands
<1> QED
  BY <1>3, <1>4

\* What finance makes of a settlement, an answer or a cancellation.
LEMMA FundingStepSeen ==
  ASSUME PurchaseInv, FinanceNext,
         \/ \E k \in Commands : HandleMatchConfirmed(k) \/ HandleMatchBookingResolved(k)
         \/ \E r \in Reasons : HandleMatchCancelled(r)
         \/ HandleMatchBookingCancelled
  PROVE  Purchase!Next \/ UNCHANGED Purchase!purchaseVars
<1>1. /\ CourtStands /\ FinanceTyped /\ FinanceTyped' /\ StaysBought /\ UNCHANGED booking
      /\ ReserveFits /\ Tables /\ SpentOnlyOnTheWinner /\ CourtGone
  BY CourtIsLeft DEF PurchaseInv, CourtPaidInv, MatchInv, FundingInv
<1>2. source' = source /\ source \in {"hold", "paid_booking"}
  BY <1>1 DEF CourtStands
<1>3. ASSUME UNCHANGED <<funding, contributions, paying>> PROVE UNCHANGED Purchase!purchaseVars
  BY <1>1, <1>2, <1>3, MoneySeen DEF CourtStands, Purchase!purchaseVars
<1>4. UNCHANGED paying
  BY DEF HandleMatchConfirmed, HandleMatchBookingResolved, HandleMatchCancelled,
         HandleMatchBookingCancelled
<1>5. ASSUME FundingRefunded, funding.status \in {"collecting", "settling"} PROVE Purchase!Next
  BY <1>4, <1>5, FundingEnds DEF Purchase!Next
<1>6. ASSUME NEW f, funding' = [FundingSettled(funding) EXCEPT !.revision = f] \/ funding' = FundingSettled(funding)
      PROVE  funding'.status = "settled"
  BY <1>1, <1>6 DEF FundingSettled, FinanceTyped, IsRow, Columns
<1>7. ASSUME NEW k \in Commands, HandleMatchConfirmed(k)
      PROVE  Purchase!Next \/ UNCHANGED Purchase!purchaseVars
  <2>1. CASE /\ FullyReserved /\ source = "paid_booking" /\ contributions' = Settled
             /\ funding.status = "collecting" /\ funding' = FundingSettled(funding)
    <3>1. WasBought /\ funding'.status = "settled"
      BY <1>6, <2>1 DEF WasBought
    <3> QED
      BY <1>4, <2>1, <3>1, FundingEnds DEF Purchase!Next
  <2>2. CASE /\ FullyReserved /\ source # "paid_booking" /\ UNCHANGED contributions
             /\ funding.status \in {"collecting", "settling"}
             /\ \E v : funding' = [funding EXCEPT !.status = "settling", !.attempt = k, !.revision = v]
    <3>1. funding'.status = "settling"
      BY <1>1, <2>2 DEF FinanceTyped, IsRow, Columns
    <3>2. UNCHANGED SharesSeen /\ FundsSeen' = "committed" /\ FundsSeen \in {"open", "committed"}
      BY <1>2, <2>2, <3>1 DEF SharesSeen, ShareSeen, Cash, FundsSeen
    <3>3. CASE FundsSeen = "open"
      <4>1. Purchase!PriceIsIn
        BY <1>1, <1>2, <2>2, PriceSeen
      <4> QED
        BY <1>1, <1>4, <2>2, <3>2, <3>3, <4>1 DEF Purchase!Next, Purchase!Commit, CourtStands
    <3> QED
      BY <1>1, <1>4, <3>2, <3>3 DEF Purchase!purchaseVars, CourtStands
  <2>3. \/ UNCHANGED <<funding, contributions>>
        \/ /\ funding.status \in {"collecting", "settling"} /\ FullyReserved
           /\ IF source = "paid_booking"
              THEN contributions' = Settled /\ funding' = FundingSettled(funding)
              ELSE /\ UNCHANGED contributions
                   /\ funding' = [funding EXCEPT !.status = "settling", !.attempt = k,
                                                 !.revision = issued[k].revision]
    BY <1>7 DEF HandleMatchConfirmed, MatchConfirmedAccepted
  <2> QED
    BY <1>1, <1>3, <1>4, <2>1, <2>2, <2>3 DEF ReserveFits
<1>8. ASSUME NEW k \in Commands, HandleMatchBookingResolved(k)
      PROVE  Purchase!Next \/ UNCHANGED Purchase!purchaseVars
  <2>1. k \in DOMAIN commands
    BY <1>1, <1>8 DEF HandleMatchBookingResolved, Tables, LettersFit
  <2>2. CASE /\ VenueConfirmed(k) /\ FullyReserved /\ contributions' = Settled
             /\ \E v : funding' = [FundingSettled(funding) EXCEPT !.revision = v]
    <3>1. WasBought
      BY <2>1, <2>2 DEF VenueConfirmed, WasBought
    <3>2. funding.status = "settling" /\ source # "paid_booking"
      BY <1>1, <2>2 DEF VenueConfirmed, CurrentAttempt, ReserveFits
    <3>3. funding'.status = "settled"
      BY <1>6, <2>2
    <3> QED
      BY <1>4, <2>2, <3>1, <3>2, <3>3, FundingEnds DEF Purchase!Next
  <2>3. CASE /\ funding.status = "settling" /\ UNCHANGED contributions
             /\ \E v : funding' = [funding EXCEPT !.status = "collecting", !.attempt = None,
                                                  !.revision = v]
    <3>1. funding'.status = "collecting" /\ source = "hold"
      BY <1>1, <1>2, <2>3 DEF FinanceTyped, IsRow, Columns, ReserveFits
    <3>2. UNCHANGED SharesSeen /\ FundsSeen' = "open" /\ FundsSeen = "committed"
      BY <1>2, <2>3, <3>1 DEF SharesSeen, ShareSeen, Cash, FundsSeen
    <3>3. CourtSeen # "bought"
      BY <1>1, <3>1 DEF CourtStands
    <3> QED
      BY <1>1, <1>4, <3>2, <3>3 DEF Purchase!Next, Purchase!Free, CourtStands
  <2>4. \/ /\ VenueConfirmed(k) /\ FullyReserved /\ contributions' = Settled
           /\ \E v : funding' = [FundingSettled(funding) EXCEPT !.revision = v]
        \/ /\ funding.status = "settling" /\ UNCHANGED contributions
           /\ \E v : funding' = [funding EXCEPT !.status = "collecting", !.attempt = None,
                                                !.revision = v]
        \/ FundingRefunded /\ funding.status \in {"collecting", "settling"}
        \/ UNCHANGED <<funding, contributions>>
    BY <1>8 DEF HandleMatchBookingResolved
  <2> QED
    BY <1>3, <1>4, <1>5, <2>2, <2>3, <2>4
<1>9. ASSUME NEW r \in Reasons, HandleMatchCancelled(r)
      PROVE  Purchase!Next \/ UNCHANGED Purchase!purchaseVars
  <2>1. \/ FundingRefunded /\ funding.status \in {"collecting", "settling"}
        \/ UNCHANGED <<funding, contributions>>
    BY <1>9 DEF HandleMatchCancelled
  <2> QED
    BY <1>3, <1>4, <1>5, <2>1
<1>10. ASSUME HandleMatchBookingCancelled
       PROVE  Purchase!Next \/ UNCHANGED Purchase!purchaseVars
  <2>1. booking.status = "cancelled"
    BY <1>1, <1>10 DEF HandleMatchBookingCancelled, CourtGone
  <2>2. CASE funding.status = "settled"
    <3>1. WasBought
      BY <1>1, <1>2, <2>2 DEF SpentOnlyOnTheWinner, WasBought
    <3>2. CourtSeen = "cancelled"
      BY <2>1, <3>1 DEF CourtSeen
    <3>3. /\ contributions' = [p \in Payers |-> IF contributions[p] = "settled" THEN "refunded"
                                                ELSE contributions[p]]
          /\ \E v : funding' = [funding EXCEPT !.status = "cancelled", !.reserve = v]
      BY <1>10, <2>2 DEF HandleMatchBookingCancelled
    <3>4. funding'.status = "cancelled"
      BY <1>1, <3>3 DEF FinanceTyped, IsRow, Columns
    <3>5. FundsSeen = "spent" /\ FundsSeen' = "closed"
      BY <2>2, <3>4 DEF FundsSeen
    <3>6. Purchase!Move("spent", "back")
      BY <1>1, <1>2, <3>3, MoneyMoves
    <3> QED
      BY <1>1, <1>4, <3>2, <3>5, <3>6 DEF Purchase!Next, Purchase!Undo, CourtStands
  <2>3. CASE funding.status # "settled"
    BY <1>3, <1>4, <1>10, <2>3 DEF HandleMatchBookingCancelled
  <2> QED
    BY <2>2, <2>3
<1> QED
  BY <1>7, <1>8, <1>9, <1>10

\* Every step of the three services is one of the purchase, or none.
LEMMA PurchaseStep ==
  ASSUME PurchaseInv, [MatchNext]_fundingVars
  PROVE  Purchase!Next \/ UNCHANGED Purchase!purchaseVars
<1>1. CASE ~FinanceNext
  BY <1>1, CourtStep DEF Purchase!Next
<1>2. CASE FinanceNext
  <2>1. CASE \/ (\E k \in Commands : HandleMatchSettlementRequested(k)) \/ HandleMatchResultFinalized
    <3>1. CourtStands /\ FinanceTyped
      BY <1>2, CourtIsLeft
    <3>2. /\ UNCHANGED <<contributions, paying>>
          /\ \/ UNCHANGED funding
             \/ \E v : funding' = [funding EXCEPT !.reserve = v]
      BY <2>1 DEF HandleMatchSettlementRequested, HandleMatchResultFinalized, financeVars
    <3>3. funding'.status = funding.status
      BY <3>1, <3>2 DEF FinanceTyped, IsRow, Columns
    <3>4. UNCHANGED <<FundsSeen, SharesSeen>>
      BY <3>1, <3>2, <3>3 DEF FundsSeen, SharesSeen, ShareSeen, Cash, CourtStands
    <3> QED
      BY <3>1, <3>2, <3>4 DEF CourtStands, Purchase!purchaseVars
  <2>2. ASSUME NEW p \in Payers,
               \/ StartPayment(p) \/ CommitPayment(p)
               \/ p \in Joins /\ (HandleJoinApproved(p) \/ HandleMatchFeeRefundRequested(p))
               \/ p = Organizer /\ HandleMatchCreated
        PROVE  Purchase!Next \/ UNCHANGED Purchase!purchaseVars
    BY <1>2, <2>2, PaymentStep
  <2>3. CASE \/ \E k \in Commands : HandleMatchConfirmed(k) \/ HandleMatchBookingResolved(k)
             \/ \E r \in Reasons : HandleMatchCancelled(r)
             \/ HandleMatchBookingCancelled
    BY <1>2, <2>3, FundingStepSeen
  <2>4. Joins \subseteq Payers /\ Organizer \in Payers
    BY DEF Payers
  <2> QED
    BY <1>2, <2>1, <2>2, <2>3, <2>4 DEF FinanceNext
<1> QED
  BY <1>1, <1>2

\* The handlers of matchFee.ts in finance, of booking.ts in venue and of
\* matchLifecycle.ts in matchmaking together keep the promise of CourtPurchase:
\* whatever the order of their events, and whatever events are lost, each of
\* their steps is a step of the purchase or one that the players do not see.
THEOREM PurchaseIsKept == MatchSpec => CourtIsPurchased
<1>1. PurchaseInv /\ [MatchNext]_fundingVars => [Purchase!Next]_(Purchase!purchaseVars)
  BY PurchaseStep
<1>2. MatchSpec => []PurchaseInv
  BY PurchaseInitially, PurchaseInvStep, PTL DEF MatchSpec
<1> QED
  BY <1>1, <1>2, PurchaseInit, PTL DEF MatchSpec, CourtIsPurchased, Purchase!Spec

-----------------------------------------------------------------------------
(* How the money of a match is divided (MatchRules)                        *)

LEMMA Quotient ==
  ASSUME NEW a \in Nat, NEW n \in {1, 2, 4, 10}
  PROVE  a \div n \in Nat /\ (a \div n) * n <= a
OBVIOUS

\* For any price, any ratio and both disciplines, the contributions add up to
\* the price and the reserve of the result, to the last unit, and the organizer
\* bears what cannot be divided: what finance checks of MatchCreated, and what
\* FundingAssumption takes for granted (calculateMatchFunding, matchRules.ts).
THEOREM FundingAddsUp ==
  ASSUME NEW price \in Nat, NEW ratio \in {"5:5", "6:4", "7:3"}, NEW places \in {2, 4},
         NEW f, f = CalculateMatchFunding(price, ratio, places)
  PROVE  /\ f.feePerSlot \in Nat /\ f.organizerContribution \in Nat
         /\ f.resultReserve \in Nat /\ f.resultReserve <= price
         /\ f.feePerSlot * (places - 1) + f.organizerContribution = price + f.resultReserve
         /\ f.feePerSlot <= f.organizerContribution
<1> DEFINE part    == LoserPart(ratio) - (10 - LoserPart(ratio))
           reserve == (price * part) \div 10
           total   == price + reserve
           fee     == total \div places
<1>1. part \in {0, 2, 4}
  BY DEF LoserPart
<1>2. price * part \in Nat /\ price * part <= 10 * price
  <2>1. CASE part = 0
    BY <2>1
  <2>2. CASE part = 2
    BY <2>2
  <2>3. CASE part = 4
    BY <2>3
  <2> QED
    BY <1>1, <2>1, <2>2, <2>3
<1>3. reserve \in Nat /\ reserve * 10 <= price * part
  <2> HIDE DEF part
  <2> QED
    BY <1>2, Quotient
<1>4. reserve <= price
  <2> HIDE DEF reserve
  <2> QED
    BY <1>2, <1>3
<1>5. fee \in Nat /\ fee * places <= total
  <2> HIDE DEF reserve
  <2> QED
    BY <1>3, Quotient
<1>6. f = [resultReserve |-> reserve, totalContribution |-> total, feePerSlot |-> fee,
           organizerContribution |-> total - fee * (places - 1)]
  BY DEF CalculateMatchFunding
<1> HIDE DEF fee, reserve
<1>7. CASE places = 2
  BY <1>3, <1>4, <1>5, <1>6, <1>7
<1>8. CASE places = 4
  BY <1>3, <1>4, <1>5, <1>6, <1>8
<1> QED
  BY <1>7, <1>8

\* Whatever the outcome, the reserve is given to the players of the two teams
\* to the last unit (allocateResultReserve, competitiveMatches.ts).
THEOREM ReserveIsDividedUp ==
  ASSUME NEW reserve \in Nat, NEW outcome \in {"TEAM_A_WIN", "TEAM_B_WIN", "NO_RESULT"},
         NEW a, a = TeamAmount(reserve, outcome, "A"),
         NEW b, b = TeamAmount(reserve, outcome, "B")
  PROVE  /\ a \in Nat /\ b \in Nat /\ a + b = reserve
         /\ MemberShare(a, 1, 1) = a
         /\ MemberShare(a, 2, 1) + MemberShare(a, 2, 2) = a
         /\ MemberShare(a, 2, 2) \in 0 .. MemberShare(a, 2, 1)
<1>1. a \in Nat /\ b \in Nat /\ a + b = reserve
  <2> DEFINE first == reserve \div 2
  <2>1. first \in Nat /\ first * 2 <= reserve
    BY Quotient
  <2>2. CASE outcome = "NO_RESULT"
    <3>1. a = first /\ b = reserve - first
      BY <2>2 DEF TeamAmount
    <3> HIDE DEF first
    <3> QED
      BY <2>1, <3>1
  <2>3. CASE outcome = "TEAM_A_WIN"
    BY <2>3 DEF TeamAmount
  <2>4. CASE outcome = "TEAM_B_WIN"
    BY <2>4 DEF TeamAmount
  <2> QED
    BY <2>2, <2>3, <2>4
<1>2. MemberShare(a, 1, 1) = a
  <2> DEFINE whole == a \div 1
  <2>1. whole \in Nat
    BY <1>1, Quotient
  <2>2. MemberShare(a, 1, 1) = whole + (a - whole * 1)
    BY DEF MemberShare
  <2> HIDE DEF whole
  <2> QED
    BY <1>1, <2>1, <2>2
<1> DEFINE half == a \div 2
<1>3. half \in Nat /\ half * 2 <= a
  BY <1>1, Quotient
<1>4. MemberShare(a, 2, 1) = half + (a - half * 2) /\ MemberShare(a, 2, 2) = half
  BY DEF MemberShare
<1> HIDE DEF half
<1>5. MemberShare(a, 2, 1) + MemberShare(a, 2, 2) = a
  BY <1>1, <1>3, <1>4
<1>6. MemberShare(a, 2, 2) \in 0 .. MemberShare(a, 2, 1)
  BY <1>1, <1>3, <1>4
<1> QED
  BY <1>1, <1>2, <1>5, <1>6

-----------------------------------------------------------------------------
(* The receipts of topups and match fees (FeeReceipts)                     *)

\* A receipt with a code is a transfer that was made; a call that will reserve
\* a fee has a receipt that covers it.
CallIsSound(c) ==
  /\ bank[c.receipt] # NotMade
  /\ c.route # "unmatched" => bank[c.receipt].code \in Intents
  /\ c.route \in {"late", "full", "part"} => bank[c.receipt].code \in FeeIntents
  /\ c.route = "full" => bank[c.receipt].amount >= ContributionFee

\* What a receipt was booked for adds up to it, and what was answered is booked.
BooksAddUp ==
  /\ \A r \in answered : booked[r] # NotBooked
  /\ \A r \in Receipts : booked[r] # NotBooked => bank[r] # NotMade
  /\ \A r \in Receipts : booked[r].status = "matched" =>
       /\ booked[r].fee + booked[r].credit = bank[r].amount
       /\ booked[r].fee \in {0, ContributionFee}

ReceiptsInv == ReceiptsTypeOK /\ BooksAddUp /\ \A c \in calls : CallIsSound(c)

LEMMA ReceiptsInvInit == ReceiptsInit => ReceiptsInv
BY ReceiptsAssumption
   DEF ReceiptsInit, ReceiptsInv, ReceiptsTypeOK, BooksAddUp, NotMade, NotBooked, Booking,
       Intents

\* What a transaction of the webhook does to the books.
LEMMA BookKeepsTheBooks ==
  ASSUME ReceiptsInv, NEW c \in calls, NEW status \in {"unmatched", "matched"},
         NEW fee \in Nat, NEW credit \in Nat,
         ~AlreadyBooked(c.receipt), AnswerCall(c), Book(c.receipt, status, fee, credit),
         UNCHANGED <<collecting, inTime, asking, bank>>,
         contribution' \in {"pending", "paid", "refunded", "settled"},
         intents' \in [Intents -> {"none", "pending", "completed", "failed"}],
         status = "matched" =>
           fee + credit = bank[c.receipt].amount /\ fee \in {0, ContributionFee}
  PROVE  ReceiptsInv'
<1>1. c \in [receipt : Receipts, route : Routes]
  BY DEF ReceiptsInv, ReceiptsTypeOK
<1>2. ReceiptsTypeOK'
  <2>1. booked' \in [Receipts -> [status : {"none", "unmatched", "matched"},
                                  fee : Nat, credit : Nat]]
    BY <1>1 DEF ReceiptsInv, ReceiptsTypeOK, Book, Booking
  <2>2. balance' \in Nat
    BY DEF ReceiptsInv, ReceiptsTypeOK, Book
  <2>3. answered' \subseteq Receipts /\ calls' \subseteq [receipt : Receipts, route : Routes]
    BY <1>1 DEF ReceiptsInv, ReceiptsTypeOK, AnswerCall
  <2> QED
    BY <2>1, <2>2, <2>3 DEF ReceiptsInv, ReceiptsTypeOK
<1>3. BooksAddUp'
  <2> DEFINE r == c.receipt
  <2>1. r \in Receipts /\ bank[r] # NotMade
    BY <1>1 DEF ReceiptsInv, CallIsSound
  <2>2. booked'[r] = Booking(status, fee, credit)
    BY <1>1 DEF ReceiptsInv, ReceiptsTypeOK, Book
  <2>3. booked'[r] # NotBooked
    BY <2>2 DEF Booking, NotBooked
  <2>4. \A q \in Receipts : q # r => booked'[q] = booked[q]
    BY <1>1 DEF ReceiptsInv, ReceiptsTypeOK, Book
  <2>5. answered' = answered \cup {r} /\ bank' = bank /\ answered \subseteq Receipts
    BY DEF AnswerCall, ReceiptsInv, ReceiptsTypeOK
  <2>6. booked'[r].status = "matched" =>
          booked'[r].fee + booked'[r].credit = bank[r].amount
            /\ booked'[r].fee \in {0, ContributionFee}
    BY <2>2 DEF Booking
  <2> HIDE DEF r
  <2> QED
    BY <2>1, <2>3, <2>4, <2>5, <2>6 DEF ReceiptsInv, BooksAddUp, NotBooked, NotMade
<1>4. \A d \in calls' : CallIsSound(d)'
  BY DEF ReceiptsInv, AnswerCall, CallIsSound
<1> QED
  BY <1>2, <1>3, <1>4 DEF ReceiptsInv

LEMMA ReceiptsInvNext == ReceiptsInv /\ [ReceiptsNext]_receiptsVars => ReceiptsInv'
<1> SUFFICES ASSUME ReceiptsInv, [ReceiptsNext]_receiptsVars PROVE ReceiptsInv'
  OBVIOUS
<1> USE ReceiptsAssumption
<1> USE DEF ReceiptsInv
<1>1. CASE UNCHANGED receiptsVars
  BY <1>1 DEF receiptsVars, ReceiptsTypeOK, BooksAddUp, CallIsSound
<1>2. ASSUME UNCHANGED <<asking, bank, calls, booked, answered, intents, inTime>>,
             collecting' \in BOOLEAN, balance' \in Nat,
             contribution' \in {"pending", "paid", "refunded", "settled"}
      PROVE  ReceiptsInv'
  BY <1>2 DEF ReceiptsTypeOK, BooksAddUp, CallIsSound
<1>3. CASE PayFeeWithBalance
  <2>1. balance - ContributionFee \in Nat
    BY <1>3 DEF PayFeeWithBalance, ReceiptsTypeOK
  <2> QED
    BY <1>2, <1>3, <2>1 DEF PayFeeWithBalance, ReceiptsTypeOK
<1>4. CASE RefundOneFee \/ CancelFunding
  <2>1. RefundFee /\ collecting' \in BOOLEAN
    BY <1>4 DEF RefundOneFee, CancelFunding, ReceiptsTypeOK
  <2>2. balance' \in Nat
    BY <2>1 DEF RefundFee, ReceiptsTypeOK
  <2>3. contribution' \in {"pending", "paid", "refunded", "settled"}
    BY <2>1 DEF RefundFee, ReceiptsTypeOK
  <2> QED
    BY <1>2, <2>1, <2>2, <2>3 DEF RefundFee
<1>5. CASE BeginSettlement \/ SettleFee
  BY <1>2, <1>5 DEF BeginSettlement, SettleFee, ReceiptsTypeOK
<1>6. CASE FeeWindowEnds
  BY <1>6 DEF FeeWindowEnds, ReceiptsTypeOK, BooksAddUp, CallIsSound
<1>7. CASE \E i \in FeeIntents : AskForFeeIntent(i) \/ CreateFeeIntent(i)
  BY <1>7 DEF AskForFeeIntent, CreateFeeIntent, ReceiptsTypeOK, BooksAddUp, CallIsSound, Intents
<1>8. CASE \E i \in TopupIntents : CreateTopupIntent(i)
  BY <1>8 DEF CreateTopupIntent, ReceiptsTypeOK, BooksAddUp, CallIsSound, Intents
<1>9. CASE \E r \in Receipts, code \in Intents \cup {NoCode}, amount \in ReceiptAmounts :
             PayIn(r, code, amount)
  <2> PICK r \in Receipts, code \in Intents \cup {NoCode}, amount \in ReceiptAmounts :
             PayIn(r, code, amount)
    BY <1>9
  <2>1. ReceiptsTypeOK'
    BY DEF PayIn, ReceiptsTypeOK
  <2>2. bank[r] = NotMade /\ booked[r] = NotBooked /\ bank' = [bank EXCEPT ![r] = bank'[r]]
        /\ bank'[r] # NotMade
    BY DEF PayIn, BooksAddUp, NotMade, ReceiptsTypeOK
  <2>3. BooksAddUp'
    BY <2>1, <2>2 DEF PayIn, ReceiptsTypeOK, BooksAddUp, NotBooked, Booking
  <2>4. \A c \in calls : c.receipt # r
    BY <2>2 DEF CallIsSound
  <2>5. \A c \in calls' : CallIsSound(c)'
    BY <2>4 DEF PayIn, ReceiptsTypeOK, CallIsSound
  <2> QED
    BY <2>1, <2>3, <2>5
<1>10. CASE \E r \in Receipts : Look(r)
  <2> PICK r \in Receipts : Look(r)
    BY <1>10
  <2> DEFINE c == [receipt |-> r, route |-> RouteOf(r)]
  <2>1. bank[r].code \in Intents \cup {NoCode}
    BY DEF ReceiptsTypeOK
  <2>2. /\ c.route \in Routes /\ CallIsSound(c)
    <3>1. CASE bank[r].code = NoCode
      BY <3>1 DEF Look, RouteOf, Routes, CallIsSound
    <3>2. CASE bank[r].code \in TopupIntents
      BY <3>2 DEF Look, RouteOf, Routes, CallIsSound, Intents
    <3>3. CASE bank[r].code \in FeeIntents
      BY <3>3 DEF Look, RouteOf, Routes, CallIsSound, Intents
    <3> QED
      BY <2>1, <3>1, <3>2, <3>3 DEF Intents
  <2> HIDE DEF c
  <2>3. calls' = calls \cup {c} /\ c \in [receipt : Receipts, route : Routes]
    BY <2>2 DEF Look, c
  <2> QED
    BY <2>2, <2>3 DEF Look, ReceiptsTypeOK, BooksAddUp, CallIsSound
<1>11. ASSUME NEW c \in calls, AnswerRepeat(c) \/ CallFails(c) PROVE ReceiptsInv'
  BY <1>11 DEF AnswerRepeat, CallFails, AnswerCall, AlreadyBooked, ReceiptsTypeOK, BooksAddUp,
               CallIsSound
<1>12. ASSUME NEW c \in calls,
              \/ RecordUnmatchedReceipt(c) \/ CreditTopup(c) \/ CreditAdditionalReceipt(c)
              \/ CreditLateFee(c) \/ ReserveFee(c) \/ CreditPartOfFee(c)
       PROVE  ReceiptsInv'
  <2> DEFINE r == c.receipt  code == bank[c.receipt].code  paidIn == bank[c.receipt].amount
  <2>1. r \in Receipts /\ paidIn \in Nat /\ code \in Intents \cup {NoCode}
    BY DEF ReceiptsTypeOK
  <2>2. c.route # "unmatched" => code \in Intents
    BY DEF CallIsSound
  <2>3. c.route \in {"late", "full", "part"} => code \in FeeIntents
    BY DEF CallIsSound
  <2>4. c.route = "full" => paidIn >= ContributionFee
    BY DEF CallIsSound
  <2>5. CASE RecordUnmatchedReceipt(c)
    BY <2>1, <2>5, BookKeepsTheBooks DEF RecordUnmatchedReceipt, Handle, ReceiptsTypeOK
  <2>6. CASE CreditTopup(c)
    <3>1. CASE intents[code] = "pending"
      <4>1. /\ ~AlreadyBooked(r) /\ AnswerCall(c) /\ Book(r, "matched", 0, paidIn)
            /\ UNCHANGED <<collecting, inTime, asking, bank, contribution>>
            /\ intents' = [intents EXCEPT ![code] = "completed"]
        BY <2>6, <3>1 DEF CreditTopup, Handle
      <4>2. /\ intents \in [Intents -> {"none", "pending", "completed", "failed"}]
            /\ contribution \in {"pending", "paid", "refunded", "settled"}
        BY DEF ReceiptsTypeOK
      <4> HIDE DEF r, code, paidIn
      <4>3. intents' \in [Intents -> {"none", "pending", "completed", "failed"}]
        BY ONLY <4>1, <4>2
      <4>4. 0 + paidIn = paidIn
        BY <2>1
      <4>5. QED
        BY <2>1, <4>1, <4>2, <4>3, <4>4, BookKeepsTheBooks DEF r, paidIn
    <3>2. CASE intents[code] # "pending"
      BY <2>1, <2>2, <2>6, <3>2, BookKeepsTheBooks DEF CreditTopup, Handle, ReceiptsTypeOK
    <3> QED
      BY <3>1, <3>2
  <2>7. CASE CreditAdditionalReceipt(c)
    BY <2>1, <2>7, BookKeepsTheBooks DEF CreditAdditionalReceipt, Handle, ReceiptsTypeOK
  <2>8. CASE CreditLateFee(c)
    BY <2>1, <2>2, <2>8, BookKeepsTheBooks DEF CreditLateFee, Handle, ReceiptsTypeOK
  <2>9. CASE ReserveFee(c)
    <3>1. paidIn - ContributionFee \in Nat
      BY <2>1, <2>4, <2>9 DEF ReserveFee, Handle
    <3>2. ContributionFee + (paidIn - ContributionFee) = paidIn
      BY <2>1
    <3> QED
      BY <2>1, <2>2, <2>9, <3>1, <3>2, BookKeepsTheBooks DEF ReserveFee, Handle, ReceiptsTypeOK
  <2>10. CASE CreditPartOfFee(c)
    BY <2>1, <2>10, BookKeepsTheBooks DEF CreditPartOfFee, Handle, ReceiptsTypeOK
  <2> QED
    BY <1>12, <2>5, <2>6, <2>7, <2>8, <2>9, <2>10
<1> QED
  BY <1>1, <1>3, <1>4, <1>5, <1>6, <1>7, <1>8, <1>9, <1>10, <1>11, <1>12 DEF ReceiptsNext

\* However calls of the webhook are repeated and interleaved with the other ways
\* to pay, the balance of the player never becomes negative, a receipt that was
\* answered is booked, and what it was booked for is what was received
\* (handleIncomingTransfer, recordSepayEvent).
LEMMA WebhookBooksReceipts == ReceiptsSpec => [](ReceiptsTypeOK /\ BooksAddUp)
<1>1. ReceiptsInv => ReceiptsTypeOK /\ BooksAddUp
  BY DEF ReceiptsInv
<1> QED
  BY <1>1, ReceiptsInvInit, ReceiptsInvNext, PTL DEF ReceiptsSpec

\* The balance and the fee that is held are what the player had and received.
MoneyAddsUp == balance + FeeHeld = OpeningBalance + SumFunction(Received)

LEMMA ReceivedIsLedger ==
  ASSUME ReceiptsTypeOK
  PROVE  Received \in [Receipts -> Int] /\ SumFunction(Received) \in Int
<1>1. Received \in [Receipts -> Int]
  BY DEF Received, ReceiptsTypeOK
<1>2. IsFiniteSet(Receipts)
  BY ReceiptsAssumption
<1>3. QED
  BY <1>1, <1>2, LedgerIsInteger

\* The books of a receipt change what that receipt has brought.
LEMMA ReceivedAfterBook ==
  ASSUME ReceiptsInv, ReceiptsInv', NEW r \in Receipts, booked[r] = NotBooked,
         NEW status \in {"unmatched", "matched"}, NEW fee \in Nat, NEW credit \in Nat,
         Book(r, status, fee, credit), bank' = bank
  PROVE  SumFunction(Received)' = SumFunction(Received)
                                    + (IF status = "matched" THEN bank[r].amount ELSE 0)
<1> DEFINE f == Received
<1> DEFINE g == Received'
<1>1. f \in [Receipts -> Int] /\ g \in [Receipts -> Int]
  <2>1. Received \in [Receipts -> Int]
    BY ReceivedIsLedger DEF ReceiptsInv
  <2>2. g \in [Receipts -> Int]
    BY DEF Received, ReceiptsInv, ReceiptsTypeOK
  <2>3. QED
    BY <2>1, <2>2
<1>2. /\ booked'[r].status = status
      /\ \A q \in Receipts \ {r} : booked'[q] = booked[q]
  BY DEF Book, Booking, ReceiptsInv, ReceiptsTypeOK
<1>3. /\ f[r] = 0
      /\ g[r] = IF status = "matched" THEN bank[r].amount ELSE 0
      /\ \A q \in Receipts \ {r} : g[q] = f[q]
  BY <1>2 DEF Received, MatchedReceipts, NotBooked, Booking
<1> HIDE DEF f, g
<1>4. SumFunction(g) = SumFunction(f) - f[r] + g[r]
  BY <1>1, <1>3, LedgerChanged, ReceiptsAssumption
<1>5. SumFunction(f) \in Int
  BY <1>1, LedgerIsInteger, ReceiptsAssumption
<1>6. SumFunction(g) = SumFunction(f)
                         + (IF status = "matched" THEN bank[r].amount ELSE 0)
  BY <1>1, <1>3, <1>4, <1>5
<1>7. QED
  BY <1>6 DEF f, g

LEMMA BookAddsUp ==
  ASSUME ReceiptsInv, ReceiptsInv', MoneyAddsUp, NEW c \in calls,
         NEW status \in {"unmatched", "matched"}, NEW fee \in Nat, NEW credit \in Nat,
         ~AlreadyBooked(c.receipt), Book(c.receipt, status, fee, credit), bank' = bank,
         status = "matched" => fee + credit = bank[c.receipt].amount,
         status = "unmatched" => fee = 0 /\ credit = 0,
         FeeHeld' = FeeHeld + fee
  PROVE  MoneyAddsUp'
<1> DEFINE r == c.receipt
<1>1. r \in Receipts /\ booked[r] = NotBooked /\ balance' = balance + credit
  BY DEF ReceiptsInv, ReceiptsTypeOK, AlreadyBooked, Book
<1>2. SumFunction(Received)' = SumFunction(Received)
                                 + (IF status = "matched" THEN bank[r].amount ELSE 0)
  BY <1>1, ReceivedAfterBook
<1>3. SumFunction(Received) \in Int /\ balance \in Int /\ FeeHeld \in Int
  BY ReceivedIsLedger, ReceiptsAssumption DEF ReceiptsInv, ReceiptsTypeOK, FeeHeld
<1>4. QED
  BY <1>1, <1>2, <1>3, ReceiptsAssumption DEF MoneyAddsUp

LEMMA MoneyAddsUpNext ==
  ReceiptsInv /\ ReceiptsInv' /\ MoneyAddsUp /\ [ReceiptsNext]_receiptsVars => MoneyAddsUp'
<1> SUFFICES ASSUME ReceiptsInv, ReceiptsInv', MoneyAddsUp, [ReceiptsNext]_receiptsVars
             PROVE  MoneyAddsUp'
  OBVIOUS
<1>1. ReceiptsTypeOK /\ BooksAddUp /\ ContributionFee \in Nat
  BY ReceiptsAssumption DEF ReceiptsInv
<1>2. ASSUME Received' = Received, balance' + FeeHeld' = balance + FeeHeld
      PROVE  MoneyAddsUp'
  BY <1>2 DEF MoneyAddsUp
<1>3. ASSUME bank' = bank, booked' = booked, balance' + FeeHeld' = balance + FeeHeld
      PROVE  MoneyAddsUp'
  BY <1>2, <1>3 DEF Received, MatchedReceipts
<1>4. CASE UNCHANGED receiptsVars
  BY <1>3, <1>4 DEF receiptsVars, FeeHeld
<1>5. CASE PayFeeWithBalance
  BY <1>1, <1>3, <1>5 DEF PayFeeWithBalance, FeeHeld, ReceiptsTypeOK
<1>6. CASE RefundOneFee \/ CancelFunding
  <2>1. RefundFee
    BY <1>6 DEF RefundOneFee, CancelFunding
  <2>2. QED
    BY <1>1, <1>3, <2>1 DEF RefundFee, FeeHeld, ReceiptsTypeOK
<1>7. CASE BeginSettlement \/ SettleFee \/ FeeWindowEnds
  BY <1>3, <1>7 DEF BeginSettlement, SettleFee, FeeWindowEnds, FeeHeld
<1>8. CASE \/ \E i \in FeeIntents : AskForFeeIntent(i) \/ CreateFeeIntent(i)
           \/ \E i \in TopupIntents : CreateTopupIntent(i)
           \/ \E r \in Receipts : Look(r)
           \/ \E c \in calls : AnswerRepeat(c) \/ CallFails(c)
  BY <1>3, <1>8
     DEF AskForFeeIntent, CreateFeeIntent, CreateTopupIntent, Look, AnswerRepeat,
         CallFails, FeeHeld
<1>9. CASE \E r \in Receipts, code \in Intents \cup {NoCode}, amount \in ReceiptAmounts :
             PayIn(r, code, amount)
  <2> PICK r \in Receipts, code \in Intents \cup {NoCode}, amount \in ReceiptAmounts :
             PayIn(r, code, amount)
    BY <1>9
  <2>1. booked[r] = NotBooked
    BY <1>1 DEF PayIn, BooksAddUp
  <2>2. Received' = Received
    BY <1>1, <2>1 DEF PayIn, Received, MatchedReceipts, NotBooked, Booking, ReceiptsTypeOK
  <2>3. QED
    BY <1>2, <2>2 DEF PayIn, FeeHeld
<1>10. ASSUME NEW c \in calls,
              \/ RecordUnmatchedReceipt(c) \/ CreditTopup(c) \/ CreditAdditionalReceipt(c)
              \/ CreditLateFee(c) \/ ReserveFee(c) \/ CreditPartOfFee(c)
       PROVE  MoneyAddsUp'
  <2> DEFINE r == c.receipt
  <2> DEFINE paidIn == bank[c.receipt].amount
  <2>1. r \in Receipts /\ paidIn \in Nat /\ FeeHeld \in Nat
    BY <1>1 DEF ReceiptsTypeOK, FeeHeld
  <2>2. c.route = "full" => paidIn >= ContributionFee
    BY DEF ReceiptsInv, CallIsSound
  <2>3. ~AlreadyBooked(r) /\ bank' = bank
    BY <1>10
       DEF RecordUnmatchedReceipt, CreditTopup, CreditAdditionalReceipt, CreditLateFee,
           ReserveFee, CreditPartOfFee, Handle
  <2>4. ASSUME Book(r, "unmatched", 0, 0), contribution' = contribution
        PROVE  MoneyAddsUp'
    <3>1. FeeHeld' = FeeHeld + 0
      BY <2>1, <2>4 DEF FeeHeld
    <3>2. QED
      BY <2>3, <2>4, <3>1, BookAddsUp
  <2>5. ASSUME Book(r, "matched", 0, paidIn), contribution' = contribution
        PROVE  MoneyAddsUp'
    <3>1. FeeHeld' = FeeHeld + 0 /\ 0 + paidIn = paidIn
      BY <2>1, <2>5 DEF FeeHeld
    <3>2. QED
      BY <2>1, <2>3, <2>5, <3>1, BookAddsUp
  <2>6. CASE ReserveFee(c)
    <3>1. /\ paidIn - ContributionFee \in Nat
          /\ ContributionFee + (paidIn - ContributionFee) = paidIn
      BY <1>1, <2>1, <2>2, <2>6 DEF ReserveFee, Handle
    <3>2. FeeHeld' = FeeHeld + ContributionFee
      BY <1>1, <2>6 DEF ReserveFee, PayableNow, FeeHeld
    <3>3. Book(r, "matched", ContributionFee, paidIn - ContributionFee)
      BY <2>6 DEF ReserveFee
    <3>4. QED
      BY <1>1, <2>3, <3>1, <3>2, <3>3, BookAddsUp
  <2>7. CASE RecordUnmatchedReceipt(c) \/ CreditTopup(c)
    BY <2>4, <2>5, <2>7 DEF RecordUnmatchedReceipt, CreditTopup
  <2>8. CASE CreditAdditionalReceipt(c) \/ CreditLateFee(c) \/ CreditPartOfFee(c)
    BY <2>5, <2>8 DEF CreditAdditionalReceipt, CreditLateFee, CreditPartOfFee
  <2>9. QED
    BY <1>10, <2>6, <2>7, <2>8
<1>11. QED
  BY <1>4, <1>5, <1>6, <1>7, <1>8, <1>9, <1>10 DEF ReceiptsNext

\* The three parts together: every transfer that SePay was told has been dealt
\* with is booked, is booked for what it was, and the player has in his balance
\* and in the one fee that is held all that he had and was matched to him.
THEOREM ReceiptsAreBookedOnce == ReceiptsSpec => []ReceiptsAreBooked
<1>1. ReceiptsInit => MoneyAddsUp
  <2> SUFFICES ASSUME ReceiptsInit PROVE MoneyAddsUp
    OBVIOUS
  <2>1. Received = [r \in Receipts |-> 0]
    BY DEF ReceiptsInit, Received, MatchedReceipts, NotBooked, Booking
  <2>2. SumFunction(Received) = 0
    BY <2>1, LedgerOfZeros, ReceiptsAssumption
  <2>3. QED
    BY <2>2, ReceiptsAssumption DEF ReceiptsInit, MoneyAddsUp, FeeHeld
<1>2. ReceiptsInv /\ MoneyAddsUp => ReceiptsAreBooked
  BY DEF ReceiptsInv, BooksAddUp, MoneyAddsUp, ReceiptsAreBooked, MatchedReceipts
<1>3. QED
  BY <1>1, <1>2, ReceiptsInvInit, ReceiptsInvNext, MoneyAddsUpNext, PTL DEF ReceiptsSpec
=============================================================================
