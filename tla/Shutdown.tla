------------------------------ MODULE Shutdown ------------------------------
(***************************************************************************)
(* Operational shutdowns of the courts of one venue.  A provider closes a  *)
(* court or the whole venue in one of three modes: winding_down accepts no *)
(* new commitment, scheduled_close keeps what ends before a date and       *)
(* emergency stops at once.  The transaction that confirms a shutdown      *)
(* records an item for every booking it must cancel; the jobs of the       *)
(* scheduler then cancel them one by one, ask finance for the refunds and  *)
(* bring the status of the shutdown up to date, until the provider opens   *)
(* the courts again.                                                       *)
(*                                                                         *)
(* Abstractions: the clock counts days; a booking is a commitment that is  *)
(* first a hold, then held, then confirmed (CourtSchedule has the slots);  *)
(* modeStartedAt and expectedInactiveAt are left out, because a commitment *)
(* that exists when a court winds down is older and ends in time; finance  *)
(* answers a refund or never does; nextAttemptAt is due at any moment.     *)
(***************************************************************************)
EXTENDS Integers, FiniteSets

CONSTANTS Grounds,      \* the courts of the venue
          WholeVenue,   \* the scope of the venue
          Orders,       \* ids of rows of operational_shutdowns
          Slots,        \* commitments: holds and bookings
          Nothing,      \* no row
          Attempts,     \* attempts before a person must look
          LastDay       \* bound on the clock: the last day on which a commitment ends

ASSUME ShutdownAssumption ==
  /\ WholeVenue \notin Grounds
  /\ Attempts \in Nat \ {0} /\ LastDay \in Nat

VARIABLES
  day,          \* the clock
  open,         \* courts.active
  order,        \* operational_shutdowns
  commitment,   \* holds and bookings
  item,         \* operational_shutdown_items: at most one for a booking
  refundAsked   \* bookings whose refund was asked of finance, until it answers

shutdownVars == <<day, open, order, commitment, item, refundAsked>>

Scopes == Grounds \cup {WholeVenue}
Modes == {"winding_down", "scheduled_close", "emergency"}
Never == LastDay + 1   \* later than the end of every commitment

OrderRow == [scope : Scopes, mode : Modes,
             status : {"winding_down", "scheduled_close", "inactive"},
             resolution : {"not_required", "processing", "needs_attention", "completed"},
             effectiveAt : 0..Never, originals : SUBSET Grounds, ended : BOOLEAN]

CommitmentRow == [status : {"hold", "held", "confirmed", "completed", "cancelled"},
                  ground : Grounds, end : 1..LastDay,
                  source : {"marketplace", "match", "internal"}]

Finished == {"refunded", "cancelled_no_platform_refund", "cancelled_unpaid"}

ItemRow == [order : Orders, attempts : 0..Attempts, reported : BOOLEAN,
            path : {"none", "booking", "match"},
            status : Finished \cup {"identified", "cancelled_refund_processing",
                                    "needs_attention"}]

\* a row is never the mark of no row
ASSUME ShutdownRowAssumption ==
  /\ Nothing \notin OrderRow /\ Nothing \notin CommitmentRow /\ Nothing \notin ItemRow

ShutdownTypeOK ==
  /\ day \in 0..LastDay
  /\ open \in [Grounds -> BOOLEAN]
  /\ order \in [Orders -> OrderRow \cup {Nothing}]
  /\ commitment \in [Slots -> CommitmentRow \cup {Nothing}]
  /\ item \in [Slots -> ItemRow \cup {Nothing}]
  /\ refundAsked \subseteq Slots

-----------------------------------------------------------------------------
(* Which commitments a court accepts                                       *)

GroundsOf(scope) == IF scope = WholeVenue THEN Grounds ELSE {scope}
Live == {o \in Orders : order[o] # Nothing /\ ~order[o].ended}
LiveOver(g) == {o \in Live : g \in GroundsOf(order[o].scope)}
LiveOf(scope) == {o \in Live : order[o].scope = scope}

\* canCommitDuringShutdown
CanCommit(row, end, existing) ==
  CASE row.mode = "emergency" -> FALSE
    [] row.mode = "scheduled_close" -> end <= row.effectiveAt
    [] row.mode = "winding_down" -> existing

\* Mutant: a shutdown of the whole venue is not looked at.
AcceptsByOwnScope(g, end, existing) ==
  \A o \in LiveOf(g) : CanCommit(order[o], end, existing)

\* assertCourtAcceptsCommitment: every shutdown of the court and of its venue
AcceptsCommitment(g, end, existing) ==
  \A o \in LiveOver(g) : CanCommit(order[o], end, existing)

Exists(s) == commitment[s] # Nothing
Booked(s) == Exists(s) /\ commitment[s].status \in {"held", "confirmed"}
Engaged(s) == Exists(s) /\ commitment[s].status \in {"hold", "held", "confirmed"}

SetStatus(s, status) == commitment' = [commitment EXCEPT ![s].status = status]

-----------------------------------------------------------------------------
(* Players and owners                                                      *)

\* createHold and createInternalBooking
CommitSlot(s, g, end, source) ==
  /\ commitment[s] = Nothing
  /\ open[g] /\ end > day /\ AcceptsCommitment(g, end, FALSE)
  /\ commitment' = [commitment EXCEPT ![s] =
       [status |-> IF source = "internal" THEN "confirmed" ELSE "hold",
        ground |-> g, end |-> end, source |-> source]]
  /\ UNCHANGED <<day, open, order, item, refundAsked>>

BookHeldSlot(s) ==
  /\ Exists(s) /\ commitment[s].status = "hold"
  /\ AcceptsCommitment(commitment[s].ground, commitment[s].end, TRUE)
  /\ SetStatus(s, "held")
  /\ UNCHANGED <<day, open, order, item, refundAsked>>

\* handlePaymentCompleted: a court that is being shut down refuses the payment.
\* The booking is cancelled, or left to its item; an item makes the refund of the
\* late payment a refund of the shutdown
PaySlot(s) ==
  LET row == commitment[s]
      payable == row.status = "held" /\ AcceptsCommitment(row.ground, row.end, TRUE)
  IN
  /\ Exists(s) /\ row.source = "marketplace" /\ row.status \in {"held", "cancelled"}
  /\ \/ payable /\ SetStatus(s, "confirmed") /\ UNCHANGED refundAsked
     \/ /\ ~payable
        /\ IF item[s] = Nothing
           THEN SetStatus(s, "cancelled") /\ UNCHANGED refundAsked
           ELSE refundAsked' = refundAsked \cup {s} /\ UNCHANGED commitment
  /\ UNCHANGED <<day, open, order, item>>

\* resolveMatchBooking: the settlement of a match that holds its court
SettleSlot(s) ==
  /\ Exists(s) /\ commitment[s].source = "match" /\ commitment[s].status = "held"
  /\ AcceptsCommitment(commitment[s].ground, commitment[s].end, TRUE)
  /\ SetStatus(s, "confirmed")
  /\ UNCHANGED <<day, open, order, item, refundAsked>>

\* the hold expires: the jobs of CourtSchedule do not look at items
ExpireSlot(s) ==
  /\ Exists(s) /\ commitment[s].status \in {"hold", "held"}
  /\ SetStatus(s, "cancelled")
  /\ UNCHANGED <<day, open, order, item, refundAsked>>

\* cancelBookingByPlayer and cancelInternalBooking
CancelSlot(s) ==
  /\ Exists(s) /\ commitment[s].status = "confirmed"
  /\ item[s] = Nothing \/ commitment[s].source = "internal"
  /\ SetStatus(s, "cancelled")
  /\ UNCHANGED <<day, open, order, item, refundAsked>>

\* changeBookingCourt
MoveSlot(s, g) ==
  /\ Exists(s) /\ commitment[s].status = "confirmed" /\ commitment[s].ground # g
  /\ item[s] = Nothing /\ open[g]
  /\ AcceptsCommitment(g, commitment[s].end, FALSE)
  /\ commitment' = [commitment EXCEPT ![s].ground = g]
  /\ UNCHANGED <<day, open, order, item, refundAsked>>

CompleteSlot(s) ==
  /\ Exists(s) /\ commitment[s].status = "confirmed" /\ commitment[s].end <= day
  /\ SetStatus(s, "completed")
  /\ UNCHANGED <<day, open, order, item, refundAsked>>

\* activateCourt, the switch outside a shutdown
ActivateCourt(g) ==
  /\ ~open[g] /\ LiveOver(g) = {}
  /\ open' = [open EXCEPT ![g] = TRUE]
  /\ UNCHANGED <<day, order, commitment, item, refundAsked>>

-----------------------------------------------------------------------------
(* The shutdown                                                            *)

\* impactSnapshot: bookings that end after the cutoff and that no shutdown has
\* taken yet, and the holds behind no booking
Affected(scope, effectiveAt) ==
  {s \in Slots : /\ Booked(s) /\ item[s] = Nothing
                 /\ commitment[s].ground \in GroundsOf(scope)
                 /\ commitment[s].end > day /\ commitment[s].end > effectiveAt}

AffectedHolds(scope, effectiveAt) ==
  {s \in Slots : /\ Exists(s) /\ commitment[s].status = "hold"
                 /\ commitment[s].ground \in GroundsOf(scope)
                 /\ commitment[s].end > effectiveAt}

CutoffOf(mode, closeDay) == CASE mode = "winding_down" -> Never
                              [] mode = "scheduled_close" -> closeDay
                              [] mode = "emergency" -> day

\* the row of the scope that is live, or a new one
OrderFor(o, scope) == IF LiveOf(scope) # {} THEN o \in LiveOf(scope) ELSE order[o] = Nothing

\* confirmOperationalShutdown, under the locks of the scope and of its courts
ConfirmShutdown(o, scope, mode, closeDay) ==
  LET cutoff == CutoffOf(mode, closeDay)
      affected == Affected(scope, cutoff)
      current == order[o]
  IN
  /\ OrderFor(o, scope)
  /\ mode = "scheduled_close" => closeDay > day
  /\ current # Nothing => (current.mode = "emergency" => mode = "emergency")
  /\ order' = [order EXCEPT ![o] =
       [scope |-> scope, mode |-> mode, ended |-> FALSE, effectiveAt |-> cutoff,
        status |-> IF mode = "emergency" THEN "inactive" ELSE mode,
        resolution |-> IF current # Nothing /\ current.resolution = "needs_attention"
                       THEN "needs_attention"
                       ELSE IF affected # {} THEN "processing"
                       ELSE IF current # Nothing THEN current.resolution ELSE "not_required",
        originals |-> IF current # Nothing THEN current.originals
                      ELSE {g \in GroundsOf(scope) : open[g]}]]
  /\ item' = [s \in Slots |->
       IF s \in affected
       THEN [order |-> o, attempts |-> 0, reported |-> FALSE, path |-> "none",
             status |-> "identified"]
       ELSE item[s]]
  /\ commitment' = [s \in Slots |-> IF s \in AffectedHolds(scope, cutoff)
                                    THEN [commitment[s] EXCEPT !.status = "cancelled"]
                                    ELSE commitment[s]]
  /\ open' = [g \in Grounds |-> open[g] /\ ~(mode = "emergency" /\ g \in GroundsOf(scope))]
  /\ UNCHANGED <<day, refundAsked>>

Identified(s) == item[s] # Nothing /\ item[s].status = "identified"

\* processShutdownItem: the booking, its events and the item in one transaction
ProcessShutdownItem(s) ==
  LET wasConfirmed == commitment[s].status = "confirmed"
      owed == commitment[s].source # "internal" /\ (wasConfirmed \/ commitment[s].source = "match")
  IN
  /\ Identified(s) /\ Booked(s)
  /\ SetStatus(s, "cancelled")
  /\ refundAsked' = IF owed THEN refundAsked \cup {s} ELSE refundAsked
  /\ item' = [item EXCEPT ![s].attempts = @ + 1,
       ![s].status = IF item[s].reported THEN "refunded"
                     ELSE IF commitment[s].source = "internal" THEN "cancelled_no_platform_refund"
                     ELSE IF owed THEN "cancelled_refund_processing" ELSE "cancelled_unpaid",
       ![s].path = IF ~owed THEN "none" ELSE IF wasConfirmed THEN "booking" ELSE "match"]
  /\ UNCHANGED <<day, open, order>>

\* the transaction of an item throws: the booking has left held and confirmed,
\* or the service stopped on its way
ShutdownItemFails(s) ==
  /\ Identified(s)
  /\ item' = [item EXCEPT ![s].attempts = @ + 1,
                          ![s].status = IF item[s].attempts + 1 >= Attempts
                                        THEN "needs_attention" ELSE @]
  /\ UNCHANGED <<day, open, order, commitment, refundAsked>>

\* Mutant: finance is asked again and again, and nobody is told.
RetryPendingRefundForever(s) ==
  /\ item[s] # Nothing /\ item[s].status = "cancelled_refund_processing"
  /\ item' = [item EXCEPT ![s].attempts = IF @ < Attempts THEN @ + 1 ELSE @]
  /\ refundAsked' = refundAsked \cup {s}
  /\ UNCHANGED <<day, open, order, commitment>>

RetryPendingRefund(s) ==
  /\ item[s] # Nothing /\ item[s].status = "cancelled_refund_processing"
  /\ IF item[s].attempts >= Attempts
     THEN /\ item' = [item EXCEPT ![s].status = "needs_attention"]
          /\ UNCHANGED refundAsked
     ELSE /\ item' = [item EXCEPT ![s].attempts = @ + 1]
          /\ refundAsked' = refundAsked \cup {s}
  /\ UNCHANGED <<day, open, order, commitment>>

\* finance has refunded the booking, the match or the late payment
RecordShutdownRefundCompleted(s) ==
  /\ s \in refundAsked
  /\ refundAsked' = refundAsked \ {s}
  /\ item' = [item EXCEPT ![s].reported = TRUE,
       ![s].status = IF @ \in {"cancelled_refund_processing", "cancelled_unpaid",
                               "needs_attention"} THEN "refunded" ELSE @]
  /\ UNCHANGED <<day, open, order, commitment>>

ItemsOf(o) == {s \in Slots : item[s] # Nothing /\ item[s].order = o}

ResolutionOf(o) ==
  CASE ItemsOf(o) = {} -> "not_required"
    [] \E s \in ItemsOf(o) : item[s].status = "needs_attention" -> "needs_attention"
    [] \A s \in ItemsOf(o) : item[s].status \in Finished -> "completed"
    [] OTHER -> "processing"

Drained(scope) == ~ \E s \in Slots : /\ Engaged(s) /\ commitment[s].end > day
                                     /\ commitment[s].ground \in GroundsOf(scope)

BecomesInactive(row) ==
  \/ row.mode = "scheduled_close" /\ row.effectiveAt <= day
  \/ row.mode = "winding_down" /\ Drained(row.scope)

RefreshShutdownStatus(o) ==
  LET row == order[o]
      status == IF BecomesInactive(row) THEN "inactive" ELSE row.status
  IN
  /\ o \in Live
  /\ status # row.status \/ ResolutionOf(o) # row.resolution
  /\ order' = [order EXCEPT ![o].status = status, ![o].resolution = ResolutionOf(o)]
  /\ open' = [g \in Grounds |-> open[g] /\ ~(/\ status # row.status
                                             /\ g \in GroundsOf(row.scope))]
  /\ UNCHANGED <<day, commitment, item, refundAsked>>

\* Mutant: the items of the shutdown are not looked at.
MayReactivateAlways(o) == TRUE

MayReactivate(o) ==
  \A s \in ItemsOf(o) : /\ item[s].status # "identified"
                        /\ item[s].status = "needs_attention" => ~Booked(s)

\* reactivateOperationalShutdown: the courts that were active come back, unless
\* another shutdown covers them
Reactivate(o) ==
  /\ o \in Live /\ order[o].status = "inactive" /\ MayReactivate(o)
  /\ order' = [order EXCEPT ![o].ended = TRUE]
  /\ open' = [g \in Grounds |-> open[g] \/ (g \in order[o].originals /\ LiveOver(g) = {o})]
  /\ UNCHANGED <<day, commitment, item, refundAsked>>

DayEnds ==
  /\ day < LastDay /\ day' = day + 1
  /\ UNCHANGED <<open, order, commitment, item, refundAsked>>

-----------------------------------------------------------------------------
(* Specification                                                           *)

ShutdownInit ==
  /\ day = 0 /\ open = [g \in Grounds |-> TRUE]
  /\ order = [o \in Orders |-> Nothing]
  /\ commitment = [s \in Slots |-> Nothing]
  /\ item = [s \in Slots |-> Nothing]
  /\ refundAsked = {}

SlotNext(s) ==
  \/ \E g \in Grounds, end \in 1..LastDay, source \in {"marketplace", "match", "internal"} :
       CommitSlot(s, g, end, source)
  \/ BookHeldSlot(s) \/ PaySlot(s) \/ SettleSlot(s) \/ ExpireSlot(s) \/ CancelSlot(s) \/ CompleteSlot(s)
  \/ \E g \in Grounds : MoveSlot(s, g)

ItemNext(s) ==
  \/ ProcessShutdownItem(s) \/ ShutdownItemFails(s) \/ RetryPendingRefund(s)
  \/ RecordShutdownRefundCompleted(s)

OwnerNext ==
  \/ \E g \in Grounds : ActivateCourt(g)
  \/ \E o \in Orders, scope \in Scopes, mode \in Modes, closeDay \in 1..(LastDay - 1) :
       ConfirmShutdown(o, scope, mode, closeDay)
  \/ \E o \in Orders : Reactivate(o)

ShutdownNext ==
  \/ \E s \in Slots : SlotNext(s) \/ ItemNext(s)
  \/ OwnerNext
  \/ \E o \in Orders : RefreshShutdownStatus(o)
  \/ DayEnds

ShutdownSpec == ShutdownInit /\ [][ShutdownNext]_shutdownVars

\* the jobs of startReapScheduler run every thirty seconds, and the clock goes on
ShutdownFairness ==
  /\ WF_shutdownVars(DayEnds)
  /\ \A s \in Slots :
       /\ WF_shutdownVars(ProcessShutdownItem(s) \/ ShutdownItemFails(s))
       /\ WF_shutdownVars(RetryPendingRefund(s))
       /\ WF_shutdownVars(ExpireSlot(s)) /\ WF_shutdownVars(CompleteSlot(s))
  /\ \A o \in Orders : WF_shutdownVars(RefreshShutdownStatus(o))

-----------------------------------------------------------------------------
(* Properties                                                              *)

\* no commitment outlives the cutoff of a shutdown, except a booking that an
\* item is about to cancel or that a person has to look at, and one that had a late
\* payment refunded before its item could cancel it
CutoffIsKept ==
  \A s \in Slots : Engaged(s) =>
    \A o \in LiveOver(commitment[s].ground) :
      order[o].mode # "winding_down" /\ commitment[s].end > order[o].effectiveAt
        => /\ Booked(s) /\ item[s] # Nothing
           /\ item[s].status \in {"identified", "needs_attention"} \/ item[s].reported

\* a court is not open while a shutdown that covers it is inactive
InactiveMeansClosed ==
  \A o \in Live : order[o].status = "inactive" =>
    \A g \in GroundsOf(order[o].scope) : ~open[g]

\* a shutdown that has ended has cancelled everything it had to cancel, except a
\* held booking whose late payment was refunded while its item was failing
EndedShutdownIsDone ==
  \A s \in Slots :
    item[s] # Nothing /\ order[item[s].order].ended /\ ~item[s].reported => ~Booked(s)

\* every cancellation of a shutdown comes to its end, or a person is told
ShutdownItemsEnd ==
  \A s \in Slots :
    (item[s] # Nothing) ~> (item[s] # Nothing /\ item[s].status \in Finished \cup {"needs_attention"})
=============================================================================
