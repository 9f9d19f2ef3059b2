---------------------------- MODULE MatchFunding ----------------------------
(***************************************************************************)
(* One match of the platform, from MatchCreated to its settlement or its   *)
(* cancellation, across three services that share no database:            *)
(*                                                                         *)
(*   matchmaking  the match, its joins and the commands it has issued;     *)
(*   finance      the funding of the match: one contribution per player,   *)
(*                reserved on the wallet of the platform;                  *)
(*   venue        the booking of the court, fenced by a revision, and the  *)
(*                durable answer to every command it has decided.          *)
(*                                                                         *)
(* Services talk through `mail`, a set of events in flight.  A consumer    *)
(* starts the handler of an event without waiting for the one before it    *)
(* and requeues an event that fails, so events are handled in any order;   *)
(* an outbox row is published until it is consumed, and processed_events   *)
(* makes its handler run once.  A handler that fails twice drops the event *)
(* (matchmaking, venue) or puts it in quarantine (finance): `lost`.        *)
(*                                                                         *)
(* Abstractions: one match and one booking; prices are constants; the      *)
(* player who joins is his JOIN row; JOINs of the doubles partner invite   *)
(* (payerUserId) are in PartnerInvites; notifications are left out; the    *)
(* clock is a phase: 0 the ten minutes of the deposit, 1 until the cutoff, *)
(* 2 the five minutes of grace of the hold, 3 afterwards.                  *)
(***************************************************************************)
EXTENDS Integers, FiniteSets

CONSTANTS Joins,           \* the JOIN rows players may create
          Organizer,       \* the contribution of the organizer
          Commands,        \* the command and attempt UUIDs the model can draw
          None,
          Sources,         \* how the court was obtained: "hold", "paid_booking"
          Slots,           \* places beside the organizer's: capacity - 1
          FeePerSlot, OrganizerShare, BookingPrice, ResultReserve,
          MaxRequests      \* bound: JOINs requested and commands issued

Payers == Joins \cup {Organizer}

\* calculateMatchFunding: every unit of the contributions is accounted for.
ASSUME FundingAssumption ==
  /\ Sources \subseteq {"hold", "paid_booking"}
  /\ Slots \in Nat \ {0}
  /\ FeePerSlot \in Nat \ {0} /\ OrganizerShare \in Nat
  /\ BookingPrice \in Nat /\ ResultReserve \in Nat
  /\ FeePerSlot * Slots + OrganizerShare = BookingPrice + ResultReserve
  /\ IsFiniteSet(Joins)
  /\ Organizer \notin Joins
  /\ None \notin Commands

VARIABLES
  source,         \* the source of the match, chosen when it is created
  match,          \* matchmaking: the match row
  joins,          \* matchmaking: the status of each JOIN
  lateJoins,      \* JOINs approved more than ten minutes ago
  issued,         \* matchmaking: the command drawn under each UUID
  decided,        \* matchmaking: the decision recorded for each command
  deposit,        \* the activateMatchHold call of the handler of the deposit
  booking,        \* venue: the booking of the match
  commands,       \* venue: the stored answer to each command
  funding,        \* finance: the match funding row
  contributions,  \* finance: the status of each contribution
  poolReserved,   \* finance: platform.reserved held for this match
  paying,         \* finance: payments between their last read and their commit
  overtaken,      \* history: contributions whose cancellation finance has
                  \* handled before their payment
  mail,           \* events in flight
  lost,           \* events dropped or quarantined
  phase           \* the clock

matchVars == <<match, joins, lateJoins, issued, decided, deposit>>
venueVars == <<booking, commands>>
financeVars == <<funding, contributions, poolReserved, paying, overtaken>>
fundingVars == <<source, matchVars, venueVars, financeVars, mail, lost, phase>>

-----------------------------------------------------------------------------
(* Types                                                                   *)

Decisions == {"confirmed", "held_revoked", "cancelled"}

MatchRow == [status : {"awaiting_deposit", "open", "filled", "confirmed",
                       "completed", "cancelled"},
             organizerPaid : BOOLEAN, requested : BOOLEAN, ended : BOOLEAN,
             attempt : Commands \cup {None}, revision : Nat]

Command == [action : {"settle", "withdraw", "cancel"},
            about : Joins \cup {None, "organizer", "cutoff"},
            attempt : Commands \cup {None}, revision : Nat]

Answer == [decision : Decisions, winner : Commands \cup {None}, revision : Nat]

\* why a match was cancelled, as far as a handler tells the reasons apart:
\* "other" stands for organizer, cutoff and shutdown
Reasons == {"confirmed_booking_policy", "other"}

Event(to, type, about) == [to |-> to, type |-> type, about |-> about]

Events ==
  {Event("finance", type, None) : type \in {"MatchCreated", "BookingCancelled",
                                            "MatchResultFinalized"}}
  \cup {Event("finance", type, j) : type \in {"JoinApproved", "MatchFeeRefundRequested"},
                                    j \in Joins}
  \cup {Event(to, "MatchCancelled", r) : to \in {"finance", "venue"}, r \in Reasons}
  \cup {Event("finance", type, k) : type \in {"MatchConfirmed", "MatchSettlementRequested"},
                                    k \in Commands}
  \cup {Event(to, "MatchBookingResolved", k) : to \in {"finance", "matchmaking"},
                                               k \in Commands}
  \cup {Event("matchmaking", "PaymentCompleted", p) : p \in Payers}
  \cup {Event("matchmaking", type, None) : type \in {"BookingConfirmed",
                            "BookingCompleted", "MatchFundingCompleted"}}
  \cup {Event("matchmaking", "ShutdownBookingCancellationRequested", was) :
          was \in {"held", "confirmed"}}
  \cup {Event("venue", "Settle", k) : k \in Commands}

MatchTypeOK ==
  /\ source \in Sources
  /\ match \in MatchRow
  /\ joins \in [Joins -> {"none", "approved", "confirmed", "rejected", "withdrawn"}]
  /\ lateJoins \subseteq Joins
  /\ DOMAIN issued \subseteq Commands /\ \A k \in DOMAIN issued : issued[k] \in Command
  /\ decided \in [Commands -> Decisions \cup {"pending"}]
  /\ deposit \in {"none", "activated", "too_late"}
  /\ booking \in [status : {"held", "confirmed", "completed", "cancelled", "deleted"},
                  revision : Nat, winner : Commands \cup {None},
                  active : BOOLEAN, by : {None, "self", "provider_fault"}]
  /\ DOMAIN commands \subseteq Commands /\ \A k \in DOMAIN commands : commands[k] \in Answer
  /\ funding \in [status : {"none", "collecting", "settling", "settled", "cancelled"},
                  attempt : Commands \cup {None}, revision : Nat,
                  reserve : {"none", "locked", "refunded", "released"}]
  /\ contributions \in [Payers -> {"none", "pending", "paid", "settled", "refunded"}]
  /\ poolReserved \in Nat
  /\ paying \subseteq Payers /\ overtaken \subseteq Payers
  /\ mail \subseteq Events /\ lost \subseteq Events
  /\ phase \in 0..3

-----------------------------------------------------------------------------
(* Helpers                                                                 *)

Post(events) == mail' = mail \cup events
Handled(e) == mail' = mail \ {e}
HandledAndPost(e, events) == mail' = (mail \ {e}) \cup events

Confirmed == {j \in Joins : joins[j] = "confirmed"}
Taken == {j \in Joins : joins[j] \in {"approved", "confirmed"} /\ ~(joins[j] = "approved" /\ j \in lateJoins)}
PaidJoins == {j \in Joins : contributions[j] = "paid"}

\* money in platform.reserved behind a contribution: the organizer of a paid
\* booking contributes the booking itself
Cash(p) == p # Organizer \/ source = "hold"
Amount(p) == IF p = Organizer THEN OrganizerShare ELSE FeePerSlot

PaidReserve(c) ==
  FeePerSlot * Cardinality({j \in Joins : c[j] = "paid"})
    + (IF source = "hold" /\ c[Organizer] = "paid" THEN OrganizerShare ELSE 0)

\* the hold has not expired: ten minutes, or the cutoff and five minutes of
\* grace once the deposit has activated it
Unexpired == phase = 0 \/ (booking.active /\ phase < 3)
HeldAndPayable == booking.status = "held" /\ Unexpired

BelowBound ==
  Cardinality({j \in Joins : joins[j] # "none"}) + Cardinality(DOMAIN issued) < MaxRequests
Fresh(k) == k \in Commands \ DOMAIN issued /\ BelowBound
Issue(k, action, about) ==
  issued' = [c \in DOMAIN issued \cup {k} |->
               IF c = k THEN [action |-> action, about |-> about,
                              attempt |-> IF action = "settle" THEN k ELSE match.attempt,
                              revision |-> match.revision]
               ELSE issued[c]]

MatchCancelled(reason) == {Event("finance", "MatchCancelled", reason),
                           Event("venue", "MatchCancelled", reason)}
AllWithdrawn == [j \in Joins |-> IF joins[j] \in {"approved", "confirmed"}
                                 THEN "withdrawn" ELSE joins[j]]
Later(a, b) == IF a > b THEN a ELSE b
AtRevision(m, revision) == [m EXCEPT !.revision = Later(@, revision)]

-----------------------------------------------------------------------------
(* Matchmaking: joins                                                      *)

\* `updateMany` of approved joins out of their ten minutes, and the new join
RequestJoin(j) ==
  /\ joins[j] = "none" /\ BelowBound
  /\ match.status = "open" /\ phase < 2
  /\ Cardinality(Taken) < Slots
  /\ joins' = [i \in Joins |-> IF i = j THEN "approved"
                               ELSE IF joins[i] = "approved" /\ i \in lateJoins THEN "rejected"
                               ELSE joins[i]]
  /\ Post({Event("finance", "JoinApproved", j)})
  /\ UNCHANGED <<source, match, lateJoins, issued, decided, deposit, venueVars,
                 financeVars, lost, phase>>

JoinWindowEnds(j) ==
  /\ joins[j] = "approved" /\ j \notin lateJoins
  /\ lateJoins' = lateJoins \cup {j}
  /\ UNCHANGED <<source, match, joins, issued, decided, deposit, venueVars,
                 financeVars, mail, lost, phase>>

ReleaseExpiredApprovedJoins ==
  /\ \E j \in lateJoins : joins[j] = "approved"
  /\ joins' = [j \in Joins |-> IF joins[j] = "approved" /\ j \in lateJoins
                               THEN "rejected" ELSE joins[j]]
  /\ UNCHANGED <<source, match, lateJoins, issued, decided, deposit, venueVars,
                 financeVars, mail, lost, phase>>

\* a player leaves a match made from a paid booking: venue is not involved
WithdrawFromPaidBookingMatch(j) ==
  /\ source = "paid_booking" /\ phase < 2 /\ ~match.requested
  /\ joins[j] \in {"approved", "confirmed"}
  /\ joins' = [joins EXCEPT ![j] = "withdrawn"]
  /\ match' = [match EXCEPT !.status = IF @ = "filled" THEN "open" ELSE @]
  /\ Post(IF joins[j] = "confirmed"
          THEN {Event("finance", "MatchFeeRefundRequested", j)} ELSE {})
  /\ UNCHANGED <<source, lateJoins, issued, decided, deposit, venueVars,
                 financeVars, lost, phase>>

Pending(k, action, about) ==
  /\ k \in DOMAIN issued /\ decided[k] = "pending"
  /\ issued[k].action = action /\ (action = "cancel" \/ issued[k].about = about)

\* beginResolution: the command is on disk before venue is called, and a retry
\* finds it there
BeginResolution(k, action, about) ==
  /\ source = "hold"
  /\ Fresh(k) /\ ~ \E c \in Commands : Pending(c, action, about)
  /\ Issue(k, action, about)
  /\ UNCHANGED <<source, match, joins, lateJoins, decided, deposit, venueVars,
                 financeVars, mail, lost, phase>>

WithdrawJoin(j, k) ==
  /\ joins[j] \in {"approved", "confirmed"} /\ phase < 2
  /\ BeginResolution(k, "withdraw", j)

-----------------------------------------------------------------------------
(* Matchmaking: settlement and cancellation                                *)

\* requestFundingIfReadyInTransaction, its early returns
FundingReady(m, confirmed) ==
  /\ m.status = "filled" /\ m.organizerPaid /\ ~m.requested /\ phase >= 2
  /\ booking.status = (IF source = "paid_booking" THEN "confirmed" ELSE "held")
  /\ Cardinality(confirmed) = Slots

FundingUnderWay ==
  /\ match.status = "filled" /\ match.organizerPaid
  /\ match.requested \/ (source = "hold" /\ booking.status = "confirmed" /\ phase >= 2)

RequestMatchFundingAtCutoff(k) ==
  /\ Fresh(k) /\ FundingReady(match, Confirmed)
  /\ Issue(k, "settle", None)
  /\ match' = [match EXCEPT !.requested = TRUE, !.attempt = k]
  /\ Post({Event("finance", "MatchConfirmed", k)})
  /\ UNCHANGED <<source, joins, lateJoins, decided, deposit, venueVars,
                 financeVars, lost, phase>>

\* the court of a paid booking stays with its owner
ClosePaidBookingMatchLayer ==
  /\ source = "paid_booking"
  /\ match.status \in {"open", "filled"} /\ ~match.requested
  /\ joins' = AllWithdrawn
  /\ match' = [match EXCEPT !.status = "cancelled"]
  /\ Post(MatchCancelled("other"))
  /\ UNCHANGED <<source, lateJoins, issued, decided, deposit, venueVars,
                 financeVars, lost, phase>>

\* one match of the sweep: ask for the settlement, else cancel
CancelMatchAtCutoff ==
  /\ phase >= 2 /\ match.status \in {"open", "filled"}
  /\ ~FundingUnderWay /\ ~FundingReady(match, Confirmed)
  /\ \/ ClosePaidBookingMatchLayer
     \/ \E k \in Commands : BeginResolution(k, "cancel", "cutoff")

\* the organizer confirmed his intent to cancel, and venue answered that the
\* booking is confirmed: only the policy of the booking can cancel it now
PolicyIntent == \E k \in DOMAIN issued : /\ issued[k].action = "cancel"
                                         /\ issued[k].about = "organizer"
                                         /\ decided[k] = "confirmed"

CancelMatchByOrganizer ==
  /\ ~PolicyIntent
  /\ match.status = "cancelled" \/ (phase < 2 /\ ~match.requested)
  /\ \/ ClosePaidBookingMatchLayer
     \/ \E k \in Commands : BeginResolution(k, "cancel", "organizer")

FinalizeConfirmedPolicyCancellation ==
  /\ PolicyIntent /\ booking.status = "cancelled" /\ booking.by = "self"
  /\ match.status # "cancelled"
  /\ joins' = AllWithdrawn
  /\ match' = [match EXCEPT !.status = "cancelled"]
  /\ Post(MatchCancelled("confirmed_booking_policy"))
  /\ UNCHANGED <<source, lateJoins, issued, decided, deposit, venueVars,
                 financeVars, lost, phase>>

CancelExpiredDepositMatch ==
  /\ match.status = "awaiting_deposit" /\ phase >= 1
  /\ match' = [match EXCEPT !.status = "cancelled"]
  /\ Post(MatchCancelled("other"))
  /\ UNCHANGED <<source, joins, lateJoins, issued, decided, deposit, venueVars,
                 financeVars, lost, phase>>

\* applyMatchBookingResolution, on the HTTP answer of venue, on its event, or
\* when the booking has been deleted and venue answers BOOKING_NOT_FOUND
ResolutionApplied(k, answer) ==
  LET j == issued[k].about
      same == match.attempt = issued[k].attempt
      m == AtRevision(match, answer.revision)
  IN
  /\ decided[k] = "pending" /\ issued[k].action \in {"withdraw", "cancel"}
  /\ decided' = [decided EXCEPT ![k] = answer.decision]
  /\ \/ /\ issued[k].action = "withdraw" /\ answer.decision = "held_revoked"
        /\ joins' = [joins EXCEPT ![j] = IF @ \in {"approved", "confirmed"} THEN "withdrawn" ELSE @]
        /\ match' = [m EXCEPT !.status = IF @ = "filled" THEN "open" ELSE @,
                              !.requested = @ /\ ~same,
                              !.attempt = IF same THEN None ELSE @]
        /\ Post(IF joins[j] = "confirmed"
                THEN {Event("finance", "MatchFeeRefundRequested", j)} ELSE {})
     \/ /\ issued[k].action = "withdraw" /\ answer.decision = "confirmed"
        /\ joins' = [joins EXCEPT ![j] = IF @ \in {"approved", "confirmed"} THEN "withdrawn" ELSE @]
        /\ match' = [m EXCEPT !.status = "confirmed"]
        /\ UNCHANGED mail
     \/ /\ issued[k].action = "withdraw" /\ answer.decision = "cancelled"
        /\ UNCHANGED <<joins, match, mail>>
     \/ /\ issued[k].action = "cancel" /\ answer.decision = "cancelled"
        /\ joins' = AllWithdrawn
        /\ match' = [m EXCEPT !.status = "cancelled", !.requested = FALSE, !.attempt = None]
        /\ Post(MatchCancelled("other"))
     \/ /\ issued[k].action = "cancel" /\ answer.decision = "confirmed"
        /\ match' = [m EXCEPT !.status = "confirmed"]
        /\ UNCHANGED <<joins, mail>>
     \/ /\ issued[k].action = "cancel" /\ answer.decision = "held_revoked"
        /\ match' = m
        /\ UNCHANGED <<joins, mail>>

ApplyMatchBookingResolution(k) ==
  /\ k \in DOMAIN commands
  /\ ResolutionApplied(k, commands[k])
  /\ UNCHANGED <<source, lateJoins, issued, deposit, venueVars, financeVars, lost, phase>>

CancelWithoutBooking(k) ==
  /\ k \in DOMAIN issued /\ booking.status = "deleted" /\ issued[k].action = "cancel"
  /\ ResolutionApplied(k, [decision |-> "cancelled", winner |-> None,
                           revision |-> issued[k].revision])
  /\ UNCHANGED <<source, lateJoins, issued, deposit, venueVars, financeVars, lost, phase>>

-----------------------------------------------------------------------------
(* Matchmaking: events                                                     *)

\* the handler of the organizer's deposit asks venue, before its transaction,
\* to keep the court until the cutoff; 409 means that the court is gone
ActivateMatchHold ==
  /\ Event("matchmaking", "PaymentCompleted", Organizer) \in mail
  /\ match.status = "awaiting_deposit" /\ deposit = "none"
  /\ booking.status # "deleted"
  /\ \/ /\ HeldAndPayable
        /\ booking' = [booking EXCEPT !.active = TRUE]
        /\ deposit' = "activated"
     \/ /\ ~HeldAndPayable
        /\ deposit' = "too_late"
        /\ UNCHANGED booking
  /\ UNCHANGED <<source, match, joins, lateJoins, issued, decided, commands,
                 financeVars, mail, lost, phase>>

HandleDepositPaid ==
  LET e == Event("matchmaking", "PaymentCompleted", Organizer) IN
  /\ e \in mail /\ booking.status # "deleted"
  /\ match.status = "awaiting_deposit" => deposit # "none"
  /\ \/ /\ deposit = "too_late"
        /\ IF match.status \in {"cancelled", "confirmed"}
           THEN Handled(e) /\ UNCHANGED match
           ELSE /\ match' = [match EXCEPT !.status = "cancelled"]
                /\ HandledAndPost(e, MatchCancelled("other"))
     \/ /\ deposit # "too_late"
        /\ match' = [match EXCEPT !.organizerPaid = TRUE,
                       !.status = IF @ = "awaiting_deposit" THEN "open" ELSE @]
        /\ Handled(e)
  /\ UNCHANGED <<source, joins, lateJoins, issued, decided, deposit, venueVars,
                 financeVars, lost, phase>>

\* the JOIN is confirmed, and the funding requested when it was the last one
\* and the cutoff has passed; or it lost its place, and the fee is returned
HandleJoinPaid(j) ==
  LET e == Event("matchmaking", "PaymentCompleted", j)
      full == Cardinality(Confirmed) >= Slots
      last == Cardinality(Confirmed) + 1 = Slots
      m == [match EXCEPT !.status = IF last THEN "filled" ELSE @]
  IN
  /\ e \in mail /\ booking.status # "deleted"
  /\ \/ /\ joins[j] # "approved" \/ full
        /\ joins' = [joins EXCEPT ![j] = IF @ = "approved" THEN "rejected" ELSE @]
        /\ HandledAndPost(e, {Event("finance", "MatchFeeRefundRequested", j)})
        /\ UNCHANGED <<match, issued>>
     \/ /\ joins[j] = "approved" /\ ~full
        /\ joins' = [joins EXCEPT ![j] = "confirmed"]
        /\ \/ /\ FundingReady(m, Confirmed \cup {j})
              /\ \E k \in Commands :
                   /\ Fresh(k) /\ Issue(k, "settle", None)
                   /\ match' = [m EXCEPT !.requested = TRUE, !.attempt = k]
                   /\ HandledAndPost(e, {Event("finance", "MatchConfirmed", k)})
           \/ /\ ~FundingReady(m, Confirmed \cup {j})
              /\ match' = m
              /\ Handled(e)
              /\ UNCHANGED issued
  /\ UNCHANGED <<source, lateJoins, decided, deposit, venueVars, financeVars, lost, phase>>

\* BookingConfirmed of venue, for a match that holds its court, and
\* MatchFundingCompleted of finance: whichever comes first
HandleFunded(type) ==
  LET e == Event("matchmaking", type, None) IN
  /\ e \in mail /\ type \in {"BookingConfirmed", "MatchFundingCompleted"}
  /\ match' = IF match.status = "filled" /\ match.requested
              THEN [match EXCEPT !.status = IF match.ended THEN "completed" ELSE "confirmed"]
              ELSE match
  /\ Handled(e)
  /\ UNCHANGED <<source, joins, lateJoins, issued, decided, deposit, venueVars,
                 financeVars, lost, phase>>

\* handleMatchBookingResolved, for a settlement: the recovery of a withdrawal or
\* of a cancellation is ApplyMatchBookingResolution
HandleSettleResolved(k) ==
  LET e == Event("matchmaking", "MatchBookingResolved", k)
      answer == commands[k]
      m == AtRevision(match, answer.revision)
  IN
  /\ e \in mail /\ issued[k].action = "settle"
  /\ \/ /\ answer.decision = "confirmed" /\ answer.winner = k
        /\ match' = [m EXCEPT !.status = "confirmed"]
        /\ Handled(e) /\ UNCHANGED joins
     \/ /\ answer.decision = "held_revoked" /\ match.attempt = k
        /\ match' = [m EXCEPT !.requested = FALSE, !.attempt = None,
                              !.status = IF @ = "filled" THEN "open" ELSE @]
        /\ Handled(e) /\ UNCHANGED joins
     \/ /\ answer.decision = "cancelled" /\ match.status \notin {"confirmed", "cancelled"}
        /\ match' = [match EXCEPT !.status = "cancelled"]
        /\ joins' = AllWithdrawn
        /\ HandledAndPost(e, MatchCancelled("other"))
     \/ /\ ~(answer.decision = "confirmed" /\ answer.winner = k)
        /\ ~(answer.decision = "held_revoked" /\ match.attempt = k)
        /\ ~(answer.decision = "cancelled" /\ match.status \notin {"confirmed", "cancelled"})
        /\ Handled(e) /\ UNCHANGED <<match, joins>>
  /\ UNCHANGED <<source, lateJoins, issued, decided, deposit, venueVars,
                 financeVars, lost, phase>>

HandleCommandResolved(k) ==
  LET e == Event("matchmaking", "MatchBookingResolved", k) IN
  /\ e \in mail /\ issued[k].action # "settle" /\ decided[k] # "pending"
  /\ Handled(e)
  /\ UNCHANGED <<source, matchVars, venueVars, financeVars, lost, phase>>

HandleBookingCompleted ==
  LET e == Event("matchmaking", "BookingCompleted", None) IN
  /\ e \in mail
  /\ match' = IF match.status = "cancelled" THEN match
              ELSE [match EXCEPT !.ended = TRUE,
                                 !.status = IF @ = "confirmed" THEN "completed" ELSE @]
  /\ Handled(e)
  /\ UNCHANGED <<source, joins, lateJoins, issued, decided, deposit, venueVars,
                 financeVars, lost, phase>>

HandleShutdownBookingCancellation(was) ==
  LET e == Event("matchmaking", "ShutdownBookingCancellationRequested", was) IN
  /\ e \in mail
  /\ \/ /\ match.status = "cancelled"
        /\ HandledAndPost(e, IF was = "confirmed" THEN {} ELSE MatchCancelled("other"))
        /\ UNCHANGED <<match, joins>>
     \/ /\ match.status # "cancelled"
        /\ match' = [match EXCEPT !.status = "cancelled"]
        /\ joins' = AllWithdrawn
        /\ HandledAndPost(e, MatchCancelled(IF was = "confirmed" THEN "confirmed_booking_policy"
                                       ELSE "other"))
  /\ UNCHANGED <<source, lateJoins, issued, decided, deposit, venueVars,
                 financeVars, lost, phase>>

\* the result of a completed match becomes final: MatchResults
FinalizeResult ==
  LET e == Event("finance", "MatchResultFinalized", None) IN
  /\ match.status = "completed" /\ e \notin mail \cup lost
  /\ funding.reserve \in {"none", "locked"}
  /\ Post({e})
  /\ UNCHANGED <<source, matchVars, venueVars, financeVars, lost, phase>>

-----------------------------------------------------------------------------
(* Venue                                                                   *)

\* resolveMatchBooking: the fence.  Only the command that knows the revision of
\* a held and payable booking moves it, and every command keeps its answer.  A
\* court that is being shut down may refuse a settlement.
ResolveMatchBooking(k) ==
  LET settle == Event("venue", "Settle", k)
      action == issued[k].action
      exact == booking.revision = issued[k].revision
  IN
  /\ k \in DOMAIN issued \ DOMAIN commands /\ booking.status # "deleted"
  /\ IF action = "settle" THEN settle \in mail ELSE decided[k] = "pending"
  /\ \E open \in BOOLEAN :
       LET payable == HeldAndPayable /\ (action = "settle" => open)
           wins == payable /\ exact
           decision == IF wins THEN CASE action = "settle" -> "confirmed"
                                      [] action = "withdraw" -> "held_revoked"
                                      [] action = "cancel" -> "cancelled"
                       ELSE IF booking.status \in {"confirmed", "completed"} THEN "confirmed"
                       ELSE IF ~payable THEN "cancelled"
                       ELSE "held_revoked"
           b == IF wins
                THEN [booking EXCEPT !.revision = @ + 1,
                        !.status = IF action = "withdraw" THEN @ ELSE decision,
                        !.winner = IF action = "settle" THEN k ELSE None]
                ELSE booking
       IN
       /\ booking' = b
       /\ commands' = [c \in DOMAIN commands \cup {k} |->
                         IF c = k THEN [decision |-> decision, winner |-> b.winner,
                                        revision |-> b.revision]
                         ELSE commands[c]]
       /\ HandledAndPost(settle,
            {Event("finance", "MatchBookingResolved", k),
             Event("matchmaking", "MatchBookingResolved", k)}
            \cup IF wins /\ action = "settle"
                 THEN {Event("matchmaking", "BookingConfirmed", None)} ELSE {})
  /\ UNCHANGED <<source, matchVars, financeVars, lost, phase>>

\* MatchCancelled: a held booking is released; a confirmed one is an error
ReleaseHeldMatchBooking(reason) ==
  LET e == Event("venue", "MatchCancelled", reason) IN
  /\ e \in mail
  /\ booking.status = "confirmed" => reason = "confirmed_booking_policy"
  /\ booking' = [booking EXCEPT !.status = IF @ = "held" THEN "cancelled" ELSE @]
  /\ Handled(e)
  /\ UNCHANGED <<source, matchVars, commands, financeVars, lost, phase>>

\* reapExpiredHeldBookings, and the reads that cancel an expired booking
ReapExpiredMatchBooking ==
  /\ booking.status = "held" /\ ~Unexpired
  /\ booking' = [booking EXCEPT !.status = "cancelled"]
  /\ UNCHANGED <<source, matchVars, commands, financeVars, mail, lost, phase>>

\* the organizer leaves the checkout page: the row is deleted
LeaveMatchCheckout ==
  /\ booking.status = "held"
  /\ booking' = [booking EXCEPT !.status = "deleted"]
  /\ UNCHANGED <<source, matchVars, commands, financeVars, mail, lost, phase>>

CancelBookingByOwner ==
  /\ booking.status = "confirmed" /\ phase < 3
  /\ booking' = [booking EXCEPT !.status = "cancelled", !.by = "self"]
  /\ Post({Event("finance", "BookingCancelled", None)})
  /\ UNCHANGED <<source, matchVars, commands, financeVars, lost, phase>>

\* processShutdownItem
ShutdownCancelsBooking ==
  /\ booking.status \in {"held", "confirmed"}
  /\ booking' = [booking EXCEPT !.status = "cancelled", !.by = "provider_fault",
                                !.revision = @ + 1, !.winner = None]
  /\ Post({Event("matchmaking", "ShutdownBookingCancellationRequested",
                 booking.status)}
          \cup IF booking.status = "confirmed"
               THEN {Event("finance", "BookingCancelled", None)} ELSE {})
  /\ UNCHANGED <<source, matchVars, commands, financeVars, lost, phase>>

CompleteMatchBooking ==
  /\ booking.status = "confirmed" /\ phase = 3
  /\ booking' = [booking EXCEPT !.status = "completed"]
  /\ Post({Event("matchmaking", "BookingCompleted", None)})
  /\ UNCHANGED <<source, matchVars, commands, financeVars, lost, phase>>

-----------------------------------------------------------------------------
(* Finance                                                                 *)

HandleMatchCreated ==
  LET e == Event("finance", "MatchCreated", None) IN
  /\ e \in mail
  /\ funding' = [funding EXCEPT !.status = "collecting"]
  /\ contributions' = [contributions EXCEPT ![Organizer] =
                         IF source = "paid_booking" THEN "paid" ELSE "pending"]
  /\ Handled(e)
  /\ UNCHANGED <<source, matchVars, venueVars, poolReserved, paying, overtaken, lost, phase>>

HandleJoinApproved(j) ==
  LET e == Event("finance", "JoinApproved", j) IN
  /\ e \in mail /\ funding.status = "collecting"
  /\ contributions' = [contributions EXCEPT ![j] = "pending"]
  /\ Handled(e)
  /\ UNCHANGED <<source, matchVars, venueVars, funding, poolReserved, paying, overtaken, lost, phase>>

\* assertContributionPayable
ContributionPayable(p) ==
  /\ funding.status = "collecting" /\ contributions[p] = "pending"
  /\ IF p = Organizer THEN phase = 0 ELSE phase < 2 /\ p \notin lateJoins

\* reserveContribution locks the contribution, not the match: between its last
\* read and its commit the handlers of match events still see it unpaid
StartPayment(p) ==
  /\ ContributionPayable(p) /\ p \notin paying
  /\ paying' = paying \cup {p}
  /\ UNCHANGED <<source, matchVars, venueVars, funding, contributions, poolReserved,
                 overtaken, mail, lost, phase>>

CommitPayment(p) ==
  /\ p \in paying
  /\ paying' = paying \ {p}
  /\ overtaken' = IF funding.status = "collecting" THEN overtaken ELSE overtaken \cup {p}
  /\ contributions' = [contributions EXCEPT ![p] = "paid"]
  /\ poolReserved' = poolReserved + Amount(p)
  /\ Post({Event("matchmaking", "PaymentCompleted", p)})
  /\ UNCHANGED <<source, matchVars, venueVars, funding, lost, phase>>

Refunded(p) == contributions[p] = "paid" /\ Cash(p)

\* Mutant: only the players who joined get their money back.
JoinsRefunded == [p \in Payers |-> IF Refunded(p) /\ p # Organizer THEN "refunded"
                                   ELSE contributions[p]]

AllRefunded == [p \in Payers |-> IF Refunded(p) THEN "refunded" ELSE contributions[p]]

\* Mutant: the contribution is not read again under the lock.
HandleFeeRefundUnchecked(j) ==
  LET e == Event("finance", "MatchFeeRefundRequested", j) IN
  /\ e \in mail /\ contributions[j] \notin {"none", "settled"}
  /\ contributions' = [contributions EXCEPT ![j] = "refunded"]
  /\ poolReserved' = poolReserved - FeePerSlot
  /\ Handled(e)
  /\ UNCHANGED <<source, matchVars, venueVars, funding, paying, overtaken, lost, phase>>

\* refundPaidContribution; a settled contribution is an error
HandleMatchFeeRefundRequested(j) ==
  LET e == Event("finance", "MatchFeeRefundRequested", j) IN
  /\ e \in mail /\ contributions[j] \notin {"none", "settled"}
  /\ IF contributions[j] = "paid"
     THEN /\ contributions' = [contributions EXCEPT ![j] = "refunded"]
          /\ poolReserved' = poolReserved - FeePerSlot
     ELSE UNCHANGED <<contributions, poolReserved>>
  /\ Handled(e)
  /\ UNCHANGED <<source, matchVars, venueVars, funding, paying, overtaken, lost, phase>>

FullyReserved == Cardinality(PaidJoins) = Slots /\ contributions[Organizer] = "paid"

Settled == [p \in Payers |-> IF contributions[p] = "paid" THEN "settled" ELSE contributions[p]]

FundingSettled(f) == [f EXCEPT !.status = "settled",
                               !.reserve = IF ResultReserve > 0 THEN "locked" ELSE "none"]

\* refundCollectingFunding
FundingRefunded ==
  /\ contributions' = AllRefunded
  /\ poolReserved' = poolReserved - PaidReserve(contributions)
  /\ funding' = [funding EXCEPT !.status = "cancelled"]

StaleAttempt(k) ==
  /\ funding.status = "settling"
  /\ \/ issued[k].revision < funding.revision
     \/ issued[k].revision = funding.revision /\ funding.attempt # k

\* BookingRevenue of a paid booking has been cancelled
RevenueCancelled ==
  booking.status = "cancelled" /\ Event("finance", "BookingCancelled", None) \notin mail

MatchConfirmedAccepted == FullyReserved /\ ~(source = "paid_booking" /\ RevenueCancelled)

HandleMatchConfirmed(k) ==
  LET e == Event("finance", "MatchConfirmed", k) IN
  /\ e \in mail /\ funding.status # "none"
  /\ \/ /\ funding.status \in {"settled", "cancelled"} \/ StaleAttempt(k)
        /\ Handled(e)
        /\ UNCHANGED <<funding, contributions, poolReserved>>
     \/ /\ funding.status \in {"collecting", "settling"} /\ ~StaleAttempt(k)
        /\ MatchConfirmedAccepted
        /\ IF source = "paid_booking"
           THEN \* settlePaidBookingFunding: the organizer gets back what he
                \* has paid beyond his share
                /\ poolReserved' = poolReserved - (BookingPrice - OrganizerShare)
                /\ contributions' = Settled
                /\ funding' = FundingSettled(funding)
                /\ HandledAndPost(e, {Event("matchmaking", "MatchFundingCompleted", None)})
           ELSE /\ funding' = [funding EXCEPT !.status = "settling", !.attempt = k,
                                              !.revision = issued[k].revision]
                /\ HandledAndPost(e, {Event("finance", "MatchSettlementRequested", k)})
                /\ UNCHANGED <<contributions, poolReserved>>
  /\ UNCHANGED <<source, matchVars, venueVars, paying, overtaken, lost, phase>>

CurrentAttempt(k) == funding.status = "settling" /\ funding.attempt = k

\* the check, and the call of venue that may come much later
HandleMatchSettlementRequested(k) ==
  LET e == Event("finance", "MatchSettlementRequested", k) IN
  /\ e \in mail
  /\ HandledAndPost(e, IF CurrentAttempt(k) /\ funding.revision = issued[k].revision
                       THEN {Event("venue", "Settle", k)} ELSE {})
  /\ UNCHANGED <<source, matchVars, venueVars, financeVars, lost, phase>>

\* Mutant: a command of venue that did not revoke the hold counts as a success.
VenueConfirmedUnlessRevoked(k) ==
  /\ commands[k].decision # "held_revoked" /\ issued[k].action = "settle"
  /\ CurrentAttempt(k)

\* Mutant: the answer must carry the revision that finance has settled for.
VenueConfirmedAtOldRevision(k) ==
  /\ commands[k].decision = "confirmed" /\ issued[k].action = "settle"
  /\ CurrentAttempt(k) /\ commands[k].winner = k
  /\ commands[k].revision = funding.revision

VenueConfirmed(k) ==
  /\ commands[k].decision = "confirmed" /\ issued[k].action = "settle"
  /\ CurrentAttempt(k) /\ commands[k].winner = k

\* handleMatchBookingResolved: only the answer of venue spends the reserve
HandleMatchBookingResolved(k) ==
  LET e == Event("finance", "MatchBookingResolved", k)
      answer == commands[k]
      wins == VenueConfirmed(k)
      revoked == /\ answer.decision = "held_revoked" /\ funding.status = "settling"
                 /\ funding.attempt = issued[k].attempt
      over == /\ answer.decision = "cancelled" /\ issued[k].action \in {"cancel", "settle"}
              /\ funding.status \in {"collecting", "settling"}
  IN
  /\ e \in mail
  /\ \/ /\ wins /\ FullyReserved
        /\ poolReserved' = poolReserved - BookingPrice
        /\ contributions' = Settled
        /\ funding' = [FundingSettled(funding) EXCEPT !.revision = Later(@, answer.revision)]
        /\ HandledAndPost(e, {Event("matchmaking", "MatchFundingCompleted", None)})
     \/ /\ revoked
        /\ funding' = [funding EXCEPT !.status = "collecting", !.attempt = None,
                                      !.revision = Later(@, answer.revision)]
        /\ Handled(e) /\ UNCHANGED <<contributions, poolReserved>>
     \/ /\ over /\ FundingRefunded /\ Handled(e)
     \/ /\ ~wins /\ ~revoked /\ ~over
        /\ Handled(e) /\ UNCHANGED <<funding, contributions, poolReserved>>
  /\ UNCHANGED <<source, matchVars, venueVars, paying, overtaken, lost, phase>>

\* handleMatchCancelled: a settling match waits for the answer of venue before
\* the policy of the booking, a settled one can only go through that policy
HandleMatchCancelled(reason) ==
  LET e == Event("finance", "MatchCancelled", reason) IN
  /\ e \in mail
  /\ \/ /\ \/ funding.status = "collecting"
           \/ funding.status = "settling" /\ reason # "confirmed_booking_policy"
        /\ FundingRefunded /\ UNCHANGED overtaken
     \/ /\ \/ funding.status \in {"none", "cancelled"}
           \/ funding.status = "settled" /\ reason = "confirmed_booking_policy"
        /\ overtaken' = IF funding.status = "none" THEN overtaken \cup {Organizer} ELSE overtaken
        /\ UNCHANGED <<funding, contributions, poolReserved>>
  /\ Handled(e)
  /\ UNCHANGED <<source, matchVars, venueVars, paying, lost, phase>>

\* refundCancelledBooking, as far as the funding is concerned; the refund of the
\* booking itself is in BookingSaga
HandleMatchBookingCancelled ==
  LET e == Event("finance", "BookingCancelled", None) IN
  /\ e \in mail /\ funding.status # "settling"
  /\ IF funding.status = "settled"
     THEN /\ poolReserved' = IF funding.reserve = "locked" THEN poolReserved - ResultReserve ELSE poolReserved
          /\ contributions' = [p \in Payers |-> IF contributions[p] = "settled" THEN "refunded"
                                                ELSE contributions[p]]
          /\ funding' = [funding EXCEPT !.status = "cancelled",
                           !.reserve = IF @ = "locked" THEN "refunded" ELSE @]
     ELSE UNCHANGED <<funding, contributions, poolReserved>>
  /\ Handled(e)
  /\ UNCHANGED <<source, matchVars, venueVars, paying, overtaken, lost, phase>>

HandleMatchResultFinalized ==
  LET e == Event("finance", "MatchResultFinalized", None) IN
  /\ e \in mail
  /\ \/ /\ funding.status = "settled" /\ funding.reserve # "released"
        /\ poolReserved' = IF funding.reserve = "locked" THEN poolReserved - ResultReserve ELSE poolReserved
        /\ funding' = [funding EXCEPT !.reserve = IF @ = "locked" THEN "released" ELSE @]
     \/ /\ (funding.status = "cancelled" \/ funding.reserve = "released")
        /\ UNCHANGED <<funding, poolReserved>>
  /\ Handled(e)
  /\ UNCHANGED <<source, matchVars, venueVars, contributions, paying, overtaken, lost, phase>>

-----------------------------------------------------------------------------
(* Events whose handler fails, until it is dropped or quarantined          *)

FailsAtFinance(e) ==
  \/ e.type = "JoinApproved" /\ funding.status # "collecting"
  \/ e.type = "MatchFeeRefundRequested" /\ contributions[e.about] \in {"none", "settled"}
  \/ /\ e.type = "MatchConfirmed"
     /\ \/ funding.status = "none"
        \/ /\ funding.status \in {"collecting", "settling"} /\ ~StaleAttempt(e.about)
           /\ ~MatchConfirmedAccepted
  \/ e.type = "MatchBookingResolved" /\ ~FullyReserved /\ VenueConfirmed(e.about)
  \/ /\ e.type = "MatchCancelled"
     /\ \/ funding.status = "settling" /\ e.about = "confirmed_booking_policy"
        \/ funding.status = "settled" /\ e.about # "confirmed_booking_policy"
  \/ e.type = "BookingCancelled" /\ funding.status = "settling"
  \/ /\ e.type = "MatchResultFinalized" /\ funding.reserve # "released"
     /\ funding.status \notin {"settled", "cancelled"}

Fails(e) ==
  \/ e.to = "finance" /\ FailsAtFinance(e)
  \/ e.to = "matchmaking" /\ e.type = "PaymentCompleted" /\ booking.status = "deleted"
  \/ /\ e.type = "MatchCancelled" /\ e.to = "venue"
     /\ booking.status = "confirmed" /\ e.about # "confirmed_booking_policy"
  \/ e.type = "Settle" /\ booking.status = "deleted"

GiveUp(e) ==
  /\ e \in mail /\ Fails(e)
  /\ Handled(e)
  /\ lost' = lost \cup {e}
  /\ UNCHANGED <<source, matchVars, venueVars, financeVars, phase>>

MatchPhaseEnds ==
  /\ phase < 3 /\ phase' = phase + 1
  /\ UNCHANGED <<source, matchVars, venueVars, financeVars, mail, lost>>

-----------------------------------------------------------------------------
(* Specification                                                           *)

MatchInit ==
  /\ source \in Sources
  /\ match = [status |-> IF source = "hold" THEN "awaiting_deposit" ELSE "open",
              organizerPaid |-> source = "paid_booking", requested |-> FALSE,
              ended |-> FALSE, attempt |-> None, revision |-> 0]
  /\ joins = [j \in Joins |-> "none"] /\ lateJoins = {}
  /\ issued = [k \in {} |-> None] /\ decided = [k \in Commands |-> "pending"]
  /\ deposit = "none"
  /\ booking = [status |-> IF source = "hold" THEN "held" ELSE "confirmed",
                revision |-> 0, winner |-> None, active |-> FALSE, by |-> None]
  /\ commands = [k \in {} |-> None]
  /\ funding = [status |-> "none", attempt |-> None, revision |-> 0, reserve |-> "none"]
  /\ contributions = [p \in Payers |-> "none"]
  /\ poolReserved = 0 /\ paying = {} /\ overtaken = {}
  /\ mail = {Event("finance", "MatchCreated", None)} /\ lost = {}
  /\ phase = 0

MatchmakingNext ==
  \/ \E j \in Joins : RequestJoin(j) \/ JoinWindowEnds(j)
                        \/ WithdrawFromPaidBookingMatch(j) \/ HandleJoinPaid(j)
  \/ \E j \in Joins, k \in Commands : WithdrawJoin(j, k)
  \/ \E k \in Commands : \/ RequestMatchFundingAtCutoff(k) \/ ApplyMatchBookingResolution(k)
                         \/ CancelWithoutBooking(k)
                         \/ HandleSettleResolved(k) \/ HandleCommandResolved(k)
  \/ ReleaseExpiredApprovedJoins \/ CancelMatchAtCutoff \/ CancelMatchByOrganizer
  \/ FinalizeConfirmedPolicyCancellation \/ CancelExpiredDepositMatch
  \/ ActivateMatchHold \/ HandleDepositPaid
  \/ HandleFunded("BookingConfirmed") \/ HandleFunded("MatchFundingCompleted")
  \/ HandleBookingCompleted \/ FinalizeResult
  \/ \E was \in {"held", "confirmed"} : HandleShutdownBookingCancellation(was)

VenueNext ==
  \/ \E k \in Commands : ResolveMatchBooking(k)
  \/ \E r \in Reasons : ReleaseHeldMatchBooking(r)
  \/ ReapExpiredMatchBooking \/ LeaveMatchCheckout \/ CancelBookingByOwner
  \/ ShutdownCancelsBooking \/ CompleteMatchBooking

FinanceNext ==
  \/ HandleMatchCreated
  \/ \E j \in Joins : HandleJoinApproved(j) \/ HandleMatchFeeRefundRequested(j)
  \/ \E p \in Payers : StartPayment(p) \/ CommitPayment(p)
  \/ \E k \in Commands : \/ HandleMatchConfirmed(k) \/ HandleMatchSettlementRequested(k)
                         \/ HandleMatchBookingResolved(k)
  \/ \E r \in Reasons : HandleMatchCancelled(r)
  \/ HandleMatchBookingCancelled \/ HandleMatchResultFinalized

MatchNext ==
  \/ MatchmakingNext \/ VenueNext \/ FinanceNext
  \/ \E e \in mail : GiveUp(e)
  \/ MatchPhaseEnds

MatchSpec == MatchInit /\ [][MatchNext]_fundingVars

-----------------------------------------------------------------------------
(* Properties                                                              *)

\* platform.reserved is exactly what the contributions of the match account
\* for: the paid ones, and the locked result reserve once they are settled
ReserveIsOwed ==
  poolReserved = PaidReserve(contributions)
               + (IF funding.reserve = "locked" THEN ResultReserve ELSE 0)

AtRest == mail = {} /\ lost = {} /\ paying = {}

\* at rest, a cancelled match keeps the money of nobody, except when finance
\* handled the cancellation before the payment: the payment was between its last
\* read of the funding and its commit, or the cancellation came before MatchCreated
NoMoneyIsStranded ==
  AtRest /\ (match.status = "cancelled" \/ funding.status = "cancelled")
    => \A p \in Payers \ overtaken : Cash(p) => contributions[p] # "paid"

\* at rest, a court confirmed for a match has been paid for
ConfirmedCourtIsPaid ==
  AtRest /\ source = "hold" /\ booking.status \in {"confirmed", "completed"}
    => funding.status = "settled"

\* the court was the organizer's before the match, or venue has sold it to a
\* settlement
WasBought ==
  source = "paid_booking" \/ \E k \in DOMAIN commands : /\ commands[k].decision = "confirmed"
                                                        /\ commands[k].winner = k

\* what the players see of the booking, of the funding, and of a contribution:
\* the organizer of a paid booking has put nothing in
CourtSeen == IF booking.status \in {"confirmed", "completed"} THEN "bought"
             ELSE IF WasBought THEN "cancelled"
             ELSE IF booking.status = "held" THEN "free" ELSE "gone"

FundsSeen == CASE funding.status \in {"none", "collecting"} -> "open"
               [] funding.status = "settling" -> "committed"
               [] funding.status = "settled" -> "spent"
               [] funding.status = "cancelled" -> "closed"

ShareSeen(p) == CASE ~Cash(p) \/ contributions[p] \in {"none", "pending"} -> "out"
                  [] Cash(p) /\ contributions[p] = "paid" -> "in"
                  [] Cash(p) /\ contributions[p] = "settled" -> "spent"
                  [] Cash(p) /\ contributions[p] = "refunded" -> "back"

SharesSeen == [p \in Payers |-> ShareSeen(p)]

\* CourtPurchase, as matchmaking, finance and venue carry it out: the funding and
\* the contributions of matchFee.ts are its money, the booking its court
Purchase == INSTANCE CourtPurchase
              WITH Guests <- Joins, Host <- Organizer,
                   Parties <- {J \in SUBSET Joins : Cardinality(J) = Slots},
                   owned <- source = "paid_booking", court <- CourtSeen,
                   funds <- FundsSeen, share <- SharesSeen, pledged <- paying

\* the three services together keep the promise of CourtPurchase, with payments,
\* cancellations, commands and answers in any order: the court is bought only
\* while the whole price is committed to it, contributions are spent only at the
\* full price on a court that was bought, a commitment is given up only if the
\* court was not bought, and all the money goes back only without a court
CourtIsPurchased == Purchase!Spec
=============================================================================
