--------------------------- MODULE PartnerInvites ---------------------------
(***************************************************************************)
(* The partner of a doubles match (matchmaking-service                     *)
(* domain/partnerInvites.ts, with domain/matches.ts requestJoin, the       *)
(* payment handler of lib/matchLifecycleEventConsumer.ts and the           *)
(* withdrawal of domain/matchLifecycle.ts).                                *)
(*                                                                         *)
(* Team A is the organizer and one more player, team B two players.  The   *)
(* organizer may invite somebody to the place beside him; the invitee pays *)
(* himself, or the organizer pays first, in which case a JOIN in the       *)
(* invitee's name is held, paid and kept until somebody accepts.  Others   *)
(* may take the place by joining.  Every JOIN has ten minutes to be paid;  *)
(* the payment reaches matchmaking as an event, possibly after a sweep,    *)
(* another invitation or the cutoff.                                       *)
(*                                                                         *)
(* Abstractions: one match with a fee; clocks are marks (a hold is live or *)
(* over); an invitation that is not pending and a JOIN that is rejected or *)
(* withdrawn ("out") keep only what code still reads; a withdrawal through *)
(* venue's fence has the effect of the one that needs none (MatchFunding   *)
(* has the fence).                                                         *)
(***************************************************************************)
EXTENDS Naturals, FiniteSets

CONSTANTS Players,    \* everybody but the organizer
          MaxRosterJoins   \* bound: JOIN rows

ASSUME InvitesAssumption == IsFiniteSet(Players) /\ MaxRosterJoins \in Nat

Rows == 1..MaxRosterJoins
Capacity == 4
Seats(side) == IF side = "A" THEN 1 ELSE 2     \* participantSlots of doubles
NoPlayer == "nobody"

VARIABLES rosterStatus, \* Match.status: open or filled
          cutoff,       \* whether the cutoff has passed
          roster,       \* the JOIN rows
          invite,       \* the newest partner invitation
          refunds       \* the rows a MatchFeeRefundRequested names

invitesVars == <<rosterStatus, cutoff, roster, invite, refunds>>

JoinRow == [who : Players \cup {NoPlayer}, prepaid : BOOLEAN, side : {"A", "B"},
            status : {"none", "approved", "reserved", "confirmed", "out"},
            live : BOOLEAN,
            \* none, paid with the event under way (in time or late), handled
            fee : {"none", "intime", "late", "handled"}]

InviteRow == [who : Players \cup {NoPlayer}, mode : {"self", "organizer"},
              pending : BOOLEAN, sent : BOOLEAN,
              \* respondedAt of a self-pay invitation: unset, set, 30 minutes old
              answered : {"no", "yes", "over"}]

NoRow == [who |-> NoPlayer, prepaid |-> FALSE, side |-> "A", status |-> "none",
          live |-> FALSE, fee |-> "none"]

(* no invitation, or one that is accepted, declined or cancelled           *)
NoInvite == [who |-> NoPlayer, mode |-> "self", pending |-> FALSE, sent |-> FALSE,
             answered |-> "no"]

InvitesTypeOK ==
    /\ rosterStatus \in {"open", "filled"}
    /\ cutoff \in BOOLEAN
    /\ roster \in [Rows -> JoinRow]
    /\ invite \in InviteRow
    /\ refunds \subseteq Rows

InvitesInit ==
    /\ rosterStatus = "open" /\ cutoff = FALSE
    /\ roster = [j \in Rows |-> NoRow]
    /\ invite = NoInvite
    /\ refunds = {}

-----------------------------------------------------------------------------
(* What the code counts and looks up *)

StatusIn(S) == {j \in Rows : roster[j].status \in S}
InHold(j) == roster[j].status = "approved" /\ roster[j].live
Own(p) == {j \in Rows : roster[j].who = p /\ ~roster[j].prepaid}

(* findFirst without an order: any of them.                                *)
ActivePrepaid == {j \in Rows : roster[j].prepaid /\
                                 (InHold(j) \/ roster[j].status \in {"reserved", "confirmed"})}

InviteeInHold(p) == \E j \in Own(p) : InHold(j)
InvitePending == invite.pending

(* updateMany of the approved JOINs out of their ten minutes.              *)
Expired == {j \in StatusIn({"approved"}) : ~roster[j].live}
Out(fee) == [NoRow EXCEPT !.status = "out", !.fee = fee]
RejectExpired == [j \in Rows |-> IF j \in Expired THEN Out(roster[j].fee) ELSE roster[j]]

(* reservedTeamSlots for a player who asks for a place.                    *)
ReservedTeamSlots(side, p) ==
    Cardinality({j \in Rows : roster[j].side = side /\
                   (InHold(j) \/ roster[j].status \in {"reserved", "confirmed"})})
    + (IF side = "A" /\ InvitePending /\ invite.mode = "self" /\ invite.sent
          /\ ~cutoff /\ invite.who # p THEN 1 ELSE 0)

FreeRow(j) == roster[j].status = "none" /\ \A i \in Rows : i < j => roster[i].status # "none"
Held(p, prepaid, side) ==
    [who |-> p, prepaid |-> prepaid, side |-> side, status |-> "approved",
     live |-> TRUE, fee |-> "none"]

-----------------------------------------------------------------------------
(* Joining *)

RequestSeat(p, side, j) ==
    /\ rosterStatus = "open" /\ ~cutoff /\ FreeRow(j)
    /\ \A i \in Rows : roster[i].who = p =>
         ~(InHold(i) /\ ~roster[i].prepaid) /\ roster[i].status # "confirmed"
    /\ Cardinality(StatusIn({"approved", "confirmed"}) \ Expired) + 1 < Capacity
    /\ ReservedTeamSlots(side, p) < Seats(side)
    /\ roster' = [RejectExpired EXCEPT ![j] = Held(p, FALSE, side)]

RequestJoinSide(p, side, j) ==
    /\ RequestSeat(p, side, j)
    /\ UNCHANGED <<rosterStatus, cutoff, invite, refunds>>

JoinHoldEnds(j) ==
    /\ InHold(j)
    /\ roster' = [roster EXCEPT ![j].live = FALSE]
    /\ UNCHANGED <<rosterStatus, cutoff, invite, refunds>>

ReleaseExpiredJoins ==
    /\ Expired # {}
    /\ roster' = RejectExpired
    /\ UNCHANGED <<rosterStatus, cutoff, invite, refunds>>

(* Finance lets the payer pay until the hold is over, whatever has become  *)
(* of the JOIN; a payment read in time may commit late.                    *)
PayJoin(j) ==
    /\ roster[j].status # "none" /\ roster[j].fee = "none"
    /\ roster' = [roster EXCEPT ![j].fee = IF roster[j].live /\ ~cutoff THEN "intime" ELSE "late"]
    /\ UNCHANGED <<rosterStatus, cutoff, invite, refunds>>

FilledBy(n) == IF n = Capacity - 1 THEN "filled" ELSE rosterStatus

PaidInvite(j) ==
    IF roster[j].prepaid
    THEN [invite EXCEPT !.sent = @ \/ (InvitePending /\ invite.mode = "organizer")]
    ELSE IF InvitePending /\ invite.mode = "self" /\ roster[j].side = "A"
              /\ invite.who = roster[j].who THEN NoInvite ELSE invite

JoinPaymentCompleted(j) ==
    LET confirmed == Cardinality(StatusIn({"confirmed"}))
        valid == /\ roster[j].status = "approved" /\ roster[j].fee = "intime"
                 /\ confirmed + 1 < Capacity
    IN  /\ roster[j].fee \in {"intime", "late"}
        /\ \/ /\ valid
              /\ roster' = [roster EXCEPT ![j].fee = "handled", ![j].live = FALSE,
                             ![j].status = IF roster[j].prepaid THEN "reserved" ELSE "confirmed"]
              /\ rosterStatus' = IF roster[j].prepaid THEN rosterStatus ELSE FilledBy(confirmed + 1)
              /\ invite' = PaidInvite(j)
              /\ UNCHANGED refunds
           \/ /\ ~valid
              /\ roster' = [roster EXCEPT ![j] = Out("handled")]
              /\ refunds' = refunds \cup {j}
              /\ UNCHANGED <<rosterStatus, invite>>
        /\ UNCHANGED cutoff

\* Mutant: the partner's leaving refunds the place the organizer has paid.
AnyPaidRefunded(j) == IF roster[j].status = "confirmed" THEN {j} ELSE {}

(* releasePrepaidSlot keeps the place the organizer has paid for.          *)
RefundedOnLeaving(j) ==
    IF roster[j].status = "confirmed" /\ ~roster[j].prepaid THEN {j} ELSE {}

WithdrawFromRoster(j) ==
    /\ ~cutoff /\ roster[j].status \in {"approved", "confirmed"}
    /\ roster' = [roster EXCEPT ![j] =
                    IF @.prepaid /\ @.status = "confirmed"
                    THEN [@ EXCEPT !.status = "reserved"] ELSE Out(@.fee)]
    /\ refunds' = refunds \cup RefundedOnLeaving(j)
    /\ rosterStatus' = "open"
    /\ UNCHANGED <<cutoff, invite>>

CutoffPasses ==
    /\ ~cutoff /\ cutoff' = TRUE
    /\ UNCHANGED <<rosterStatus, roster, invite, refunds>>

-----------------------------------------------------------------------------
(* Inviting *)

NewInvite(p, mode, sent) ==
    invite' = [who |-> p, mode |-> mode, pending |-> TRUE, sent |-> sent, answered |-> "no"]

(* Who the code accepts as a new invitee, before it looks at a prepaid     *)
(* place.                                                                  *)
MayInvite(p) ==
    /\ rosterStatus = "open" /\ ~cutoff
    /\ \A j \in Own(p) : ~InHold(j) /\ roster[j].status # "confirmed"
    /\ ~(InvitePending /\ InviteeInHold(invite.who))
    /\ \A j \in Rows : (roster[j].side = "A" /\ ~roster[j].prepaid)
                          => ~InHold(j) /\ roster[j].status # "confirmed"

InviteToPrepaidPlace(p, j) ==
    /\ MayInvite(p)
    /\ j \in ActivePrepaid /\ roster[j].status = "reserved"
    /\ NewInvite(p, "organizer", TRUE)
    /\ roster' = [roster EXCEPT ![j].who = p]
    /\ UNCHANGED <<rosterStatus, cutoff, refunds>>

InviteSelfPaying(p) ==
    /\ MayInvite(p) /\ ActivePrepaid = {}
    /\ NewInvite(p, "self", TRUE)
    /\ UNCHANGED <<rosterStatus, cutoff, roster, refunds>>

InviteAndPrepay(p, j) ==
    /\ MayInvite(p) /\ ActivePrepaid = {} /\ FreeRow(j)
    /\ NewInvite(p, "organizer", FALSE)
    /\ roster' = [roster EXCEPT ![j] = Held(p, TRUE, "A")]
    /\ UNCHANGED <<rosterStatus, cutoff, refunds>>

CancelPartnerInvite ==
    /\ ~cutoff
    /\ ~(InvitePending /\ InviteeInHold(invite.who))
    /\ \/ /\ ActivePrepaid = {} /\ InvitePending
          /\ UNCHANGED <<roster, refunds>>
       \/ \E j \in ActivePrepaid :
            /\ roster[j].status # "confirmed"
            /\ roster' = [roster EXCEPT ![j] = Out(@.fee)]
            /\ refunds' = IF roster[j].status = "reserved" THEN refunds \cup {j} ELSE refunds
    /\ invite' = NoInvite
    /\ UNCHANGED <<rosterStatus, cutoff>>

Answerable(p) ==
    /\ InvitePending /\ invite.who = p /\ invite.sent
    /\ ~cutoff /\ ~(invite.mode = "self" /\ invite.answered = "over")

AcceptPrepaidPlace(p) ==
    /\ Answerable(p) /\ invite.mode = "organizer"
    /\ \E j \in ActivePrepaid :
         /\ roster[j].status = "reserved" /\ roster[j].who = p
         /\ roster' = [roster EXCEPT ![j].status = "confirmed"]
    /\ invite' = NoInvite
    /\ rosterStatus' = FilledBy(Cardinality(StatusIn({"confirmed"})) + 1)
    /\ UNCHANGED <<cutoff, refunds>>

(* The invitee takes his place like anybody who joins team A; the first    *)
(* acceptance starts his thirty minutes.                                   *)
AcceptAndPay(p, j) ==
    /\ Answerable(p) /\ invite.mode = "self"
    /\ RequestSeat(p, "A", j)
    /\ invite' = [invite EXCEPT !.answered = IF @ = "no" THEN "yes" ELSE @]
    /\ UNCHANGED <<rosterStatus, cutoff, refunds>>

DeclinePartnerInvite(p) ==
    /\ Answerable(p) /\ ~InviteeInHold(p)
    /\ invite' = NoInvite
    /\ UNCHANGED <<rosterStatus, cutoff, roster, refunds>>

SelfPayWindowEnds ==
    /\ invite.answered = "yes"
    /\ invite' = [invite EXCEPT !.answered = "over"]
    /\ UNCHANGED <<rosterStatus, cutoff, roster, refunds>>

ExpireSelfPayInvite ==
    /\ InvitePending /\ invite.mode = "self" /\ invite.answered = "over"
    /\ ~InviteeInHold(invite.who)
    /\ invite' = NoInvite
    /\ UNCHANGED <<rosterStatus, cutoff, roster, refunds>>

InvitesNext ==
    \/ \E p \in Players, j \in Rows :
         \/ \E side \in {"A", "B"} : RequestJoinSide(p, side, j)
         \/ InviteToPrepaidPlace(p, j)
         \/ InviteAndPrepay(p, j)
         \/ AcceptAndPay(p, j)
    \/ \E p \in Players :
         \/ InviteSelfPaying(p)
         \/ AcceptPrepaidPlace(p)
         \/ DeclinePartnerInvite(p)
    \/ \E j \in Rows :
         \/ JoinHoldEnds(j)
         \/ PayJoin(j)
         \/ JoinPaymentCompleted(j)
         \/ WithdrawFromRoster(j)
    \/ CancelPartnerInvite
    \/ ReleaseExpiredJoins
    \/ SelfPayWindowEnds
    \/ ExpireSelfPayInvite
    \/ CutoffPasses

InvitesSpec == InvitesInit /\ [][InvitesNext]_invitesVars

-----------------------------------------------------------------------------
(* A fee whose payment matchmaking has handled keeps a place in the match, *)
(* or finance has been told to give it back, and never both: whether the   *)
(* hold, the invitation, the place or the cutoff ran out while the payment *)
(* was on its way, and whoever of organizer and partner leaves             *)
(* (matchLifecycleEventConsumer.ts:156-213, partnerInvites.ts:160-193,     *)
(* 306-311).                                                               *)
PaidJoinIsSeatedOrRefunded ==
    \A j \in Rows : roster[j].fee = "handled" =>
        (roster[j].status \in {"reserved", "confirmed"} <=> j \notin refunds)

(* "doubles has one place left in team A, beside the organizer" (BR-CM-05, *)
(* matches.ts:603, participantSlots).  Not so: invitePartner ignores a     *)
(* hold that has expired and leaves its JOIN approved, so a payment made   *)
(* in time and handled after the new invitation seats two partners.        *)
OnePartner ==
    Cardinality({j \in Rows : /\ roster[j].side = "A"
                              /\ roster[j].status \in {"reserved", "confirmed"}}) <= 1
=============================================================================
