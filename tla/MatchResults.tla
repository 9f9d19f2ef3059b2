----------------------------- MODULE MatchResults -----------------------------
(***************************************************************************)
(* The result of one played match (matchmaking-service): the players       *)
(* declare the score with photos, the losing team agrees, objects or stays *)
(* silent, a dispute collects sealed evidence and is ruled by a rule or by *)
(* the AI, the ruling may be appealed, an incident or an appeal goes to    *)
(* the administrator. Cases of the first rules ("legacy": claim, 12 hours, *)
(* provider recommendation) run beside those of "ra_v1".                   *)
(*                                                                         *)
(* Every handler locks the match first and checks the case again under the *)
(* lock, so a handler is one step; what may lie between two steps is the   *)
(* page a player looked at (its version) and the deadlines. A version      *)
(* number is modelled by what it is compared for: whether the case changed *)
(* since the page was loaded. A page in flight concerns only its own       *)
(* press, so one page at a time is enough, and only while a proposal is    *)
(* open. The administrator's preview and decision meet no such race (only  *)
(* the decision leaves admin_review), so they are one step.                *)
(***************************************************************************)
EXTENDS Naturals, FiniteSets, Sequences

CONSTANTS
  TeamA, TeamB,       \* the confirmed roster, by side
  Organizer,          \* the owner of the match, in TeamA
  PaidBy,             \* who paid the slot of each player (himself, or a mate)
  Nobody              \* no player

Members == TeamA \union TeamB
Teams == {TeamA, TeamB}

ASSUME MatchResultsAssumption ==
  /\ TeamA \intersect TeamB = {} /\ Organizer \in TeamA /\ TeamB # {}
  /\ PaidBy \in [Members -> Members]
  /\ Nobody \notin Members

Wins == {"TEAM_A_WIN", "TEAM_B_WIN"}
Outcomes == Wins \union {"NO_RESULT"}
Undecided == "undecided"

\* The photos of a claim: all valid, one foreign among valid ones (the claim
\* is red but its valid photos count as evidence), or only foreign ones.
Photos == {"valid", "mixed", "foreign"}
Claims == [outcome : Outcomes, photos : Photos]
Red(photos) == photos # "valid"
Evidence(c) == IF c.photos = "foreign" THEN {} ELSE {c.outcome}

\* The statuses with a deadline the sweepers wait for.
Timed == {"declaration_open", "proposed", "evidence_window", "ai_ruling",
          "appeal_window", "incident_window", "provisional", "provider_review"}
Statuses == Timed \union {"not_open", "admin_review", "final"}

VARIABLES
  kase,      \* the MatchResultCase row
  proposal,  \* whose claim is the proposed result (the first), its photos
  claimants, \* who has a current claim
  exhibits,  \* outcomes that a valid photo of a claim or dispute supports
  said,      \* <<player, kind>>: the responses that a handler looks up
  agreed,    \* <<player, outcome>>: consent given to exactly that outcome
  appeals,   \* players whose appeal was accepted
  ruling,    \* the published provisional ruling, by rule (1) or AI (2)
  page,      \* the page in flight: whose, what it shows, is it current
  announced  \* the MatchResultFinalized events, in order

papers == <<proposal, claimants, exhibits>>
voices == <<said, agreed, appeals>>
resultVars == <<kase, papers, voices, ruling, page, announced>>

Kinds == {"confirm", "incident", "done", "accept"}

MatchResultsTypeOK ==
  /\ kase \in [rules : {"legacy", "ra_v1"}, status : Statuses,
               outcome : Outcomes \union {Undecided}, late : BOOLEAN,
               closed : BOOLEAN, overdue : BOOLEAN, declared : BOOLEAN,
               by : {"nobody", "consent", "deadline", "admin"}]
  /\ proposal \in [by : Members \union {Nobody}, photos : Photos]
  /\ claimants \subseteq Members /\ exhibits \subseteq Outcomes
  /\ said \subseteq Members \X Kinds /\ agreed \subseteq Members \X Outcomes
  /\ appeals \subseteq Members
  /\ ruling \in [tier : {0, 1, 2}, outcome : Outcomes \union {Undecided}]
  /\ page \in [who : Members \union {Nobody},
               outcome : Outcomes \union {Undecided}, current : BOOLEAN]
  /\ announced \in Seq(Outcomes)

-----------------------------------------------------------------------------
(* Teams, losers, the row and the page.                                    *)

TeamOf(p) == IF p \in TeamA THEN TeamA ELSE TeamB
Opponents(p) == IF p \in TeamA THEN TeamB ELSE TeamA

\* losingTeamOf: without a winner, the side that did not propose it.
LosersOf(o, by) ==
  CASE o = "TEAM_A_WIN" -> TeamB
    [] o = "TEAM_B_WIN" -> TeamA
    [] OTHER -> Opponents(by)

RulingLosers(o) ==
  CASE o = "TEAM_A_WIN" -> TeamB
    [] o = "TEAM_B_WIN" -> TeamA
    [] OTHER -> Members

HasSaid(p, kind) == <<p, kind>> \in said

\* A new status has a new deadline; what only an earlier one asks is dropped.
Enter(k, status) ==
  [k EXCEPT !.status = status, !.late = FALSE, !.overdue = FALSE,
            !.closed = FALSE, !.declared = @ /\ status = "proposed"]

\* enterAdminReview, openEvidenceWindow
Review(k) == Enter(k, "admin_review")
Dispute(k) == Enter(k, "evidence_window")

\* writeResultFinal: the row and the one event Finance pays by.
Final(k, o, by) == [Enter(k, "final") EXCEPT !.outcome = o, !.by = by]
Announce(o) == announced' = Append(announced, o)

\* Writing the case raises its version: a page that shows it is stale.
NoPage == [who |-> Nobody, outcome |-> Undecided, current |-> FALSE]
Outdates(p) ==
  page' = IF page.who = p \/ kase'.status # "proposed" THEN NoPage
          ELSE [page EXCEPT !.current = FALSE]

\* A step that writes the case and nothing else.
Move(k) ==
  /\ kase' = k
  /\ Outdates(Nobody)
  /\ UNCHANGED <<papers, voices, ruling, announced>>

-----------------------------------------------------------------------------
(* Opening the case, the passing of time, looking at a proposal.           *)

OpenResultCase ==
  /\ kase.status = "not_open"
  /\ Move(Enter(kase, "declaration_open"))

Ticks(k) ==
  kase' = k /\ UNCHANGED <<papers, voices, ruling, page, announced>>

DeadlinePasses ==
  /\ kase.status \in Timed /\ ~kase.late
  /\ Ticks([kase EXCEPT !.late = TRUE])

\* The twelve hours of declaring may end while a proposal is open.
DeclarationEnds ==
  /\ kase.status = "proposed" /\ ~kase.declared
  /\ Ticks([kase EXCEPT !.declared = TRUE])

\* Thirty more minutes for photos the AI could not read.
RetryPeriodEnds ==
  /\ kase.status = "evidence_window" /\ (kase.late \/ kase.closed)
  /\ ~kase.overdue
  /\ Ticks([kase EXCEPT !.overdue = TRUE])

LoadPage(p) ==
  /\ page.who = Nobody /\ kase.status = "proposed"
  /\ page' = [who |-> p, outcome |-> kase.outcome, current |-> TRUE]
  /\ UNCHANGED <<kase, papers, voices, ruling, announced>>

LeavePage ==
  /\ page.who # Nobody
  /\ page' = NoPage
  /\ UNCHANGED <<kase, papers, voices, ruling, announced>>

-----------------------------------------------------------------------------
(* Proposals and the consent of the losing team (resultClaimsV2).          *)

ResponseOpen == kase.status = "proposed" /\ ~kase.late
Loses(p) == p \in LosersOf(kase.outcome, proposal.by)

\* The payer of p is a loser who neither confirmed nor claimed the outcome.
\* (While a case is proposed every claim names its outcome: another winner
\* disputes it.)
PayerIsAwaited(p, losers, claiming) ==
  LET payer == PaidBy[p]
  IN  /\ payer # p /\ payer \in losers
      /\ ~HasSaid(payer, "confirm") /\ payer \notin claiming

\* acceptByLosingTeam: p of the losing team accepts the proposal k of `by`.
AcceptByLosingTeam(p, k, by, photos, claiming) ==
  IF Red(photos) THEN kase' = Review(k) /\ UNCHANGED announced
  ELSE IF PayerIsAwaited(p, LosersOf(k.outcome, by), claiming)
  THEN kase' = k /\ UNCHANGED announced
  ELSE kase' = Final(k, k.outcome, "consent") /\ Announce(k.outcome)

\* propose: the claim c of p becomes the proposed result; a player who
\* declares the loss of his own team accepts it at once.
Propose(p, c) ==
  LET k == [Enter(kase, "proposed") EXCEPT !.outcome = c.outcome]
  IN  /\ proposal' = [by |-> p, photos |-> c.photos]
      /\ claimants' = {p} /\ exhibits' = Evidence(c)
      /\ IF c.outcome # "NO_RESULT" /\ p \in LosersOf(c.outcome, p)
         THEN /\ AcceptByLosingTeam(p, k, p, c.photos, {p})
              /\ agreed' = agreed \union {<<p, c.outcome>>}
         ELSE kase' = k /\ UNCHANGED <<agreed, announced>>
      /\ Outdates(Nobody)
      /\ UNCHANGED <<said, appeals, ruling>>

FirstClaim(p, c) ==
  /\ kase.rules = "ra_v1" /\ kase.status = "declaration_open" /\ ~kase.late
  /\ Propose(p, c)

\* BR-RA-05: the proposer replaces his claim while nobody has answered it.
ReplaceClaim(p, c) ==
  /\ kase.rules = "ra_v1" /\ kase.status = "proposed" /\ ~kase.declared
  /\ p = proposal.by /\ claimants = {p} /\ said = {}
  /\ Propose(p, c)

\* A later claim answers the proposal: another winner disputes it, the same
\* winner from the losing side accepts it, from the winning side adds
\* evidence.
AnswerByClaim(p, c) ==
  /\ kase.rules = "ra_v1" /\ ResponseOpen
  /\ p \notin claimants
  /\ claimants' = claimants \union {p}
  /\ exhibits' = exhibits \union Evidence(c)
  /\ CASE c.outcome # kase.outcome ->
            kase' = Dispute(kase) /\ UNCHANGED <<agreed, announced>>
       [] c.outcome = kase.outcome /\ Loses(p) ->
            /\ AcceptByLosingTeam(p, kase, proposal.by, proposal.photos,
                                  claimants')
            /\ agreed' = agreed \union {<<p, c.outcome>>}
       [] OTHER -> UNCHANGED <<kase, agreed, announced>>
  /\ IF kase' = kase /\ Loses(p) THEN UNCHANGED page ELSE Outdates(Nobody)
  /\ UNCHANGED <<proposal, said, appeals, ruling>>

\* Mutant: the version of the page is not compared.
AnswersOnAnyPage(p) ==
  /\ kase.rules = "ra_v1"
  /\ page.who = p
  /\ ResponseOpen /\ Loses(p)

\* Confirming and objecting are bound to the version the player looked at,
\* and are for the losing side.
Answers(p) ==
  /\ kase.rules = "ra_v1"
  /\ page.who = p /\ page.current
  /\ ResponseOpen /\ Loses(p)

Confirm(p) ==
  /\ Answers(p)
  /\ ~HasSaid(p, "confirm")
  /\ said' = said \union {<<p, "confirm">>}
  /\ agreed' = agreed \union {<<p, page.outcome>>}
  /\ AcceptByLosingTeam(p, kase, proposal.by, proposal.photos, claimants)
  /\ Outdates(p)
  /\ UNCHANGED <<papers, appeals, ruling>>

\* objectV2, "the score is wrong", with or without photos.
Object(p, supports) ==
  /\ Answers(p)
  /\ exhibits' = exhibits \union supports
  /\ kase' = Dispute(kase)
  /\ Outdates(p)
  /\ UNCHANGED <<proposal, claimants, voices, ruling, announced>>

\* enterIncident: straight to the administrator; the proposal is void.
EnterIncident(p) ==
  /\ ~HasSaid(p, "incident")
  /\ said' = said \union {<<p, "incident">>}
  /\ kase' = [Review(kase) EXCEPT !.outcome = Undecided]
  /\ Outdates(p)
  /\ UNCHANGED <<papers, agreed, appeals, ruling, announced>>

\* objectV2, "there was no match".
ObjectNoMatch(p) == Answers(p) /\ EnterIncident(p)

\* reportIncidentV2: while declaring, answering, collecting evidence or in
\* the incident window; a case not opened yet is opened by the report.
ReportIncident(p) ==
  /\ kase.rules = "ra_v1" /\ ~kase.late
  /\ kase.status \in {"not_open", "declaration_open", "proposed",
                      "evidence_window", "incident_window"}
  /\ EnterIncident(p)

-----------------------------------------------------------------------------
(* The dispute (resultDisputeV2, disputeRulingJob).                        *)

EvidenceOpen ==
  kase.status = "evidence_window" /\ ~kase.closed /\ ~kase.late

SubmitDisputeEvidence(p, o) ==
  /\ EvidenceOpen
  /\ exhibits' = exhibits \union {o}
  /\ UNCHANGED <<kase, proposal, claimants, voices, ruling, page, announced>>

MarkEvidenceDone(p) ==
  /\ EvidenceOpen
  /\ said' = said \union {<<p, "done">>}
  /\ kase' = [kase EXCEPT !.closed =
       \A t \in Teams : \E q \in t : <<q, "done">> \in said']
  /\ UNCHANGED <<papers, agreed, appeals, ruling, page, announced>>

EvidenceClosable ==
  kase.status = "evidence_window" /\ (kase.closed \/ kase.late)

Publish(tier, o) ==
  /\ ruling' = [tier |-> tier, outcome |-> o]
  /\ kase' = [Enter(kase, "appeal_window") EXCEPT !.outcome = o]
  /\ Outdates(Nobody)
  /\ UNCHANGED <<papers, voices, announced>>

\* tier1Decide: valid photos for one outcome only, or none at all, rule the
\* case; a foreign photo drops out alone.
CloseEvidenceByRule ==
  /\ EvidenceClosable
  /\ \E o \in Outcomes :
       /\ exhibits = {o} \/ (exhibits = {} /\ o = "NO_RESULT")
       /\ Publish(1, o)

\* Conflicting evidence: the AI drafts a ruling, or there is no AI.
CloseEvidenceInConflict ==
  /\ EvidenceClosable /\ Cardinality(exhibits) > 1
  /\ \/ Move(Enter(kase, "ai_ruling"))
     \/ Move(Review(kase))

\* A photo stayed unread: retried until thirty minutes after the close.
CloseEvidenceUnread ==
  /\ EvidenceClosable /\ kase.overdue
  /\ Move(Review(kase))

\* runPendingRulings: the AI is confident enough to publish ...
PublishAiRuling(o) == kase.status = "ai_ruling" /\ Publish(2, o)

\* ... or it is not, or it gave no answer until the retry period ended.
AiRulingToAdmin == kase.status = "ai_ruling" /\ Move(Review(kase))

AppealOpen == kase.status = "appeal_window" /\ ~kase.late
Appealed(team) == appeals \intersect team # {}
Accepted(team) == \E p \in team : HasSaid(p, "accept")

\* submitAppeal with grounds. When both teams lose, the case waits for the
\* word of the other team.
SubmitAppeal(p) ==
  LET waits == /\ ruling.outcome = "NO_RESULT"
               /\ ~Appealed(Opponents(p)) /\ ~Accepted(Opponents(p))
  IN  /\ AppealOpen /\ p \in RulingLosers(ruling.outcome)
      /\ ~Appealed(TeamOf(p))
      /\ appeals' = appeals \union {p}
      /\ kase' = IF waits THEN kase ELSE Review(kase)
      /\ UNCHANGED <<papers, said, agreed, ruling, page, announced>>

\* acceptRuling: one member of every losing team is enough; the payer that
\* is waited for is the payer of the member who accepts now.
AcceptRuling(p) ==
  LET o == ruling.outcome
      losers == RulingLosers(o)
      accepted == {q \in Members : HasSaid(q, "accept")} \union {p}
      waits == \/ PaidBy[p] \in losers \ accepted
               \/ \E t \in Teams : /\ t \intersect losers # {}
                                   /\ t \intersect accepted = {}
  IN  /\ AppealOpen /\ p \in losers
      /\ o = "NO_RESULT" => ~Appealed(TeamOf(p))
      /\ said' = said \union {<<p, "accept">>}
      /\ agreed' = agreed \union {<<p, o>>}
      /\ CASE o = "NO_RESULT" /\ Appealed(Opponents(p)) ->
                kase' = Review(kase) /\ UNCHANGED announced
           [] ~(o = "NO_RESULT" /\ Appealed(Opponents(p))) /\ waits ->
                UNCHANGED <<kase, announced>>
           [] OTHER -> kase' = Final(kase, o, "consent") /\ Announce(o)
      /\ UNCHANGED <<papers, appeals, ruling, page>>

-----------------------------------------------------------------------------
(* The sweepers (resultLifecycle, resultSweepV2).                          *)

SweepDeclaration ==
  /\ kase.status = "declaration_open" /\ kase.late
  /\ Move([Enter(kase, "incident_window") EXCEPT !.outcome = "NO_RESULT"])

\* Mutant: an appeal that waits for the other team is not looked at.
SilenceIsFinalDespiteAppeal ==
  \/ kase.status \in {"incident_window", "provisional", "appeal_window"}
  \/ kase.status = "proposed" /\ ~Red(proposal.photos)

\* What silence makes final: no incident, a proposal without a foreign
\* photo, a ruling without an appeal.
SilenceIsFinal ==
  \/ kase.status \in {"incident_window", "provisional"}
  \/ kase.status = "proposed" /\ ~Red(proposal.photos)
  \/ kase.status = "appeal_window" /\ appeals = {}

SweepSilence ==
  /\ kase.late /\ SilenceIsFinal
  /\ kase' = Final(kase, kase.outcome, "deadline")
  /\ Announce(kase.outcome)
  /\ Outdates(Nobody)
  /\ UNCHANGED <<papers, voices, ruling>>

\* Past the deadline, but not for the clock to decide.
SweepToAdmin ==
  /\ kase.late /\ ~SilenceIsFinal
  /\ kase.status \in {"proposed", "appeal_window", "provider_review"}
  /\ Move(Review(kase))

-----------------------------------------------------------------------------
(* Cases of the first rules (matchResults, resultLifecycle).               *)

\* submitResultClaim: the organizer alone, once.
LegacyClaim(o) ==
  /\ kase.rules = "legacy" /\ kase.status = "declaration_open" /\ ~kase.late
  /\ proposal' = [by |-> Organizer, photos |-> "valid"]
  /\ claimants' = {Organizer}
  /\ kase' = [Enter(kase, "provisional") EXCEPT !.outcome = o]
  /\ UNCHANGED <<exhibits, voices, ruling, page, announced>>

\* confirmResult: the last of the losing team closes the case, the first
\* starts sixty minutes for his partner.
LegacyConfirm(p) ==
  /\ kase.status = "provisional" /\ ~kase.late /\ Loses(p)
  /\ ~HasSaid(p, "confirm")
  /\ said' = said \union {<<p, "confirm">>}
  /\ agreed' = agreed \union {<<p, kase.outcome>>}
  /\ IF \A q \in TeamOf(p) : <<q, "confirm">> \in said'
     THEN /\ kase' = Final(kase, kase.outcome, "consent")
          /\ Announce(kase.outcome)
     ELSE UNCHANGED <<kase, announced>>
  /\ UNCHANGED <<papers, appeals, ruling, page>>

\* openResultDispute, by an objection or a reported incident: to the
\* provider, or to the administrator if the provider plays in the match.
LegacyDispute(next) ==
  /\ kase' = [Enter(kase, next) EXCEPT !.outcome = Undecided]
  /\ UNCHANGED <<papers, agreed, appeals, ruling, page, announced>>

LegacyObject(p, next) ==
  /\ kase.status = "provisional" /\ ~kase.late
  /\ LegacyDispute(next)
  /\ UNCHANGED said

LegacyIncident(p, next) ==
  /\ kase.rules = "legacy" /\ ~kase.late
  /\ kase.status \in {"declaration_open", "provisional", "incident_window"}
  /\ LegacyDispute(next)
  /\ said' = said \union {<<p, "incident">>}

ProviderRecommends ==
  kase.status = "provider_review" /\ Move(Review(kase))

-----------------------------------------------------------------------------
(* The administrator.                                                      *)

\* Mutant: the status is not checked under the lock.
DecideAdminResultAgain(o) ==
  /\ kase.status \in {"admin_review", "final"}
  /\ kase' = Final(kase, o, "admin")
  /\ Announce(o)
  /\ UNCHANGED <<papers, voices, ruling, page>>

DecideAdminResult(o) ==
  /\ kase.status = "admin_review"
  /\ kase' = Final(kase, o, "admin")
  /\ Announce(o)
  /\ UNCHANGED <<papers, voices, ruling, page>>

-----------------------------------------------------------------------------
MatchResultsInit ==
  /\ \E rules \in {"legacy", "ra_v1"} :
       kase = [rules |-> rules,
               status |-> IF rules = "legacy" THEN "declaration_open"
                          ELSE "not_open",
               outcome |-> Undecided, late |-> FALSE, closed |-> FALSE,
               overdue |-> FALSE, declared |-> FALSE, by |-> "nobody"]
  /\ proposal = [by |-> Nobody, photos |-> "valid"]
  /\ claimants = {} /\ exhibits = {}
  /\ said = {} /\ agreed = {} /\ appeals = {}
  /\ ruling = [tier |-> 0, outcome |-> Undecided]
  /\ page = NoPage
  /\ announced = << >>

PlayerActs(p) ==
  \/ LoadPage(p) \/ Confirm(p) \/ ObjectNoMatch(p) \/ ReportIncident(p)
  \/ MarkEvidenceDone(p) \/ SubmitAppeal(p) \/ AcceptRuling(p)
  \/ LegacyConfirm(p)
  \/ \E c \in Claims :
       FirstClaim(p, c) \/ ReplaceClaim(p, c) \/ AnswerByClaim(p, c)
  \/ \E supports \in {{}} \union {{o} : o \in Outcomes} : Object(p, supports)
  \/ \E o \in Outcomes : SubmitDisputeEvidence(p, o)
  \/ \E next \in {"provider_review", "admin_review"} :
       LegacyObject(p, next) \/ LegacyIncident(p, next)

Clock == DeadlinePasses \/ DeclarationEnds \/ RetryPeriodEnds

Sweepers ==
  \/ SweepDeclaration \/ SweepSilence \/ SweepToAdmin
  \/ CloseEvidenceByRule \/ CloseEvidenceInConflict \/ CloseEvidenceUnread
  \/ AiRulingToAdmin
  \/ \E o \in Outcomes : PublishAiRuling(o)

MatchResultsNext ==
  \/ OpenResultCase
  \/ Clock
  \/ Sweepers
  \/ \E p \in Members : PlayerActs(p)
  \/ LeavePage
  \/ \E o \in Wins : LegacyClaim(o)
  \/ ProviderRecommends
  \/ \E o \in Outcomes : DecideAdminResult(o)

MatchResultsSpec == MatchResultsInit /\ [][MatchResultsNext]_resultVars

-----------------------------------------------------------------------------
(* Properties.                                                             *)

\* One result per match: the event that pays the prize is written once and
\* names the outcome of the row; no handler, sweeper or late press announces
\* again or changes a case that is final (writeResultFinal has seven callers).
OneFinalResult ==
  /\ announced = IF kase.status = "final" THEN <<kase.outcome>> ELSE << >>
  /\ kase.status = "final" => kase.outcome \in Outcomes

\* What only a person may decide: a case with a reported incident or an
\* accepted appeal is final by the administrator only, and so is a proposal
\* with a foreign photo unless a dispute replaced it by a ruling; a ruling
\* by rule names a winner that a valid photo supports.
HardCasesNeedTheAdmin ==
  kase.status = "final" /\ kase.by # "admin" =>
    /\ appeals = {}
    /\ \A p \in Members : ~HasSaid(p, "incident")
    /\ ruling.tier = 0 => ~Red(proposal.photos)
    /\ ruling.tier = 1 /\ kase.outcome \in Wins => kase.outcome \in exhibits

\* A case closed before its deadline is closed by the side that loses by it:
\* every losing team has a member who agreed to exactly the outcome that
\* became final, whatever was replaced between his look and his press.
EarlyFinalIsAgreed ==
  kase.status = "final" /\ kase.by = "consent" =>
    LET losers == IF ruling.tier > 0 THEN RulingLosers(kase.outcome)
                  ELSE LosersOf(kase.outcome, proposal.by)
    IN  \A t \in Teams : t \intersect losers # {} =>
          \E p \in t : <<p, kase.outcome>> \in agreed

\* BR-RA-23 as resultDisputeV2.ts:279 states it: the acceptance of a partner
\* whose slot a mate paid does not close the case while the payer has not
\* accepted it (a mate who accepts for himself is enough for the team).
PayerHasTheLastWord ==
  kase.status = "final" /\ kase.by = "consent" /\ ruling.tier > 0 =>
    \A t \in Teams : t \intersect RulingLosers(kase.outcome) # {} =>
      \E p \in t : HasSaid(p, "accept") /\ HasSaid(PaidBy[p], "accept")

=============================================================================
