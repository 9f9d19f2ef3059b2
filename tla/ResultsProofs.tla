---------------------------- MODULE ResultsProofs ----------------------------
(***************************************************************************)
(* Proofs about the result of a match, for any teams, any payer of any     *)
(* slot and any sequence of presses, sweeps, rulings and decisions.  What  *)
(* makes the three properties inductive is ResultInv: which papers, pages, *)
(* rulings, appeals and consents can exist in which status of the case.    *)
(* Then about what comes of the results: which of them are rated, and what *)
(* becomes of the claim of a prize, for any fixtures, teams and windows;   *)
(* in which order they are written, which needs that a finite set can be   *)
(* put in the order of any relation that is total on it; and that the      *)
(* prizes are computed from all of them, because nothing is added to the   *)
(* window of a programme once its last match is final.  And about the      *)
(* score sheets from which a result comes, for any length of a set.        *)
(***************************************************************************)
EXTENDS MatchResults, SeasonRewards, MatchRules, SetSums, TLAPS

CaseRow == [rules : {"legacy", "ra_v1"}, status : Statuses,
            outcome : Outcomes \union {Undecided}, late : BOOLEAN,
            closed : BOOLEAN, overdue : BOOLEAN, declared : BOOLEAN,
            by : {"nobody", "consent", "deadline", "admin"}]

Ruled == {"appeal_window", "admin_review", "final"}

\* The proposal, the page in flight and what the row names.
PapersFit ==
  /\ kase.status \in {"proposed", "incident_window", "provisional", "appeal_window"}
       => kase.outcome \in Outcomes
  /\ kase.status \in {"not_open", "declaration_open", "incident_window", "provisional"}
       => proposal.photos = "valid"
  /\ page.current = TRUE
       => kase.status = "proposed" /\ page.outcome = kase.outcome

\* The ruling and its appeals.
RulingFits ==
  /\ ruling.tier # 0 => kase.status \in Ruled
  /\ appeals # {} => kase.status \in Ruled
  /\ kase.status = "appeal_window" =>
       /\ ruling.tier # 0 /\ ruling.outcome = kase.outcome
       /\ ruling.tier = 1 /\ kase.outcome \in Wins => kase.outcome \in exhibits
       /\ appeals # {} => ruling.outcome = "NO_RESULT"

\* What was said, and in which status it can have been said.
WordsFit ==
  /\ \A p \in Members : HasSaid(p, "accept")
       => kase.status \in Ruled /\ <<p, ruling.outcome>> \in agreed
  /\ \A p \in Members : HasSaid(p, "incident")
       => kase.status \in {"provider_review", "admin_review", "final"}

ResultInv ==
  /\ MatchResultsTypeOK
  /\ PapersFit /\ RulingFits /\ WordsFit
  /\ OneFinalResult /\ HardCasesNeedTheAdmin /\ EarlyFinalIsAgreed

-----------------------------------------------------------------------------
(* The row, the sides and the page.                                        *)

\* A row that enters a status keeps its rules, its outcome and who closed it.
LEMMA EnterRow ==
  ASSUME NEW k \in CaseRow, NEW s \in Statuses
  PROVE  /\ Enter(k, s) \in CaseRow
         /\ Enter(k, s).status = s
         /\ Enter(k, s).outcome = k.outcome
         /\ Enter(k, s).by = k.by
BY DEF Enter, CaseRow

\* A row whose outcome is replaced changes nothing else.
LEMMA OutcomeRow ==
  ASSUME NEW k \in CaseRow, NEW o \in Outcomes \union {Undecided}
  PROVE  /\ [k EXCEPT !.outcome = o] \in CaseRow
         /\ [k EXCEPT !.outcome = o].status = k.status
         /\ [k EXCEPT !.outcome = o].outcome = o
         /\ [k EXCEPT !.outcome = o].by = k.by
BY DEF CaseRow

Closers == {"consent", "deadline", "admin"}

\* The final row.
LEMMA FinalRow ==
  ASSUME NEW k \in CaseRow, NEW o \in Outcomes, NEW b \in Closers
  PROVE  /\ Final(k, o, b) \in CaseRow
         /\ Final(k, o, b).status = "final"
         /\ Final(k, o, b).outcome = o
         /\ Final(k, o, b).by = b
<1> DEFINE e == Enter(k, "final")
<1>1. "final" \in Statuses
  BY DEF Statuses
<1>2. e \in CaseRow /\ e.status = "final"
  BY <1>1, EnterRow
<1>3. Final(k, o, b) = [e EXCEPT !.outcome = o, !.by = b]
  BY DEF Final
<1> HIDE DEF e
<1> QED
  BY <1>2, <1>3 DEF CaseRow, Closers

\* Two rows that differ in their timers at most.
SameCase(r, k) == r.status = k.status /\ r.outcome = k.outcome /\ r.by = k.by

\* The timers write only the timers.
LEMMA TimerRow ==
  ASSUME NEW k \in CaseRow, NEW b \in BOOLEAN
  PROVE  /\ [k EXCEPT !.late = b] \in CaseRow
         /\ [k EXCEPT !.closed = b] \in CaseRow
         /\ [k EXCEPT !.overdue = b] \in CaseRow
         /\ [k EXCEPT !.declared = b] \in CaseRow
         /\ SameCase([k EXCEPT !.late = b], k)
         /\ SameCase([k EXCEPT !.closed = b], k)
         /\ SameCase([k EXCEPT !.overdue = b], k)
         /\ SameCase([k EXCEPT !.declared = b], k)
BY DEF CaseRow, SameCase

\* Whoever lost by a proposal is a whole team, and the other team is apart.
LEMMA LosersAreATeam ==
  ASSUME NEW o, NEW by
  PROVE  /\ LosersOf(o, by) \in Teams
         /\ \A t \in Teams : t \intersect LosersOf(o, by) # {} => t = LosersOf(o, by)
BY MatchResultsAssumption DEF LosersOf, Teams, Opponents

\* The outcomes, and what is none of them.
LEMMA OutcomeFacts == Undecided \notin Outcomes /\ "NO_RESULT" \notin Wins
BY DEF Undecided, Outcomes, Wins

-----------------------------------------------------------------------------
(* What many steps have in common.                                         *)

\* A page that a step outdates is not current any more.
LEMMA OutdatedPage ==
  ASSUME ResultInv, NEW p, Outdates(p)
  PROVE  /\ page' \in [who : Members \union {Nobody},
                       outcome : Outcomes \union {Undecided}, current : BOOLEAN]
         /\ page'.current = FALSE
<1>1. page \in [who : Members \union {Nobody},
                outcome : Outcomes \union {Undecided}, current : BOOLEAN]
  BY DEF ResultInv, MatchResultsTypeOK
<1> QED
  BY <1>1 DEF Outdates, NoPage

\* The conjuncts about a final case have nothing to say of an open one.
LEMMA OpenCase ==
  ASSUME ResultInv, kase.status # "final", kase'.status # "final",
         UNCHANGED announced
  PROVE  OneFinalResult' /\ HardCasesNeedTheAdmin' /\ EarlyFinalIsAgreed'
BY DEF ResultInv, OneFinalResult, HardCasesNeedTheAdmin, EarlyFinalIsAgreed

\* A row that moves on without a word being said keeps everything, if its new
\* status suits the papers, the ruling and the words that are there.
LEMMA QuietMove ==
  ASSUME ResultInv, kase.status # "final",
         NEW k \in CaseRow, Move(k),
         k.status \notin {"final", "proposed", "not_open", "provisional", "appeal_window"},
         k.status \in {"declaration_open", "incident_window"} =>
           kase.status \in {"not_open", "declaration_open"},
         k.status = "incident_window" => k.outcome \in Outcomes,
         kase.status \in {"appeal_window", "admin_review"} => k.status = "admin_review",
         (\E p \in Members : HasSaid(p, "incident")) => k.status = "admin_review"
  PROVE  ResultInv'
<1>1. /\ kase' = k /\ Outdates(Nobody)
      /\ UNCHANGED <<papers, voices, ruling, announced>>
  BY DEF Move
<1>2. /\ page' \in [who : Members \union {Nobody},
                    outcome : Outcomes \union {Undecided}, current : BOOLEAN]
      /\ page'.current = FALSE
  BY <1>1, OutdatedPage
<1>3. MatchResultsTypeOK'
  BY <1>1, <1>2 DEF ResultInv, MatchResultsTypeOK, CaseRow, papers, voices
<1>4. PapersFit'
  BY <1>1, <1>2 DEF ResultInv, PapersFit, papers
<1>5. RulingFits'
  BY <1>1 DEF ResultInv, RulingFits, Ruled, papers, voices
<1>6. WordsFit'
  BY <1>1 DEF ResultInv, WordsFit, HasSaid, Ruled, voices
<1>7. OneFinalResult' /\ HardCasesNeedTheAdmin' /\ EarlyFinalIsAgreed'
  BY <1>1, OpenCase
<1> QED
  BY <1>3, <1>4, <1>5, <1>6, <1>7 DEF ResultInv

\* A step that writes no row but the timers.
LEMMA QuietTick ==
  ASSUME ResultInv, kase' \in CaseRow,
         SameCase(kase', kase),
         UNCHANGED <<papers, voices, ruling, page, announced>>
  PROVE  ResultInv'
<1>1. kase'.status = kase.status /\ kase'.outcome = kase.outcome /\ kase'.by = kase.by
  BY DEF SameCase
<1>2. MatchResultsTypeOK'
  BY DEF ResultInv, MatchResultsTypeOK, CaseRow, papers, voices
<1>3. PapersFit' /\ RulingFits'
  BY <1>1 DEF ResultInv, PapersFit, RulingFits, papers, voices
<1>4. WordsFit'
  BY <1>1 DEF ResultInv, WordsFit, HasSaid, voices
<1>5. OneFinalResult' /\ HardCasesNeedTheAdmin' /\ EarlyFinalIsAgreed'
  BY <1>1 DEF ResultInv, OneFinalResult, HardCasesNeedTheAdmin, EarlyFinalIsAgreed,
              HasSaid, papers, voices
<1> QED
  BY <1>2, <1>3, <1>4, <1>5 DEF ResultInv

-----------------------------------------------------------------------------
(* Clock and sweepers.                                                     *)

LEMMA ClockKeeps == ResultInv /\ Clock => ResultInv'
<1> SUFFICES ASSUME ResultInv, Clock PROVE ResultInv'
  OBVIOUS
<1>1. kase \in CaseRow
  BY DEF ResultInv, MatchResultsTypeOK, CaseRow
<1>2. PICK k \in {[kase EXCEPT !.late = TRUE], [kase EXCEPT !.declared = TRUE],
                [kase EXCEPT !.overdue = TRUE]} : Ticks(k)
  BY DEF Clock, DeadlinePasses, DeclarationEnds, RetryPeriodEnds
<1>3. k \in CaseRow /\ SameCase(k, kase)
  BY <1>1, TimerRow
<1>4. kase' = k /\ UNCHANGED <<papers, voices, ruling, page, announced>>
  BY <1>2 DEF Ticks
<1> QED
  BY <1>3, <1>4, QuietTick

\* To the administrator: from wherever the case is open.
LEMMA ReviewKeeps ==
  ASSUME ResultInv, kase.status # "final", Move(Review(kase))
  PROVE  ResultInv'
<1>1. kase \in CaseRow /\ "admin_review" \in Statuses
  BY DEF ResultInv, MatchResultsTypeOK, CaseRow, Statuses
<1>2. Review(kase) \in CaseRow /\ Review(kase).status = "admin_review"
  BY <1>1, EnterRow DEF Review
<1> QED
  BY <1>2, QuietMove

LEMMA OpenKeeps == ResultInv /\ OpenResultCase => ResultInv'
<1> SUFFICES ASSUME ResultInv, OpenResultCase PROVE ResultInv'
  OBVIOUS
<1>1. kase \in CaseRow /\ "declaration_open" \in Statuses
  BY DEF ResultInv, MatchResultsTypeOK, CaseRow, Statuses, Timed
<1> DEFINE k == Enter(kase, "declaration_open")
<1>2. k \in CaseRow /\ k.status = "declaration_open"
  BY <1>1, EnterRow
<1>3. kase.status = "not_open" /\ Move(k)
  BY DEF OpenResultCase
<1>4. \A p \in Members : ~HasSaid(p, "incident")
  BY <1>3 DEF ResultInv, WordsFit
<1> HIDE DEF k
<1> QED
  BY <1>2, <1>3, <1>4, QuietMove

LEMMA SweepDeclarationKeeps == ResultInv /\ SweepDeclaration => ResultInv'
<1> SUFFICES ASSUME ResultInv, SweepDeclaration PROVE ResultInv'
  OBVIOUS
<1>1. kase \in CaseRow /\ "incident_window" \in Statuses
  BY DEF ResultInv, MatchResultsTypeOK, CaseRow, Statuses, Timed
<1> DEFINE e == Enter(kase, "incident_window")
           k == [e EXCEPT !.outcome = "NO_RESULT"]
<1>2. e \in CaseRow /\ e.status = "incident_window"
  BY <1>1, EnterRow
<1>3. kase.status = "declaration_open" /\ Move(k)
  BY DEF SweepDeclaration
<1>4. \A p \in Members : ~HasSaid(p, "incident")
  BY <1>3 DEF ResultInv, WordsFit
<1> HIDE DEF e
<1>5. "NO_RESULT" \in Outcomes
  BY DEF Outcomes
<1>6. k \in CaseRow /\ k.status = "incident_window" /\ k.outcome = "NO_RESULT"
  BY <1>2, <1>5, OutcomeRow
<1> HIDE DEF k
<1> QED
  BY <1>3, <1>4, <1>5, <1>6, QuietMove

\* A case becomes final, and its outcome is announced.
LEMMA BecomesFinal ==
  ASSUME ResultInv, kase.status # "final",
         NEW o \in Outcomes, NEW b \in Closers,
         NEW k \in CaseRow,
         kase' = Final(k, o, b), Announce(o),
         page' \in [who : Members \union {Nobody},
                    outcome : Outcomes \union {Undecided}, current : BOOLEAN],
         page'.current = FALSE
  PROVE  /\ kase' \in CaseRow /\ kase'.status = "final"
         /\ kase'.outcome = o /\ kase'.by = b
         /\ PapersFit' /\ OneFinalResult'
         /\ announced' \in Seq(Outcomes)
<1> DEFINE f == Final(k, o, b)
<1>0. f \in CaseRow /\ f.status = "final" /\ f.outcome = o /\ f.by = b
  BY FinalRow
<1>1. /\ kase' \in CaseRow /\ kase'.status = "final"
      /\ kase'.outcome = o /\ kase'.by = b
  <2>1. kase' = f
    OBVIOUS
  <2> HIDE DEF f
  <2> QED
    BY <1>0, <2>1
<1>2. announced = << >> /\ announced' = Append(announced, o)
  BY DEF ResultInv, OneFinalResult, Announce
<1>3. announced' = <<o>>
  BY <1>2
<1> QED
  BY <1>1, <1>3 DEF PapersFit, OneFinalResult

LEMMA SweepSilenceKeeps == ResultInv /\ SweepSilence => ResultInv'
<1> SUFFICES ASSUME ResultInv, SweepSilence PROVE ResultInv'
  OBVIOUS
<1> DEFINE o == kase.outcome
<1>1. /\ kase' = Final(kase, o, "deadline") /\ Announce(o) /\ Outdates(Nobody)
      /\ UNCHANGED <<papers, voices, ruling>> /\ SilenceIsFinal
  BY DEF SweepSilence
<1>2. /\ kase \in CaseRow /\ o \in Outcomes
      /\ kase.status \in {"proposed", "incident_window", "provisional", "appeal_window"}
  BY <1>1 DEF ResultInv, MatchResultsTypeOK, CaseRow, SilenceIsFinal, PapersFit
<1>3. /\ page' \in [who : Members \union {Nobody},
                    outcome : Outcomes \union {Undecided}, current : BOOLEAN]
      /\ page'.current = FALSE
  BY <1>1, OutdatedPage
<1>4. /\ kase' \in CaseRow /\ kase'.status = "final"
      /\ kase'.outcome = o /\ kase'.by = "deadline"
      /\ PapersFit' /\ OneFinalResult' /\ announced' \in Seq(Outcomes)
  BY <1>1, <1>2, <1>3, BecomesFinal DEF Closers
<1> HIDE DEF o
<1>5. MatchResultsTypeOK'
  BY <1>1, <1>3, <1>4 DEF ResultInv, MatchResultsTypeOK, CaseRow, papers, voices
<1>6. RulingFits' /\ WordsFit'
  BY <1>1, <1>2, <1>4 DEF ResultInv, RulingFits, WordsFit, Ruled, HasSaid, papers, voices
<1>7. /\ appeals = {}
      /\ \A p \in Members : ~HasSaid(p, "incident")
      /\ ruling.tier = 0 => ~Red(proposal.photos)
      /\ ruling.tier = 1 /\ o \in Wins => o \in exhibits
  BY <1>1, <1>2 DEF ResultInv, RulingFits, WordsFit, PapersFit, SilenceIsFinal, Ruled, Red, o
<1>8. HardCasesNeedTheAdmin' /\ EarlyFinalIsAgreed'
  BY <1>1, <1>4, <1>7 DEF HardCasesNeedTheAdmin, EarlyFinalIsAgreed, HasSaid, papers, voices
<1> QED
  BY <1>4, <1>5, <1>6, <1>8 DEF ResultInv

LEMMA SweepToAdminKeeps == ResultInv /\ SweepToAdmin => ResultInv'
BY ReviewKeeps DEF SweepToAdmin

-----------------------------------------------------------------------------
(* The dispute and its ruling.                                             *)

LEMMA EvidenceKeeps ==
  ASSUME ResultInv, NEW p, NEW o \in Outcomes, SubmitDisputeEvidence(p, o)
  PROVE  ResultInv'
<1>1. /\ kase.status = "evidence_window" /\ exhibits' = exhibits \union {o}
      /\ UNCHANGED <<kase, proposal, claimants, said, agreed, appeals, ruling, page, announced>>
  BY DEF SubmitDisputeEvidence, EvidenceOpen, voices
<1>2. MatchResultsTypeOK'
  BY <1>1 DEF ResultInv, MatchResultsTypeOK
<1>3. PapersFit' /\ RulingFits' /\ WordsFit'
  BY <1>1 DEF ResultInv, PapersFit, RulingFits, WordsFit, HasSaid
<1>4. OneFinalResult' /\ HardCasesNeedTheAdmin' /\ EarlyFinalIsAgreed'
  BY <1>1, OpenCase
<1> QED
  BY <1>2, <1>3, <1>4 DEF ResultInv

LEMMA EvidenceDoneKeeps ==
  ASSUME ResultInv, NEW p \in Members, MarkEvidenceDone(p)
  PROVE  ResultInv'
<1> DEFINE b == \A t \in Teams : \E q \in t : <<q, "done">> \in said'
<1>1. /\ kase.status = "evidence_window" /\ kase' = [kase EXCEPT !.closed = b]
      /\ said' = said \union {<<p, "done">>}
      /\ UNCHANGED <<proposal, claimants, exhibits, agreed, appeals, ruling, page, announced>>
  BY DEF MarkEvidenceDone, EvidenceOpen, papers
<1>2. b \in BOOLEAN /\ kase \in CaseRow
  BY DEF ResultInv, MatchResultsTypeOK, CaseRow
<1> HIDE DEF b
<1>3. kase' \in CaseRow /\ SameCase(kase', kase)
  BY <1>1, <1>2, TimerRow
<1>4. MatchResultsTypeOK'
  BY <1>1, <1>3 DEF ResultInv, MatchResultsTypeOK, CaseRow, Kinds
<1>5. PapersFit' /\ RulingFits'
  BY <1>1, <1>3 DEF ResultInv, PapersFit, RulingFits, SameCase
<1>6. WordsFit'
  BY <1>1, <1>3 DEF ResultInv, WordsFit, HasSaid, SameCase
<1>7. OneFinalResult' /\ HardCasesNeedTheAdmin' /\ EarlyFinalIsAgreed'
  BY <1>1, <1>3, OpenCase DEF SameCase
<1> QED
  BY <1>4, <1>5, <1>6, <1>7 DEF ResultInv

\* A ruling is published: the words that were said earlier are none about it.
LEMMA PublishKeeps ==
  ASSUME ResultInv, NEW tier \in {1, 2}, NEW o \in Outcomes, Publish(tier, o),
         kase.status \in {"evidence_window", "ai_ruling"},
         tier = 1 /\ o \in Wins => o \in exhibits
  PROVE  ResultInv'
<1>1. /\ ruling' = [tier |-> tier, outcome |-> o]
      /\ kase' = [Enter(kase, "appeal_window") EXCEPT !.outcome = o]
      /\ Outdates(Nobody)
      /\ UNCHANGED <<proposal, claimants, exhibits, said, agreed, appeals, announced>>
  BY DEF Publish, papers, voices
<1> DEFINE e == Enter(kase, "appeal_window")
<1>2. kase \in CaseRow /\ "appeal_window" \in Statuses
  BY DEF ResultInv, MatchResultsTypeOK, CaseRow, Statuses, Timed
<1>3. e \in CaseRow /\ e.status = "appeal_window"
  BY <1>2, EnterRow
<1>4. kase' = [e EXCEPT !.outcome = o]
  BY <1>1
<1> HIDE DEF e
<1>5. kase' \in CaseRow /\ kase'.status = "appeal_window" /\ kase'.outcome = o
  BY <1>3, <1>4, OutcomeRow
<1>6. /\ page' \in [who : Members \union {Nobody},
                    outcome : Outcomes \union {Undecided}, current : BOOLEAN]
      /\ page'.current = FALSE
  BY <1>1, OutdatedPage
<1>7. ruling'.tier = tier /\ ruling'.outcome = o
  BY <1>1
<1>8. MatchResultsTypeOK'
  BY <1>1, <1>5, <1>6 DEF ResultInv, MatchResultsTypeOK, CaseRow
<1>9. PapersFit' /\ RulingFits'
  BY <1>1, <1>5, <1>6, <1>7 DEF ResultInv, PapersFit, RulingFits, Ruled
<1>10. WordsFit'
  BY <1>1, <1>5 DEF ResultInv, WordsFit, HasSaid, Ruled
<1>11. OneFinalResult' /\ HardCasesNeedTheAdmin' /\ EarlyFinalIsAgreed'
  BY <1>1, <1>5, OpenCase
<1> QED
  BY <1>8, <1>9, <1>10, <1>11 DEF ResultInv

LEMMA SweepersKeep == ResultInv /\ Sweepers => ResultInv'
<1> SUFFICES ASSUME ResultInv, Sweepers PROVE ResultInv'
  OBVIOUS
<1>1. CASE SweepDeclaration \/ SweepSilence \/ SweepToAdmin
  BY <1>1, SweepDeclarationKeeps, SweepSilenceKeeps, SweepToAdminKeeps
<1>2. CASE CloseEvidenceByRule
  <2>1. PICK o \in Outcomes : /\ exhibits = {o} \/ (exhibits = {} /\ o = "NO_RESULT")
                             /\ Publish(1, o)
    BY <1>2 DEF CloseEvidenceByRule
  <2>2. kase.status = "evidence_window" /\ (o \in Wins => o \in exhibits)
    BY <1>2, <2>1, OutcomeFacts DEF CloseEvidenceByRule, EvidenceClosable
  <2> QED
    BY <2>1, <2>2, PublishKeeps
<1>3. CASE CloseEvidenceInConflict
  <2>1. kase.status = "evidence_window"
    BY <1>3 DEF CloseEvidenceInConflict, EvidenceClosable
  <2> DEFINE k == Enter(kase, "ai_ruling")
  <2>2. kase \in CaseRow /\ "ai_ruling" \in Statuses
    BY DEF ResultInv, MatchResultsTypeOK, CaseRow, Statuses, Timed
  <2>3. k \in CaseRow /\ k.status = "ai_ruling"
    BY <2>2, EnterRow
  <2>4. \A p \in Members : ~HasSaid(p, "incident")
    BY <2>1 DEF ResultInv, WordsFit
  <2>5. Move(k) \/ Move(Review(kase))
    BY <1>3 DEF CloseEvidenceInConflict
  <2> HIDE DEF k
  <2>6. CASE Move(k)
    BY <2>1, <2>3, <2>4, <2>6, QuietMove
  <2> QED
    BY <2>1, <2>5, <2>6, ReviewKeeps
<1>4. CASE CloseEvidenceUnread \/ AiRulingToAdmin
  BY <1>4, ReviewKeeps DEF CloseEvidenceUnread, AiRulingToAdmin, EvidenceClosable
<1>5. CASE \E o \in Outcomes : PublishAiRuling(o)
  BY <1>5, PublishKeeps DEF PublishAiRuling
<1> QED
  BY <1>1, <1>2, <1>3, <1>4, <1>5 DEF Sweepers

LEMMA AppealKeeps ==
  ASSUME ResultInv, NEW p \in Members, SubmitAppeal(p)
  PROVE  ResultInv'
<1> DEFINE waits == /\ ruling.outcome = "NO_RESULT"
                    /\ ~Appealed(Opponents(p)) /\ ~Accepted(Opponents(p))
<1>1. /\ kase.status = "appeal_window" /\ appeals' = appeals \union {p}
      /\ kase' = IF waits THEN kase ELSE Review(kase)
      /\ UNCHANGED <<proposal, claimants, exhibits, said, agreed, ruling, page, announced>>
  BY DEF SubmitAppeal, AppealOpen, papers
<1>2. kase \in CaseRow /\ "admin_review" \in Statuses
  BY DEF ResultInv, MatchResultsTypeOK, CaseRow, Statuses
<1>3. Review(kase) \in CaseRow /\ Review(kase).status = "admin_review"
  BY <1>2, EnterRow DEF Review
<1>4. \/ kase' = kase /\ ruling.outcome = "NO_RESULT"
      \/ kase' \in CaseRow /\ kase'.status = "admin_review"
  BY <1>1, <1>3
<1>5. page.current = FALSE
  BY <1>1 DEF ResultInv, PapersFit, MatchResultsTypeOK
<1>6. MatchResultsTypeOK'
  BY <1>1, <1>2, <1>4 DEF ResultInv, MatchResultsTypeOK, CaseRow
<1>7. PapersFit' /\ RulingFits'
  BY <1>1, <1>4, <1>5 DEF ResultInv, PapersFit, RulingFits, Ruled
<1>8. WordsFit'
  BY <1>1, <1>4 DEF ResultInv, WordsFit, HasSaid, Ruled
<1>9. OneFinalResult' /\ HardCasesNeedTheAdmin' /\ EarlyFinalIsAgreed'
  BY <1>1, <1>4, OpenCase
<1> QED
  BY <1>6, <1>7, <1>8, <1>9 DEF ResultInv

\* Accepting the ruling: no case that an appeal, or a payer, keeps open is
\* closed by it, and every team that loses by it has accepted it.
LEMMA AcceptRulingKeeps ==
  ASSUME ResultInv, NEW p \in Members, AcceptRuling(p)
  PROVE  ResultInv'
<1> DEFINE o == ruling.outcome
           losers == RulingLosers(o)
           accepted == {q \in Members : HasSaid(q, "accept")} \union {p}
           waits == \/ PaidBy[p] \in losers \ accepted
                    \/ \E t \in Teams : /\ t \intersect losers # {}
                                        /\ t \intersect accepted = {}
           other == o = "NO_RESULT" /\ Appealed(Opponents(p))
<1>1. /\ kase.status = "appeal_window" /\ p \in losers
      /\ o = "NO_RESULT" => ~Appealed(TeamOf(p))
      /\ said' = said \union {<<p, "accept">>}
      /\ agreed' = agreed \union {<<p, o>>}
      /\ UNCHANGED <<proposal, claimants, exhibits, appeals, ruling, page>>
  BY DEF AcceptRuling, AppealOpen, papers
<1>2. \/ other /\ kase' = Review(kase) /\ UNCHANGED announced
      \/ kase' = kase /\ UNCHANGED announced
      \/ ~other /\ ~waits /\ kase' = Final(kase, o, "consent") /\ Announce(o)
  BY DEF AcceptRuling
<1>3. /\ kase \in CaseRow /\ "admin_review" \in Statuses
      /\ o = kase.outcome /\ o \in Outcomes /\ ruling.tier # 0
      /\ page.current = FALSE
      /\ page \in [who : Members \union {Nobody},
                   outcome : Outcomes \union {Undecided}, current : BOOLEAN]
  BY <1>1 DEF ResultInv, MatchResultsTypeOK, CaseRow, Statuses, RulingFits, PapersFit
<1> HIDE DEF waits, other, losers, accepted
<1>4. Review(kase) \in CaseRow /\ Review(kase).status = "admin_review"
  BY <1>3, EnterRow DEF Review
<1>5. /\ said' \subseteq Members \X Kinds
      /\ agreed' \subseteq Members \X Outcomes
  BY <1>1, <1>3 DEF ResultInv, MatchResultsTypeOK, Kinds
<1>6. \A q \in Members : <<q, "accept">> \in said' => <<q, o>> \in agreed'
  BY <1>1 DEF ResultInv, WordsFit, HasSaid
<1>7. CASE kase' \in CaseRow /\ UNCHANGED announced
           /\ (kase' = kase \/ kase'.status = "admin_review")
  <2>1. MatchResultsTypeOK'
    BY <1>1, <1>3, <1>5, <1>7 DEF ResultInv, MatchResultsTypeOK, CaseRow
  <2>2. PapersFit' /\ RulingFits'
    BY <1>1, <1>3, <1>7 DEF ResultInv, PapersFit, RulingFits, Ruled
  <2>3. WordsFit'
    BY <1>1, <1>6, <1>7 DEF ResultInv, WordsFit, HasSaid, Ruled
  <2>4. OneFinalResult' /\ HardCasesNeedTheAdmin' /\ EarlyFinalIsAgreed'
    BY <1>1, <1>7, OpenCase
  <2> QED
    BY <2>1, <2>2, <2>3, <2>4 DEF ResultInv
<1>8. CASE ~other /\ ~waits /\ kase' = Final(kase, o, "consent") /\ Announce(o)
  <2>1. /\ kase' \in CaseRow /\ kase'.status = "final"
        /\ kase'.outcome = o /\ kase'.by = "consent"
        /\ PapersFit' /\ OneFinalResult' /\ announced' \in Seq(Outcomes)
    BY <1>1, <1>3, <1>8, BecomesFinal DEF Closers
  <2>2. MatchResultsTypeOK'
    BY <1>1, <1>3, <1>5, <2>1 DEF ResultInv, MatchResultsTypeOK, CaseRow
  <2>3. RulingFits' /\ WordsFit'
    BY <1>1, <1>3, <1>6, <2>1 DEF ResultInv, RulingFits, WordsFit, HasSaid, Ruled
  <2>4. appeals = {}
    <3>1. o = "NO_RESULT" => ~Appealed(TeamOf(p)) /\ ~Appealed(Opponents(p))
      BY <1>1, <1>8 DEF other
    <3>2. o = "NO_RESULT" => \A q \in Members : q \notin appeals
      BY <3>1 DEF Appealed, TeamOf, Opponents, Members
    <3>3. appeals # {} => o = "NO_RESULT"
      BY <1>1 DEF ResultInv, RulingFits
    <3> QED
      BY <3>2, <3>3 DEF ResultInv, MatchResultsTypeOK
  <2>5. HardCasesNeedTheAdmin'
    <3>1. \A q \in Members : ~HasSaid(q, "incident")'
      BY <1>1 DEF ResultInv, WordsFit, HasSaid
    <3>2. ruling.tier = 1 /\ o \in Wins => o \in exhibits
      BY <1>1, <1>3 DEF ResultInv, RulingFits
    <3> QED
      BY <1>1, <1>3, <2>1, <2>4, <3>1, <3>2 DEF HardCasesNeedTheAdmin
  <2>6. EarlyFinalIsAgreed'
    <3>1. \A t \in Teams : t \intersect losers # {} => t \intersect accepted # {}
      BY <1>8 DEF waits
    <3>2. \A q \in accepted : <<q, o>> \in agreed'
      BY <1>1, <1>6 DEF accepted, HasSaid
    <3>3. \A t \in Teams : t \intersect losers # {} => \E q \in t : <<q, o>> \in agreed'
      BY <3>1, <3>2
    <3>4. ruling'.tier > 0
      BY <1>1, <1>3 DEF ResultInv, MatchResultsTypeOK
    <3>5. losers = RulingLosers(kase'.outcome)
      BY <2>1 DEF losers
    <3> QED
      BY <2>1, <3>3, <3>4, <3>5 DEF EarlyFinalIsAgreed
  <2> QED
    BY <2>1, <2>2, <2>3, <2>5, <2>6 DEF ResultInv
<1>9. \/ kase' \in CaseRow /\ UNCHANGED announced
         /\ (kase' = kase \/ kase'.status = "admin_review")
      \/ ~other /\ ~waits /\ kase' = Final(kase, o, "consent") /\ Announce(o)
  BY <1>2, <1>3, <1>4
<1> QED
  BY <1>7, <1>8, <1>9

-----------------------------------------------------------------------------
(* The administrator.                                                      *)

LEMMA AdminKeeps ==
  ASSUME ResultInv, NEW o \in Outcomes, DecideAdminResult(o)
  PROVE  ResultInv'
<1>1. /\ kase.status = "admin_review" /\ kase' = Final(kase, o, "admin") /\ Announce(o)
      /\ UNCHANGED <<proposal, claimants, exhibits, said, agreed, appeals, ruling, page>>
  BY DEF DecideAdminResult, papers, voices
<1>2. /\ kase \in CaseRow /\ page.current = FALSE
      /\ page \in [who : Members \union {Nobody},
                   outcome : Outcomes \union {Undecided}, current : BOOLEAN]
  BY <1>1 DEF ResultInv, MatchResultsTypeOK, CaseRow, PapersFit
<1>3. /\ kase' \in CaseRow /\ kase'.status = "final"
      /\ kase'.outcome = o /\ kase'.by = "admin"
      /\ PapersFit' /\ OneFinalResult' /\ announced' \in Seq(Outcomes)
  BY <1>1, <1>2, BecomesFinal DEF Closers
<1>4. MatchResultsTypeOK'
  BY <1>1, <1>3 DEF ResultInv, MatchResultsTypeOK, CaseRow
<1>5. RulingFits' /\ WordsFit'
  BY <1>1, <1>3 DEF ResultInv, RulingFits, WordsFit, HasSaid, Ruled
<1>6. HardCasesNeedTheAdmin' /\ EarlyFinalIsAgreed'
  BY <1>3 DEF HardCasesNeedTheAdmin, EarlyFinalIsAgreed
<1> QED
  BY <1>3, <1>4, <1>5, <1>6 DEF ResultInv

-----------------------------------------------------------------------------
(* Proposals, answers and reports: while there is no ruling, nobody has    *)
(* appealed, accepted a ruling or reported an incident.                    *)

Unruled == {"not_open", "declaration_open", "proposed", "evidence_window",
            "incident_window", "provisional"}

WellTypedPapers ==
  /\ proposal \in [by : Members \union {Nobody}, photos : Photos]
  /\ claimants \subseteq Members /\ exhibits \subseteq Outcomes
  /\ said \subseteq Members \X Kinds /\ agreed \subseteq Members \X Outcomes
  /\ page \in [who : Members \union {Nobody},
               outcome : Outcomes \union {Undecided}, current : BOOLEAN]

LEMMA BeforeARuling ==
  ASSUME ResultInv, kase.status \in Unruled
  PROVE  /\ WellTypedPapers /\ kase \in CaseRow
         /\ kase.status # "final"
         /\ ruling.tier = 0 /\ appeals = {}
         /\ \A q \in Members : ~HasSaid(q, "accept") /\ ~HasSaid(q, "incident")
BY DEF ResultInv, Unruled, MatchResultsTypeOK, WellTypedPapers, CaseRow,
       RulingFits, WordsFit, Ruled

\* A step before a ruling that leaves the case open.
LEMMA OpenStep ==
  ASSUME ResultInv, kase.status \in Unruled,
         kase' \in CaseRow, WellTypedPapers',
         kase'.status \in {"proposed", "evidence_window", "admin_review",
                          "provider_review", "provisional"},
         kase'.status \in {"proposed", "provisional"} => kase'.outcome \in Outcomes,
         kase'.status = "provisional" => proposal'.photos = "valid",
         page'.current = TRUE => kase'.status = "proposed" /\ page'.outcome = kase'.outcome,
         \A q \in Members : <<q, "accept">> \notin said',
         \A q \in Members : <<q, "incident">> \in said'
                              => kase'.status \in {"provider_review", "admin_review"},
         UNCHANGED <<appeals, ruling, announced>>
  PROVE  ResultInv'
<1>1. ruling.tier = 0 /\ appeals = {} /\ kase.status # "final"
  BY BeforeARuling
<1>2. MatchResultsTypeOK'
  BY DEF ResultInv, MatchResultsTypeOK, CaseRow, WellTypedPapers
<1>3. PapersFit' /\ RulingFits'
  BY <1>1 DEF PapersFit, RulingFits
<1>4. WordsFit'
  BY DEF WordsFit, HasSaid
<1>5. OneFinalResult' /\ HardCasesNeedTheAdmin' /\ EarlyFinalIsAgreed'
  BY <1>1, OpenCase
<1> QED
  BY <1>2, <1>3, <1>4, <1>5 DEF ResultInv

\* A step before a ruling that closes the case by the consent of a loser.
LEMMA ConsentStep ==
  ASSUME ResultInv, kase.status \in Unruled,
         NEW p \in Members, NEW k \in CaseRow, k.outcome \in Outcomes,
         kase' = Final(k, k.outcome, "consent"), Announce(k.outcome),
         WellTypedPapers', page'.current = FALSE,
         ~Red(proposal'.photos),
         p \in LosersOf(k.outcome, proposal'.by), <<p, k.outcome>> \in agreed',
         \A q \in Members : /\ <<q, "accept">> \notin said'
                            /\ <<q, "incident">> \notin said',
         UNCHANGED <<appeals, ruling>>
  PROVE  ResultInv'
<1> DEFINE o == k.outcome
           losers == LosersOf(o, proposal'.by)
<1>1. ruling.tier = 0 /\ appeals = {} /\ kase.status # "final"
  BY BeforeARuling
<1>2. /\ kase' = Final(k, o, "consent") /\ Announce(o) /\ o \in Outcomes
      /\ p \in losers /\ <<p, o>> \in agreed'
  OBVIOUS
<1>3. losers \in Teams /\ \A t \in Teams : t \intersect losers # {} => t = losers
  BY LosersAreATeam
<1>4. losers = LosersOf(o, proposal.by)'
  OBVIOUS
<1> HIDE DEF o, losers
<1>5. /\ kase' \in CaseRow /\ kase'.status = "final"
      /\ kase'.outcome = o /\ kase'.by = "consent"
      /\ PapersFit' /\ OneFinalResult' /\ announced' \in Seq(Outcomes)
  BY <1>1, <1>2, BecomesFinal DEF Closers, WellTypedPapers
<1>6. MatchResultsTypeOK'
  BY <1>5 DEF ResultInv, MatchResultsTypeOK, CaseRow, WellTypedPapers
<1>7. RulingFits' /\ WordsFit'
  BY <1>1, <1>5 DEF RulingFits, WordsFit, HasSaid
<1>8. HardCasesNeedTheAdmin'
  <2>1. ruling'.tier # 1 /\ appeals' = {}
    BY <1>1
  <2>2. ~Red(proposal.photos)'
    BY DEF Red
  <2>3. \A q \in Members : ~HasSaid(q, "incident")'
    BY DEF HasSaid
  <2> QED
    BY <2>1, <2>2, <2>3 DEF HardCasesNeedTheAdmin
<1>9. EarlyFinalIsAgreed'
  <2>1. losers = LosersOf(kase.outcome, proposal.by)'
    BY <1>4, <1>5 DEF o
  <2>2. \A t \in Teams : t \intersect losers # {} => \E q \in t : <<q, o>> \in agreed'
    BY <1>2, <1>3
  <2>3. ~(ruling'.tier > 0)
    BY <1>1
  <2> QED
    BY <1>5, <2>1, <2>2, <2>3 DEF EarlyFinalIsAgreed
<1> QED
  BY <1>5, <1>6, <1>7, <1>8, <1>9 DEF ResultInv

\* acceptByLosingTeam, by whichever way a loser comes to accept.
LEMMA AcceptStep ==
  ASSUME ResultInv, kase.status \in Unruled,
         NEW p \in Members, NEW k \in CaseRow, NEW claiming,
         k.status = "proposed", k.outcome \in Outcomes,
         AcceptByLosingTeam(p, k, proposal'.by, proposal'.photos, claiming),
         WellTypedPapers',
         page'.current = TRUE => kase' = k /\ page'.outcome = k.outcome,
         p \in LosersOf(k.outcome, proposal'.by), <<p, k.outcome>> \in agreed',
         \A q \in Members : /\ <<q, "accept">> \notin said'
                            /\ <<q, "incident">> \notin said',
         UNCHANGED <<appeals, ruling>>
  PROVE  ResultInv'
<1>1. "admin_review" \in Statuses
  BY DEF Statuses
<1>2. Review(k) \in CaseRow /\ Review(k).status = "admin_review"
  BY <1>1, EnterRow DEF Review
<1>3. \/ kase' = Review(k) /\ UNCHANGED announced
      \/ kase' = k /\ UNCHANGED announced
      \/ /\ ~Red(proposal'.photos) /\ kase' = Final(k, k.outcome, "consent")
         /\ Announce(k.outcome)
  BY DEF AcceptByLosingTeam
<1>4. CASE kase' = Review(k) /\ UNCHANGED announced
  <2>1. k.status # "admin_review"
    OBVIOUS
  <2>2. kase' # k
    BY <1>2, <1>4, <2>1
  <2> QED
    BY <1>2, <1>4, <2>2, OpenStep
<1>5. CASE kase' = k /\ UNCHANGED announced
  BY <1>5, OpenStep
<1>6. CASE /\ ~Red(proposal'.photos) /\ kase' = Final(k, k.outcome, "consent")
           /\ Announce(k.outcome)
  <2>1. Final(k, k.outcome, "consent").status = "final"
    BY FinalRow DEF Closers
  <2>2. kase' # k
    BY <1>6, <2>1
  <2>3. page'.current = FALSE
    BY <2>2 DEF WellTypedPapers
  <2> QED
    BY <1>6, <2>3, ConsentStep
<1> QED
  BY <1>3, <1>4, <1>5, <1>6

\* propose: the first claim, or the one that replaces it unanswered.
LEMMA ProposeKeeps ==
  ASSUME ResultInv, kase.status \in {"declaration_open", "proposed"},
         NEW p \in Members, NEW c \in Claims, Propose(p, c)
  PROVE  ResultInv'
<1> DEFINE o == c.outcome
           e == Enter(kase, "proposed")
           k == [e EXCEPT !.outcome = o]
<1>1. /\ proposal' = [by |-> p, photos |-> c.photos]
      /\ claimants' = {p} /\ exhibits' = Evidence(c)
      /\ UNCHANGED <<said, appeals, ruling>> /\ Outdates(Nobody)
  BY DEF Propose
<1>2. \/ /\ p \in LosersOf(o, p) /\ agreed' = agreed \union {<<p, o>>}
         /\ AcceptByLosingTeam(p, k, p, c.photos, {p})
      \/ kase' = k /\ UNCHANGED <<agreed, announced>>
  BY DEF Propose
<1>3. kase.status \in Unruled
  BY DEF Unruled
<1>4. /\ WellTypedPapers /\ kase \in CaseRow
      /\ \A q \in Members : ~HasSaid(q, "accept") /\ ~HasSaid(q, "incident")
  BY <1>3, BeforeARuling
<1>5. o \in Outcomes /\ c.photos \in Photos /\ Evidence(c) \subseteq Outcomes
  BY DEF Claims, Evidence
<1>6. e \in CaseRow /\ e.status = "proposed"
  BY <1>4, EnterRow DEF Statuses, Timed
<1> HIDE DEF e
<1>7. k \in CaseRow /\ k.status = "proposed" /\ k.outcome = o
  BY <1>5, <1>6, OutcomeRow
<1> HIDE DEF k, o
<1>8. /\ page' \in [who : Members \union {Nobody},
                    outcome : Outcomes \union {Undecided}, current : BOOLEAN]
      /\ page'.current = FALSE
  BY <1>1, OutdatedPage
<1>9. proposal'.by = p /\ proposal'.photos = c.photos
  BY <1>1
<1>10. agreed' \subseteq Members \X Outcomes
  BY <1>2, <1>4, <1>5 DEF WellTypedPapers
<1>11. WellTypedPapers'
  BY <1>1, <1>4, <1>5, <1>8, <1>10 DEF WellTypedPapers
<1>12. \A q \in Members : <<q, "accept">> \notin said' /\ <<q, "incident">> \notin said'
  BY <1>1, <1>4 DEF HasSaid
<1>13. CASE /\ p \in LosersOf(o, p) /\ agreed' = agreed \union {<<p, o>>}
            /\ AcceptByLosingTeam(p, k, p, c.photos, {p})
  <2>1. <<p, k.outcome>> \in agreed' /\ p \in LosersOf(k.outcome, proposal'.by)
    BY <1>7, <1>9, <1>13
  <2>2. AcceptByLosingTeam(p, k, proposal'.by, proposal'.photos, {p})
    BY <1>9, <1>13
  <2>3. UNCHANGED <<appeals, ruling>> /\ k.outcome \in Outcomes
    BY <1>1, <1>5, <1>7
  <2> QED
    BY <1>3, <1>7, <1>8, <1>11, <1>12, <2>1, <2>2, <2>3, AcceptStep
<1>14. CASE kase' = k /\ UNCHANGED <<agreed, announced>>
  BY <1>1, <1>3, <1>5, <1>7, <1>8, <1>11, <1>12, <1>14, OpenStep
<1> QED
  BY <1>2, <1>13, <1>14

\* A claim that answers the proposal.
LEMMA AnswerByClaimKeeps ==
  ASSUME ResultInv, NEW p \in Members, NEW c \in Claims, AnswerByClaim(p, c)
  PROVE  ResultInv'
<1> DEFINE o == c.outcome
<1>1. /\ kase.status = "proposed"
      /\ claimants' = claimants \union {p}
      /\ exhibits' = exhibits \union Evidence(c)
      /\ UNCHANGED <<proposal, said, appeals, ruling>>
      /\ IF kase' = kase /\ Loses(p) THEN UNCHANGED page ELSE Outdates(Nobody)
  BY DEF AnswerByClaim, ResponseOpen
<1>2. \/ kase' = Dispute(kase) /\ UNCHANGED <<agreed, announced>>
      \/ /\ o = kase.outcome /\ Loses(p) /\ agreed' = agreed \union {<<p, o>>}
         /\ AcceptByLosingTeam(p, kase, proposal.by, proposal.photos, claimants')
      \/ UNCHANGED <<kase, agreed, announced>>
  BY DEF AnswerByClaim
<1>3. kase.status \in Unruled
  BY <1>1 DEF Unruled
<1>4. /\ WellTypedPapers /\ kase \in CaseRow
      /\ \A q \in Members : ~HasSaid(q, "accept") /\ ~HasSaid(q, "incident")
  BY <1>3, BeforeARuling
<1>5. o \in Outcomes /\ Evidence(c) \subseteq Outcomes /\ kase.outcome \in Outcomes
  BY <1>1 DEF Claims, Evidence, ResultInv, PapersFit
<1> HIDE DEF o
<1>6. /\ page' \in [who : Members \union {Nobody},
                    outcome : Outcomes \union {Undecided}, current : BOOLEAN]
      /\ page'.current = TRUE => kase' = kase /\ page' = page
  BY <1>1, <1>4, OutdatedPage DEF WellTypedPapers
<1>7. page'.current = TRUE => page'.outcome = kase.outcome
  BY <1>6 DEF ResultInv, PapersFit
<1>8. agreed' \subseteq Members \X Outcomes
  BY <1>2, <1>4, <1>5 DEF WellTypedPapers
<1>9. WellTypedPapers'
  BY <1>1, <1>4, <1>5, <1>6, <1>8 DEF WellTypedPapers
<1>10. \A q \in Members : <<q, "accept">> \notin said' /\ <<q, "incident">> \notin said'
  BY <1>1, <1>4 DEF HasSaid
<1>11. UNCHANGED <<appeals, ruling>>
  BY <1>1
<1>12. CASE kase' = Dispute(kase) /\ UNCHANGED <<agreed, announced>>
  <2>1. Dispute(kase) \in CaseRow /\ Dispute(kase).status = "evidence_window"
    BY <1>4, EnterRow DEF Dispute, Statuses, Timed
  <2>2. page'.current = FALSE
    BY <1>1, <1>6, <1>9, <1>12, <2>1 DEF WellTypedPapers
  <2> QED
    BY <1>3, <1>9, <1>10, <1>11, <1>12, <2>1, <2>2, OpenStep
<1>13. CASE /\ o = kase.outcome /\ Loses(p) /\ agreed' = agreed \union {<<p, o>>}
            /\ AcceptByLosingTeam(p, kase, proposal.by, proposal.photos, claimants')
  <2>1. /\ <<p, kase.outcome>> \in agreed'
        /\ p \in LosersOf(kase.outcome, proposal'.by)
        /\ AcceptByLosingTeam(p, kase, proposal'.by, proposal'.photos, claimants')
    BY <1>1, <1>13 DEF Loses
  <2> QED
    BY <1>1, <1>3, <1>4, <1>5, <1>6, <1>7, <1>9, <1>10, <1>11, <2>1, AcceptStep
<1>14. CASE UNCHANGED <<kase, agreed, announced>>
  BY <1>1, <1>3, <1>4, <1>5, <1>7, <1>9, <1>10, <1>11, <1>14, OpenStep
<1> QED
  BY <1>2, <1>12, <1>13, <1>14

\* A confirmation on the page: the version of the page makes the outcome that
\* was confirmed the outcome that becomes final.
LEMMA ConfirmKeeps ==
  ASSUME ResultInv, NEW p \in Members, Confirm(p)
  PROVE  ResultInv'
<1>1. /\ kase.status = "proposed" /\ page.current = TRUE /\ Loses(p)
      /\ said' = said \union {<<p, "confirm">>}
      /\ agreed' = agreed \union {<<p, page.outcome>>}
      /\ AcceptByLosingTeam(p, kase, proposal.by, proposal.photos, claimants)
      /\ Outdates(p)
      /\ UNCHANGED <<proposal, claimants, exhibits, appeals, ruling>>
  BY DEF Confirm, Answers, ResponseOpen, papers, ResultInv, MatchResultsTypeOK
<1>2. kase.status \in Unruled
  BY <1>1 DEF Unruled
<1>3. /\ WellTypedPapers /\ kase \in CaseRow
      /\ \A q \in Members : ~HasSaid(q, "accept") /\ ~HasSaid(q, "incident")
  BY <1>2, BeforeARuling
<1>4. page.outcome = kase.outcome /\ kase.outcome \in Outcomes
  BY <1>1 DEF ResultInv, PapersFit
<1>5. /\ page' \in [who : Members \union {Nobody},
                    outcome : Outcomes \union {Undecided}, current : BOOLEAN]
      /\ page'.current = FALSE
  BY <1>1, OutdatedPage
<1>6. WellTypedPapers'
  BY <1>1, <1>3, <1>4, <1>5 DEF WellTypedPapers, Kinds
<1>7. \A q \in Members : <<q, "accept">> \notin said' /\ <<q, "incident">> \notin said'
  BY <1>1, <1>3 DEF HasSaid
<1>8. /\ <<p, kase.outcome>> \in agreed'
      /\ p \in LosersOf(kase.outcome, proposal'.by)
      /\ AcceptByLosingTeam(p, kase, proposal'.by, proposal'.photos, claimants)
      /\ UNCHANGED <<appeals, ruling>>
  BY <1>1, <1>4 DEF Loses
<1> QED
  BY <1>1, <1>2, <1>3, <1>4, <1>5, <1>6, <1>7, <1>8, AcceptStep

\* Objecting to the score opens the evidence window.
LEMMA ObjectKeeps ==
  ASSUME ResultInv, NEW p, NEW supports \in SUBSET Outcomes, Object(p, supports)
  PROVE  ResultInv'
<1>1. /\ kase.status = "proposed" /\ kase' = Dispute(kase)
      /\ exhibits' = exhibits \union supports /\ Outdates(p)
      /\ UNCHANGED <<proposal, claimants, said, agreed, appeals, ruling, announced>>
  BY DEF Object, Answers, ResponseOpen, voices
<1>2. kase.status \in Unruled
  BY <1>1 DEF Unruled
<1>3. /\ WellTypedPapers /\ kase \in CaseRow
      /\ \A q \in Members : ~HasSaid(q, "accept") /\ ~HasSaid(q, "incident")
  BY <1>2, BeforeARuling
<1>4. Dispute(kase) \in CaseRow /\ Dispute(kase).status = "evidence_window"
  BY <1>3, EnterRow DEF Dispute, Statuses, Timed
<1>5. /\ page' \in [who : Members \union {Nobody},
                    outcome : Outcomes \union {Undecided}, current : BOOLEAN]
      /\ page'.current = FALSE
  BY <1>1, OutdatedPage
<1>6. WellTypedPapers'
  BY <1>1, <1>3, <1>5 DEF WellTypedPapers
<1>7. \A q \in Members : <<q, "accept">> \notin said' /\ <<q, "incident">> \notin said'
  BY <1>1, <1>3 DEF HasSaid
<1> QED
  BY <1>1, <1>2, <1>4, <1>5, <1>6, <1>7, OpenStep

\* A reported incident voids the proposal.
LEMMA IncidentKeeps ==
  ASSUME ResultInv, NEW p \in Members, EnterIncident(p), kase.status \in Unruled
  PROVE  ResultInv'
<1> DEFINE k == [Review(kase) EXCEPT !.outcome = Undecided]
<1>1. /\ kase' = k /\ said' = said \union {<<p, "incident">>} /\ Outdates(p)
      /\ UNCHANGED <<proposal, claimants, exhibits, agreed, appeals, ruling, announced>>
  BY DEF EnterIncident, papers
<1>2. /\ WellTypedPapers /\ kase \in CaseRow
      /\ \A q \in Members : ~HasSaid(q, "accept") /\ ~HasSaid(q, "incident")
  BY BeforeARuling
<1>3. Review(kase) \in CaseRow /\ Review(kase).status = "admin_review"
  BY <1>2, EnterRow DEF Review, Statuses
<1>4. k \in CaseRow /\ k.status = "admin_review"
  BY <1>3, OutcomeRow
<1> HIDE DEF k
<1>5. /\ page' \in [who : Members \union {Nobody},
                    outcome : Outcomes \union {Undecided}, current : BOOLEAN]
      /\ page'.current = FALSE
  BY <1>1, OutdatedPage
<1>6. WellTypedPapers'
  BY <1>1, <1>2, <1>5 DEF WellTypedPapers, Kinds
<1>7. \A q \in Members : <<q, "accept">> \notin said'
  BY <1>1, <1>2 DEF HasSaid
<1> QED
  BY <1>1, <1>4, <1>5, <1>6, <1>7, OpenStep

\* Loading a page shows the outcome of the proposal; leaving it shows nothing.
LEMMA PageKeeps ==
  ASSUME ResultInv, (\E p \in Members : LoadPage(p)) \/ LeavePage
  PROVE  ResultInv'
<1>1. UNCHANGED <<kase, proposal, claimants, exhibits, said, agreed, appeals, ruling, announced>>
  BY DEF LoadPage, LeavePage, papers, voices
<1>2. /\ page' \in [who : Members \union {Nobody},
                    outcome : Outcomes \union {Undecided}, current : BOOLEAN]
      /\ page'.current = TRUE => kase.status = "proposed" /\ page'.outcome = kase.outcome
  <2>1. CASE LeavePage
    BY <2>1 DEF LeavePage, NoPage
  <2>2. CASE \E p \in Members : LoadPage(p)
    <3>1. PICK p \in Members : /\ kase.status = "proposed"
                              /\ page' = [who |-> p, outcome |-> kase.outcome, current |-> TRUE]
      BY <2>2 DEF LoadPage
    <3>2. kase.outcome \in Outcomes
      BY <3>1 DEF ResultInv, PapersFit
    <3> QED
      BY <3>1, <3>2
  <2> QED
    BY <2>1, <2>2
<1>3. MatchResultsTypeOK'
  BY <1>1, <1>2 DEF ResultInv, MatchResultsTypeOK
<1>4. PapersFit' /\ RulingFits' /\ WordsFit'
  BY <1>1, <1>2 DEF ResultInv, PapersFit, RulingFits, WordsFit, HasSaid
<1>5. OneFinalResult' /\ HardCasesNeedTheAdmin' /\ EarlyFinalIsAgreed'
  BY <1>1 DEF ResultInv, OneFinalResult, HardCasesNeedTheAdmin, EarlyFinalIsAgreed, HasSaid
<1> QED
  BY <1>3, <1>4, <1>5 DEF ResultInv

-----------------------------------------------------------------------------
(* The first rules.                                                        *)

LEMMA LegacyClaimKeeps ==
  ASSUME ResultInv, NEW o \in Wins, LegacyClaim(o)
  PROVE  ResultInv'
<1> DEFINE e == Enter(kase, "provisional")
           k == [e EXCEPT !.outcome = o]
<1>1. /\ kase.status = "declaration_open" /\ kase' = k
      /\ proposal' = [by |-> Organizer, photos |-> "valid"]
      /\ claimants' = {Organizer}
      /\ UNCHANGED <<exhibits, said, agreed, appeals, ruling, page, announced>>
  BY DEF LegacyClaim, voices
<1>2. kase.status \in Unruled
  BY <1>1 DEF Unruled
<1>3. /\ WellTypedPapers /\ kase \in CaseRow
      /\ \A q \in Members : ~HasSaid(q, "accept") /\ ~HasSaid(q, "incident")
  BY <1>2, BeforeARuling
<1>4. o \in Outcomes
  BY DEF Outcomes
<1>5. e \in CaseRow /\ e.status = "provisional"
  BY <1>3, EnterRow DEF Statuses, Timed
<1> HIDE DEF e
<1>6. k \in CaseRow /\ k.status = "provisional" /\ k.outcome = o
  BY <1>4, <1>5, OutcomeRow
<1> HIDE DEF k
<1>7. page.current = FALSE
  BY <1>1, <1>3 DEF ResultInv, PapersFit, WellTypedPapers
<1>8. WellTypedPapers'
  BY <1>1, <1>3, MatchResultsAssumption DEF WellTypedPapers, Members, Photos
<1>9. \A q \in Members : <<q, "accept">> \notin said' /\ <<q, "incident">> \notin said'
  BY <1>1, <1>3 DEF HasSaid
<1>10. proposal'.photos = "valid" /\ page'.current = FALSE
  BY <1>1, <1>7
<1> QED
  BY <1>1, <1>2, <1>4, <1>6, <1>8, <1>9, <1>10, OpenStep

LEMMA LegacyConfirmKeeps ==
  ASSUME ResultInv, NEW p \in Members, LegacyConfirm(p)
  PROVE  ResultInv'
<1> DEFINE o == kase.outcome
<1>1. /\ kase.status = "provisional" /\ Loses(p)
      /\ said' = said \union {<<p, "confirm">>}
      /\ agreed' = agreed \union {<<p, o>>}
      /\ UNCHANGED <<proposal, claimants, exhibits, appeals, ruling, page>>
      /\ \/ kase' = Final(kase, o, "consent") /\ Announce(o)
         \/ UNCHANGED <<kase, announced>>
  BY DEF LegacyConfirm, papers
<1>2. kase.status \in Unruled
  BY <1>1 DEF Unruled
<1>3. /\ WellTypedPapers /\ kase \in CaseRow
      /\ \A q \in Members : ~HasSaid(q, "accept") /\ ~HasSaid(q, "incident")
  BY <1>2, BeforeARuling
<1>4. o \in Outcomes /\ proposal'.photos = "valid" /\ page'.current = FALSE
  BY <1>1, <1>3 DEF ResultInv, PapersFit, WellTypedPapers
<1>5. WellTypedPapers'
  BY <1>1, <1>3, <1>4 DEF WellTypedPapers, Kinds
<1>6. \A q \in Members : <<q, "accept">> \notin said' /\ <<q, "incident">> \notin said'
  BY <1>1, <1>3 DEF HasSaid
<1>7. CASE kase' = Final(kase, o, "consent") /\ Announce(o)
  <2>1. ~Red(proposal'.photos) /\ p \in LosersOf(kase.outcome, proposal'.by)
    BY <1>1, <1>4 DEF Loses, Red
  <2> QED
    BY <1>1, <1>2, <1>3, <1>4, <1>5, <1>6, <1>7, <2>1, ConsentStep
<1>8. CASE UNCHANGED <<kase, announced>>
  BY <1>1, <1>2, <1>3, <1>4, <1>5, <1>6, <1>8, OpenStep
<1> QED
  BY <1>1, <1>7, <1>8

\* An objection or an incident of the first rules.
LEMMA LegacyDisputeKeeps ==
  ASSUME ResultInv, NEW p \in Members, NEW next \in {"provider_review", "admin_review"},
         kase.status \in {"declaration_open", "provisional", "incident_window"},
         LegacyDispute(next), said' = said \/ said' = said \union {<<p, "incident">>}
  PROVE  ResultInv'
<1> DEFINE e == Enter(kase, next)
           k == [e EXCEPT !.outcome = Undecided]
<1>1. /\ kase' = k
      /\ UNCHANGED <<proposal, claimants, exhibits, agreed, appeals, ruling, page, announced>>
  BY DEF LegacyDispute, papers
<1>2. kase.status \in Unruled
  BY DEF Unruled
<1>3. /\ WellTypedPapers /\ kase \in CaseRow
      /\ \A q \in Members : ~HasSaid(q, "accept") /\ ~HasSaid(q, "incident")
  BY <1>2, BeforeARuling
<1>4. e \in CaseRow /\ e.status = next
  BY <1>3, EnterRow DEF Statuses, Timed
<1> HIDE DEF e
<1>5. k \in CaseRow /\ k.status = next
  BY <1>4, OutcomeRow
<1> HIDE DEF k
<1>6. page.current = FALSE
  BY <1>3 DEF ResultInv, PapersFit, WellTypedPapers
<1>7. WellTypedPapers'
  BY <1>1, <1>3 DEF WellTypedPapers, Kinds
<1>8. \A q \in Members : <<q, "accept">> \notin said'
  <2>1. CASE said' = said
    BY <1>3, <2>1 DEF HasSaid
  <2>2. CASE said' = said \union {<<p, "incident">>}
    BY <1>3, <2>2 DEF HasSaid
  <2> QED
    BY <2>1, <2>2
<1> QED
  BY <1>1, <1>2, <1>5, <1>6, <1>7, <1>8, OpenStep

-----------------------------------------------------------------------------
(* The theorems.                                                           *)

LEMMA PlayerKeeps ==
  ASSUME ResultInv, NEW p \in Members, PlayerActs(p)
  PROVE  ResultInv'
<1>1. CASE LoadPage(p)
  BY <1>1, PageKeeps
<1>2. CASE Confirm(p)
  BY <1>2, ConfirmKeeps
<1>3. CASE ObjectNoMatch(p)
  <2>1. EnterIncident(p) /\ kase.status \in Unruled
    BY <1>3 DEF ObjectNoMatch, Answers, ResponseOpen, Unruled
  <2> QED
    BY <2>1, IncidentKeeps
<1>4. CASE ReportIncident(p)
  <2>1. EnterIncident(p) /\ kase.status \in Unruled
    BY <1>4 DEF ReportIncident, Unruled
  <2> QED
    BY <2>1, IncidentKeeps
<1>5. CASE MarkEvidenceDone(p)
  BY <1>5, EvidenceDoneKeeps
<1>6. CASE SubmitAppeal(p)
  BY <1>6, AppealKeeps
<1>7. CASE AcceptRuling(p)
  BY <1>7, AcceptRulingKeeps
<1>8. CASE LegacyConfirm(p)
  BY <1>8, LegacyConfirmKeeps
<1>9. ASSUME NEW c \in Claims, FirstClaim(p, c) \/ ReplaceClaim(p, c)
      PROVE  ResultInv'
  <2>1. Propose(p, c) /\ kase.status \in {"declaration_open", "proposed"}
    BY <1>9 DEF FirstClaim, ReplaceClaim
  <2> QED
    BY <2>1, ProposeKeeps
<1>10. ASSUME NEW c \in Claims, AnswerByClaim(p, c)
       PROVE  ResultInv'
  BY <1>10, AnswerByClaimKeeps
<1>11. ASSUME NEW supports \in {{}} \union {{o} : o \in Outcomes}, Object(p, supports)
       PROVE  ResultInv'
  <2>1. supports \in SUBSET Outcomes
    OBVIOUS
  <2> QED
    BY <1>11, <2>1, ObjectKeeps
<1>12. ASSUME NEW o \in Outcomes, SubmitDisputeEvidence(p, o)
       PROVE  ResultInv'
  BY <1>12, EvidenceKeeps
<1>13. ASSUME NEW next \in {"provider_review", "admin_review"},
              LegacyObject(p, next) \/ LegacyIncident(p, next)
       PROVE  ResultInv'
  <2>1. /\ kase.status \in {"declaration_open", "provisional", "incident_window"}
        /\ LegacyDispute(next)
        /\ said' = said \/ said' = said \union {<<p, "incident">>}
    BY <1>13 DEF LegacyObject, LegacyIncident
  <2> QED
    BY <2>1, LegacyDisputeKeeps
<1> QED
  BY <1>1, <1>2, <1>3, <1>4, <1>5, <1>6, <1>7, <1>8, <1>9, <1>10, <1>11, <1>12, <1>13
     DEF PlayerActs

LEMMA ResultInitially == MatchResultsInit => ResultInv
<1> SUFFICES ASSUME MatchResultsInit PROVE ResultInv
  OBVIOUS
<1>1. /\ kase \in CaseRow /\ kase.status \in {"declaration_open", "not_open"}
      /\ proposal = [by |-> Nobody, photos |-> "valid"]
      /\ claimants = {} /\ exhibits = {} /\ said = {} /\ agreed = {} /\ appeals = {}
      /\ ruling = [tier |-> 0, outcome |-> Undecided]
      /\ page = [who |-> Nobody, outcome |-> Undecided, current |-> FALSE]
      /\ announced = << >>
  BY DEF MatchResultsInit, CaseRow, Statuses, Timed, NoPage
<1>2. MatchResultsTypeOK
  BY <1>1 DEF MatchResultsTypeOK, CaseRow, Photos
<1>3. PapersFit /\ RulingFits
  BY <1>1 DEF PapersFit, RulingFits
<1>4. WordsFit
  BY <1>1 DEF WordsFit, HasSaid
<1>5. OneFinalResult /\ HardCasesNeedTheAdmin /\ EarlyFinalIsAgreed
  BY <1>1 DEF OneFinalResult, HardCasesNeedTheAdmin, EarlyFinalIsAgreed
<1> QED
  BY <1>2, <1>3, <1>4, <1>5 DEF ResultInv

LEMMA ResultStep == ResultInv /\ [MatchResultsNext]_resultVars => ResultInv'
<1> SUFFICES ASSUME ResultInv, [MatchResultsNext]_resultVars PROVE ResultInv'
  OBVIOUS
<1>1. CASE UNCHANGED resultVars
  <2>1. UNCHANGED <<kase, proposal, claimants, exhibits, said, agreed, appeals,
                    ruling, page, announced>>
    BY <1>1 DEF resultVars, papers, voices
  <2>2. MatchResultsTypeOK' /\ PapersFit' /\ RulingFits' /\ WordsFit'
    BY <2>1 DEF ResultInv, MatchResultsTypeOK, PapersFit, RulingFits, WordsFit, HasSaid
  <2>3. OneFinalResult' /\ HardCasesNeedTheAdmin' /\ EarlyFinalIsAgreed'
    BY <2>1 DEF ResultInv, OneFinalResult, HardCasesNeedTheAdmin, EarlyFinalIsAgreed, HasSaid
  <2> QED
    BY <2>2, <2>3 DEF ResultInv
<1>2. CASE OpenResultCase \/ Clock \/ Sweepers \/ LeavePage
  BY <1>2, OpenKeeps, ClockKeeps, SweepersKeep, PageKeeps
<1>3. CASE \E p \in Members : PlayerActs(p)
  BY <1>3, PlayerKeeps
<1>4. CASE \E o \in Wins : LegacyClaim(o)
  BY <1>4, LegacyClaimKeeps
<1>5. CASE ProviderRecommends
  BY <1>5, ReviewKeeps DEF ProviderRecommends
<1>6. CASE \E o \in Outcomes : DecideAdminResult(o)
  BY <1>6, AdminKeeps
<1> QED
  BY <1>1, <1>2, <1>3, <1>4, <1>5, <1>6 DEF MatchResultsNext

\* The papers, rulings, appeals and consents of a case fit its status, in any
\* sequence of presses, sweeps and decisions.
THEOREM ResultsCorrect == MatchResultsSpec => []ResultInv
<1>1. MatchResultsInit => ResultInv
  BY ResultInitially
<1>2. ResultInv /\ [MatchResultsNext]_resultVars => ResultInv'
  BY ResultStep
<1> QED
  BY <1>1, <1>2, PTL DEF MatchResultsSpec

\* The result of a match is announced once and never changed, for any teams.
THEOREM OneResultPerMatch == MatchResultsSpec => []OneFinalResult
<1>1. ResultInv => OneFinalResult
  BY DEF ResultInv
<1> QED
  BY <1>1, ResultsCorrect, PTL

\* A case with an incident, an appeal or a foreign photo is closed by nobody
\* but the administrator, and a ruling by rule names a winner that is shown.
THEOREM HardCasesAreDecided == MatchResultsSpec => []HardCasesNeedTheAdmin
<1>1. ResultInv => HardCasesNeedTheAdmin
  BY DEF ResultInv
<1> QED
  BY <1>1, ResultsCorrect, PTL

\* A case that closes before its deadline was agreed to by every team that
\* loses by it, whoever paid for whom and whatever page they pressed on.
THEOREM LosersHaveAgreed == MatchResultsSpec => []EarlyFinalIsAgreed
<1>1. ResultInv => EarlyFinalIsAgreed
  BY DEF ResultInv
<1> QED
  BY <1>1, ResultsCorrect, PTL

-----------------------------------------------------------------------------
(* What is rated, and the claims of the prizes.                            *)

\* A verdict that is being written has read its clock, and the rows of the
\* encounters are what the table holds.
RatingInv ==
  /\ hour \in Hours
  /\ \A f \in Fixtures : verdict[f].status # "open" => verdict[f].at \in Hours
  /\ verdict \in [Fixtures -> [status : {"open", "closing", "final"},
                              outcome : Results, at : Hours \union {NoTime}]]
  /\ encounters \subseteq Encounter
  /\ RatedFarApart

LEMMA ReserveKeeps ==
  ASSUME RatingInv, NEW f \in Fixtures, ReserveRatedResults(f)
  PROVE  RatingInv'
<1> DEFINE at == verdict[f].at
           row(u) == [fixture |-> f, user |-> u, rated |-> IsRated(f, u, at),
                      opponents |-> OpponentsIn(f, u), at |-> at]
           rows == {row(u) : u \in Of(f)}
<1>1. /\ verdict[f].status = "closing"
      /\ verdict' = [verdict EXCEPT ![f].status = "final"] /\ UNCHANGED hour
      /\ encounters' = encounters \/ encounters' = encounters \union rows
  BY DEF ReserveRatedResults
<1>2. at \in Hours
  BY <1>1 DEF RatingInv
<1>3. hour' \in Hours
  BY <1>1 DEF RatingInv
<1>4. /\ verdict' \in [Fixtures -> [status : {"open", "closing", "final"},
                                   outcome : Results, at : Hours \union {NoTime}]]
      /\ \A g \in Fixtures : verdict'[g].status # "open" => verdict'[g].at \in Hours
  BY <1>1, <1>2 DEF RatingInv
<1>5. ASSUME NEW u \in Of(f)
      PROVE  /\ row(u).user = u /\ row(u).opponents = OpponentsIn(f, u)
             /\ row(u).at = at /\ row(u).rated = IsRated(f, u, at)
             /\ row(u) \in Encounter
  <2>1. u \in Contestants /\ OpponentsIn(f, u) \in SUBSET Contestants
    BY SeasonAssumption DEF Of, OpponentsIn
  <2>2. IsRated(f, u, at) \in BOOLEAN
    BY DEF IsRated
  <2> QED
    BY <1>2, <2>1, <2>2, Zenon DEF Encounter
<1>6. encounters' \subseteq Encounter
  BY <1>1, <1>5 DEF RatingInv
<1>7. ASSUME NEW u \in Of(f), NEW e \in encounters, row(u).rated, e.rated,
             e.user = u, e.opponents = OpponentsIn(f, u)
      PROVE  at - e.at >= RepeatWindow
  <2>1. ~(e.at > at - RepeatWindow)
    BY <1>5, <1>7 DEF IsRated, Recent
  <2>2. e.at \in Hours
    BY DEF RatingInv, Encounter
  <2> QED
    BY <1>2, <2>1, <2>2, SeasonAssumption DEF Hours
<1>8. RatedFarApart'
  <2> SUFFICES ASSUME NEW d \in encounters', NEW e \in encounters', d.rated, e.rated,
                      d.user = e.user, d.opponents = e.opponents, d # e
               PROVE  d.at - e.at >= RepeatWindow \/ e.at - d.at >= RepeatWindow
    BY DEF RatedFarApart
  <2>1. CASE d \in encounters /\ e \in encounters
    BY <2>1 DEF RatingInv, RatedFarApart
  <2>2. CASE d \in rows /\ e \in encounters
    <3>1. PICK u \in Of(f) : d = row(u)
      BY <2>2
    <3> QED
      BY <1>5, <1>7, <2>2, <3>1
  <2>3. CASE d \in encounters /\ e \in rows
    <3>1. PICK u \in Of(f) : e = row(u)
      BY <2>3
    <3> QED
      BY <1>5, <1>7, <2>3, <3>1
  <2>4. CASE d \in rows /\ e \in rows
    <3>1. PICK u \in Of(f) : d = row(u)
      BY <2>4
    <3>2. PICK v \in Of(f) : e = row(v)
      BY <2>4
    <3>3. u = v
      BY <1>5, <3>1, <3>2
    <3> QED
      BY <3>1, <3>2, <3>3
  <2> QED
    BY <1>1, <2>1, <2>2, <2>3, <2>4
<1> QED
  BY <1>3, <1>4, <1>6, <1>8 DEF RatingInv

LEMMA RatingStep == RatingInv /\ [SeasonNext]_seasonVars => RatingInv'
<1> SUFFICES ASSUME RatingInv, [SeasonNext]_seasonVars PROVE RatingInv'
  OBVIOUS
<1>1. CASE UNCHANGED <<hour, verdict, encounters>>
  BY <1>1 DEF RatingInv, RatedFarApart
<1>2. CASE HourPasses
  <2>1. hour' \in Hours
    BY <1>2, SeasonAssumption DEF HourPasses, RatingInv, Hours
  <2>2. UNCHANGED <<verdict, encounters>>
    BY <1>2 DEF HourPasses, ratingVars
  <2> QED
    BY <2>1, <2>2 DEF RatingInv, RatedFarApart
<1>3. ASSUME NEW f \in Fixtures, NEW o \in Results \ {"none"}, ReachVerdict(f, o)
      PROVE  RatingInv'
  <2>1. /\ verdict' = [verdict EXCEPT ![f] = [status |-> "closing", outcome |-> o, at |-> hour]]
        /\ UNCHANGED <<hour, encounters>>
    BY <1>3 DEF ReachVerdict
  <2> QED
    BY <2>1 DEF RatingInv, RatedFarApart
<1>4. ASSUME NEW f \in Fixtures, ReserveRatedResults(f)
      PROVE  RatingInv'
  BY <1>4, ReserveKeeps
<1>5. CASE UNCHANGED seasonVars
  BY <1>1, <1>5 DEF seasonVars, ratingVars
<1>6. CASE ProgrammeNext \/ PayoutNext
  <2>1. UNCHANGED <<hour, verdict, encounters>>
    BY <1>6 DEF ProgrammeNext, PublishProgram, CancelProgram, SweepPhase, CountUnresolved,
                CountUnwritten, ComputeAwards, ApproveFinal, PayoutNext,
                HandleRewardAwardsFinalized, FindExpiredClaims, GiveDetails,
                SubmitPayoutInformation, CancelExpiredClaim, MarkPayoutPaid, ratingVars
  <2> QED
    BY <1>1, <2>1
<1>7. ASSUME \/ \E u \in Contestants : DeclareTier(u)
             \/ \E s \in signals : DropSignal(s)
             \/ \E s \in signals, again \in BOOLEAN : HandleRatingPeriodReady(s[1], s[2], again)
      PROVE  RatingInv'
  <2>1. UNCHANGED <<hour, verdict, encounters>>
    BY <1>7 DEF DeclareTier, DropSignal, HandleRatingPeriodReady
  <2> QED
    BY <1>1, <2>1
<1> QED
  BY <1>2, <1>3, <1>4, <1>5, <1>6, <1>7 DEF SeasonNext, RatingNext

\* Two rated results of a player against the same opponents are never closer
\* than the window, in whatever order the finals take the locks.
THEOREM RepeatsAreApart == SeasonSpec => []RatedFarApart
<1>1. SeasonInit => RatingInv
  BY SeasonAssumption DEF SeasonInit, RatingInv, RatedFarApart, Hours, NoTime, Results
<1>2. RatingInv /\ [SeasonNext]_seasonVars => RatingInv'
  BY RatingStep
<1>3. RatingInv => RatedFarApart
  BY DEF RatingInv
<1> QED
  BY <1>1, <1>2, <1>3, PTL DEF SeasonSpec

\* The rows of the payouts are rows of the table.
PayoutInv == payout \in [Contestants -> {"none", "awaiting_information", "ready_to_pay",
                                        "paid", "cancelled"}]

\* What one step may do to the payout of u.
PayoutMoves(u) ==
  /\ payout[u] = "ready_to_pay" => payout'[u] \in {"ready_to_pay", "paid"}
  /\ payout[u] \in {"paid", "cancelled"} => payout'[u] = payout[u]

LEMMA PayoutStep ==
  ASSUME PayoutInv, [SeasonNext]_seasonVars
  PROVE  PayoutInv' /\ \A u \in Contestants : PayoutMoves(u)
<1>1. CASE UNCHANGED payout
  BY <1>1 DEF PayoutInv, PayoutMoves
<1>2. CASE HandleRewardAwardsFinalized
  BY <1>2 DEF HandleRewardAwardsFinalized, PayoutInv, PayoutMoves
<1>3. ASSUME NEW u \in Contestants, SubmitPayoutInformation(u)
      PROVE  PayoutInv' /\ \A v \in Contestants : PayoutMoves(v)
  BY <1>3 DEF SubmitPayoutInformation, PayoutInv, PayoutMoves
<1>4. ASSUME NEW u \in Contestants, CancelExpiredClaim(u)
      PROVE  PayoutInv' /\ \A v \in Contestants : PayoutMoves(v)
  BY <1>4 DEF CancelExpiredClaim, StillCancels, PayoutInv, PayoutMoves
<1>5. ASSUME NEW u \in Contestants, MarkPayoutPaid(u)
      PROVE  PayoutInv' /\ \A v \in Contestants : PayoutMoves(v)
  BY <1>5 DEF MarkPayoutPaid, PayoutInv, PayoutMoves
<1>6. CASE UNCHANGED seasonVars \/ RatingNext \/ ProgrammeNext \/ HourPasses
           \/ FindExpiredClaims \/ \E u \in Contestants : GiveDetails(u)
  <2>1. UNCHANGED payout
    BY <1>6 DEF RatingNext, DeclareTier, ReserveRatedResults, ReachVerdict,
                HandleRatingPeriodReady, DropSignal, ProgrammeNext, PublishProgram,
                CancelProgram, SweepPhase, CountUnresolved, CountUnwritten, ComputeAwards,
                ApproveFinal, HourPasses, FindExpiredClaims, GiveDetails, seasonVars, payoutVars
  <2> QED
    BY <1>1, <2>1
<1> QED
  BY <1>2, <1>3, <1>4, <1>5, <1>6 DEF SeasonNext, PayoutNext

\* A claim made in time is paid or stays payable, and what is paid or expired
\* is never opened again, whatever the sweeper has found before.
THEOREM ClaimsStayMade == SeasonSpec => ClaimsAreKept
<1>1. SeasonInit => PayoutInv
  BY DEF SeasonInit, PayoutInv
<1>2. PayoutInv /\ [SeasonNext]_seasonVars => PayoutInv'
  BY PayoutStep
<1>3. PayoutInv /\ [SeasonNext]_seasonVars => [\A u \in Contestants : PayoutMoves(u)]_seasonVars
  BY PayoutStep
<1>4. SeasonSpec => [][\A u \in Contestants : PayoutMoves(u)]_seasonVars
  BY <1>1, <1>2, <1>3, PTL DEF SeasonSpec
<1> QED
  BY <1>4 DEF ClaimsAreKept, PayoutMoves


-----------------------------------------------------------------------------
(* The score of a set (MatchRules), for 21 and 30 points as for any others *)

PlayInv ==
  /\ score \in [Sides -> Nat]
  /\ sheet \in Seq([Sides -> Nat])
  /\ SetsAreRead

LEMMA PlayInitially == ASSUME RulesInit PROVE PlayInv
<1>1. score = [t \in Sides |-> 0] /\ score["A"] = 0 /\ score["B"] = 0
  BY DEF RulesInit, LoveAll, Sides
<1>2. ReachableUnfinished(score) /\ ~CompletedSet(score)
  BY <1>1, RulesAssumption DEF ReachableUnfinished, CompletedSet, Higher, Lower
<1> QED
  BY <1>1, <1>2 DEF PlayInv, SetsAreRead, RulesInit

\* A rally takes an unfinished set to another, or completes it.
LEMMA RallyIsRead ==
  ASSUME NEW s \in [Sides -> Nat], NEW t \in Sides,
         ReachableUnfinished(s), ~CompletedSet(s),
         NEW w, w = [s EXCEPT ![t] = @ + 1]
  PROVE  /\ w \in [Sides -> Nat]
         /\ GameOver(w) => CompletedSet(w)
         /\ ~GameOver(w) => ReachableUnfinished(w) /\ ~CompletedSet(w)
<1>1. w \in [Sides -> Nat] /\ s["A"] \in Nat /\ s["B"] \in Nat
  BY DEF Sides
<1>2. \/ w["A"] = s["A"] + 1 /\ w["B"] = s["B"]
      \/ w["A"] = s["A"] /\ w["B"] = s["B"] + 1
  BY DEF Sides
<1>3. GameOver(w) => CompletedSet(w)
  BY <1>1, <1>2, RulesAssumption DEF GameOver, CompletedSet, ReachableUnfinished, Higher, Lower
<1>4. ~GameOver(w) => ReachableUnfinished(w) /\ ~CompletedSet(w)
  BY <1>1, <1>2, RulesAssumption DEF GameOver, CompletedSet, ReachableUnfinished, Higher, Lower
<1> QED
  BY <1>1, <1>3, <1>4

LEMMA PlayStep == ASSUME PlayInv, [RulesNext]_rulesVars PROVE PlayInv'
<1>1. ASSUME NEW t \in Sides, WinRally(t) PROVE PlayInv'
  <2> DEFINE w == [score EXCEPT ![t] = @ + 1]
  <2>1. /\ w \in [Sides -> Nat]
        /\ GameOver(w) => CompletedSet(w)
        /\ ~GameOver(w) => ReachableUnfinished(w) /\ ~CompletedSet(w)
    BY RallyIsRead DEF PlayInv, SetsAreRead
  <2>2. CASE GameOver(w)
    <3>1. sheet' = Append(sheet, w) /\ score' = LoveAll
      BY <1>1, <2>2 DEF WinRally
    <3>2. score' \in [Sides -> Nat] /\ score'["A"] = 0 /\ score'["B"] = 0
      BY <3>1 DEF LoveAll, Sides
    <3>3. ReachableUnfinished(score') /\ ~CompletedSet(score')
      BY <3>2, RulesAssumption DEF ReachableUnfinished, CompletedSet, Higher, Lower
    <3>4. sheet' \in Seq([Sides -> Nat]) /\ \A i \in DOMAIN sheet' : CompletedSet(sheet'[i])
      BY <2>1, <2>2, <3>1 DEF PlayInv, SetsAreRead
    <3> QED
      BY <3>2, <3>3, <3>4 DEF PlayInv, SetsAreRead
  <2>3. CASE ~GameOver(w)
    <3>1. score' = w /\ sheet' = sheet
      BY <1>1, <2>3 DEF WinRally
    <3> QED
      BY <2>1, <2>3, <3>1 DEF PlayInv, SetsAreRead
  <2> QED
    BY <2>2, <2>3
<1>2. CASE UNCHANGED rulesVars
  BY <1>2 DEF rulesVars, PlayInv, SetsAreRead
<1> QED
  BY <1>1, <1>2 DEF RulesNext

\* A set of a real game is never taken for another: one that is over counts,
\* and one that is not is accepted as unfinished (completedSetWinner and
\* reachableUnfinished, matchRules.ts).
LEMMA EverySetIsRead == RulesSpec => []SetsAreRead
<1>1. RulesInit => PlayInv
  BY PlayInitially
<1>2. PlayInv /\ [RulesNext]_rulesVars => PlayInv'
  BY PlayStep
<1>3. PlayInv => SetsAreRead
  BY DEF PlayInv
<1> QED
  BY <1>1, <1>2, <1>3, PTL DEF RulesSpec

-----------------------------------------------------------------------------
(* The sheet of a match (MatchRules)                                       *)

\* The sets of a sheet that a side has won.
Won(team, ss) == {i \in DOMAIN ss : SetWinner(ss[i], team)}

\* They can be counted, and so can those of a sheet to which a set is added.
LEMMA SetsAreCounted ==
  ASSUME NEW ss, ss \in Seq([Sides -> Nat]), NEW t \in Sides
  PROVE  IsFiniteSet(Won(t, ss)) /\ SetsWon(t, ss) = Cardinality(Won(t, ss)) /\ SetsWon(t, ss) \in Nat
<1>1. Won(t, ss) \subseteq 1..Len(ss) /\ 0 \in Int /\ 1 \in Int /\ Len(ss) \in Int
  BY DEF Won
<1>2. IsFiniteSet(Won(t, ss))
  BY <1>1, FS_Interval, FS_Subset
<1> QED
  BY <1>2, FS_CardinalityType DEF SetsWon, Won

\* A set that is added counts for who won it.
LEMMA OneMoreSet ==
  ASSUME NEW ss, ss \in Seq([Sides -> Nat]), NEW s \in [Sides -> Nat], NEW t \in Sides
  PROVE  SetsWon(t, Append(ss, s)) = SetsWon(t, ss) + (IF SetWinner(s, t) THEN 1 ELSE 0)
<1> DEFINE n == Len(ss) + 1
           rr == Append(ss, s)
<1>1. rr \in Seq([Sides -> Nat]) /\ Len(ss) \in Nat /\ DOMAIN rr = 1..n /\ DOMAIN ss = 1..Len(ss)
      /\ rr[n] = s /\ \A i \in DOMAIN ss : rr[i] = ss[i]
  OBVIOUS
<1>2. n \notin Won(t, ss) /\ \A i \in 1..n : i \in DOMAIN ss \/ i = n
  BY <1>1 DEF Won
<1>3. CASE SetWinner(s, t)
  <2>1. Won(t, rr) = Won(t, ss) \cup {n}
    BY <1>1, <1>2, <1>3 DEF Won
  <2>2. SetsWon(t, rr) = Cardinality(Won(t, rr)) /\ SetsWon(t, ss) = Cardinality(Won(t, ss))
        /\ IsFiniteSet(Won(t, ss))
    BY <1>1, SetsAreCounted
  <2>3. Cardinality(Won(t, ss) \cup {n}) = Cardinality(Won(t, ss)) + 1
    BY <1>2, <2>2, FS_AddElement
  <2> QED
    BY <1>3, <2>1, <2>2, <2>3
<1>4. CASE ~SetWinner(s, t)
  <2>1. Won(t, rr) = Won(t, ss)
    BY <1>1, <1>2, <1>4 DEF Won
  <2>2. SetsWon(t, rr) = Cardinality(Won(t, rr)) /\ SetsWon(t, ss) = Cardinality(Won(t, ss))
        /\ SetsWon(t, ss) \in Nat
    BY <1>1, SetsAreCounted
  <2> QED
    BY <1>4, <2>1, <2>2
<1> QED
  BY <1>3, <1>4

\* A set that is completed has one winner, the side with more points.
LEMMA OneWinner ==
  ASSUME NEW s \in [Sides -> Nat], CompletedSet(s)
  PROVE  /\ s["A"] # s["B"]
         /\ \A t \in Sides : SetWinner(s, t) <=> s[t] > s[Rival(t)]
         /\ \A t \in Sides : SetWinner(s, t) <=> ~SetWinner(s, Rival(t))
<1>1. s["A"] \in Nat /\ s["B"] \in Nat
  BY DEF Sides
<1>2. s["A"] # s["B"]
  BY <1>1, RulesAssumption DEF CompletedSet, Higher, Lower
<1> QED
  BY <1>1, <1>2 DEF SetWinner, Sides, Rival

\* What the sheet of a match that is played looks like: every set of it was won,
\* by a side that had not won the match before it, and no more is played after
\* the match is won.
SheetInv ==
  /\ PlayInv /\ format \in {"bo3", "bo5"}
  /\ \A i \in DOMAIN sheet : \A t \in Sides : SetsWon(t, SubSeq(sheet, 1, i - 1)) < SetsNeeded
  /\ \A t \in Sides : SetsWon(t, sheet) <= SetsNeeded
  /\ Len(sheet) = SetsWon("A", sheet) + SetsWon("B", sheet)
  /\ (\E t \in Sides : SetsWon(t, sheet) = SetsNeeded) =>
       score = LoveAll /\ SetsWon("A", sheet) # SetsWon("B", sheet)

\* The sets that were won by points are the sets that the code counts.
LEMMA GamesAreSets ==
  ASSUME PlayInv, NEW t \in Sides
  PROVE  GamesOf(t) = SetsWon(t, sheet)
<1>1. \A i \in DOMAIN sheet : SetWinner(sheet[i], t) <=> sheet[i][t] > sheet[i][Rival(t)]
  <2>1. \A i \in DOMAIN sheet : sheet[i] \in [Sides -> Nat] /\ CompletedSet(sheet[i])
    BY DEF PlayInv, SetsAreRead
  <2> QED
    BY <2>1, OneWinner
<1> QED
  BY <1>1 DEF GamesOf, SetsWon

\* Nobody has won a set of an empty sheet.
LEMMA EmptySheet ==
  ASSUME NEW t \in Sides
  PROVE  SetsWon(t, << >>) = 0
<1>1. Won(t, << >>) = {}
  BY DEF Won
<1> QED
  BY <1>1, FS_EmptySet DEF SetsWon, Won

\* A match starts with an empty sheet.
LEMMA SheetInitially == ASSUME RulesInit PROVE SheetInv
<1>1. PlayInv /\ sheet = << >> /\ format \in {"bo3", "bo5"}
  BY PlayInitially, RulesAssumption DEF RulesInit
<1>2. SetsNeeded \in {2, 3}
  BY DEF SetsNeeded
<1>3. \A t \in Sides : SetsWon(t, sheet) = 0
  BY <1>1, EmptySheet
<1>4. "A" \in Sides /\ "B" \in Sides
  BY DEF Sides
<1> QED
  BY <1>1, <1>2, <1>3, <1>4 DEF SheetInv

\* A rally keeps the sheet as it is, or adds the set that it wins.
LEMMA SheetStep == ASSUME SheetInv, [RulesNext]_rulesVars PROVE SheetInv'
<1>1. PlayInv' /\ PlayInv
  BY PlayStep DEF SheetInv
<1>2. CASE UNCHANGED rulesVars
  BY <1>1, <1>2 DEF rulesVars, SheetInv, SetsWon, SetsNeeded
<1>3. ASSUME NEW u \in Sides, WinRally(u) PROVE SheetInv'
  <2>1. PICK w \in [Sides -> Nat] : w = [score EXCEPT ![u] = @ + 1]
    <3>1. score \in [Sides -> Nat] /\ score[u] + 1 \in Nat
      BY <1>1 DEF PlayInv
    <3>2. [score EXCEPT ![u] = @ + 1] \in [Sides -> Nat]
      BY <3>1
    <3> QED
      BY <3>2
  <2>2. format' = format /\ format \in {"bo3", "bo5"} /\ SetsNeeded' = SetsNeeded /\ SetsNeeded \in {2, 3}
    BY <1>3 DEF WinRally, SheetInv, SetsNeeded
  <2>3. \A t \in Sides : SetsWon(t, sheet) < SetsNeeded /\ SetsWon(t, sheet) \in Nat
    <3>1. \A t \in Sides : SetsWon(t, sheet) # SetsNeeded
      BY <1>1, <1>3, GamesAreSets DEF WinRally, MatchOver
    <3>2. \A t \in Sides : SetsWon(t, sheet) \in Nat
      BY <1>1, SetsAreCounted DEF PlayInv
    <3> QED
      BY <2>2, <3>1, <3>2 DEF SheetInv
  <2>4. CASE ~GameOver(w)
    <3>1. sheet' = sheet
      BY <1>3, <2>1, <2>4 DEF WinRally
    <3>2. \A t \in Sides : SetsWon(t, sheet') < SetsNeeded'
      BY <2>2, <2>3, <3>1
    <3>3. \A t \in Sides : SetsWon(t, sheet)' = SetsWon(t, sheet)
      BY <3>1 DEF SetsWon
    <3>4. ~ \E t \in Sides : SetsWon(t, sheet)' = SetsNeeded'
      BY <2>2, <2>3, <3>3
    <3>5. \A t \in Sides : SetsWon(t, sheet)' <= SetsNeeded'
      BY <2>2, <2>3, <3>3
    <3>6. \A i \in DOMAIN sheet' : \A t \in Sides :
            SetsWon(t, SubSeq(sheet, 1, i - 1))' < SetsNeeded'
      BY <2>2, <3>1 DEF SheetInv, SetsWon
    <3>7. Len(sheet)' = SetsWon("A", sheet)' + SetsWon("B", sheet)'
      BY <3>1 DEF SheetInv, SetsWon
    <3> QED
      BY <1>1, <2>2, <3>4, <3>5, <3>6, <3>7 DEF SheetInv
  <2>5. CASE GameOver(w)
    <3>1. sheet' = Append(sheet, w) /\ score' = LoveAll
      BY <1>3, <2>1, <2>5 DEF WinRally
    <3>2. CompletedSet(w)
      BY <1>1, <2>1, <2>5, RallyIsRead DEF PlayInv, SetsAreRead
    <3>3. \A t \in Sides :
            SetsWon(t, Append(sheet, w)) = SetsWon(t, sheet) + (IF SetWinner(w, t) THEN 1 ELSE 0)
      BY <1>1, OneMoreSet DEF PlayInv
    <3>4. SetWinner(w, "A") <=> ~SetWinner(w, "B")
      BY <3>2, OneWinner DEF Sides, Rival
    <3>5. "A" \in Sides /\ "B" \in Sides /\ \A t \in Sides : t = "A" \/ t = "B"
      BY DEF Sides
    <3>6. Len(Append(sheet, w)) = SetsWon("A", Append(sheet, w)) + SetsWon("B", Append(sheet, w))
      BY <1>1, <2>3, <3>3, <3>4, <3>5 DEF SheetInv, PlayInv
    <3>7. \A t \in Sides : SetsWon(t, Append(sheet, w)) <= SetsNeeded
      BY <2>2, <2>3, <3>3
    <3>8. (\E t \in Sides : SetsWon(t, Append(sheet, w)) = SetsNeeded) =>
            SetsWon("A", Append(sheet, w)) # SetsWon("B", Append(sheet, w))
      BY <2>2, <2>3, <3>3, <3>4, <3>5
    <3>9. \A i \in DOMAIN Append(sheet, w) : \A t \in Sides :
            SetsWon(t, SubSeq(Append(sheet, w), 1, i - 1)) < SetsNeeded
      <4> SUFFICES ASSUME NEW i \in DOMAIN Append(sheet, w), NEW t \in Sides
                   PROVE  SetsWon(t, SubSeq(Append(sheet, w), 1, i - 1)) < SetsNeeded
        OBVIOUS
      <4>1. sheet \in Seq([Sides -> Nat]) /\ Len(sheet) \in Nat /\ i \in 1..Len(sheet) + 1
        BY <1>1 DEF PlayInv
      <4>2. SubSeq(Append(sheet, w), 1, i - 1) = SubSeq(sheet, 1, i - 1)
        BY <4>1
      <4>3. CASE i \in DOMAIN sheet
        BY <4>2, <4>3 DEF SheetInv
      <4>4. CASE i = Len(sheet) + 1
        <5>1. SubSeq(sheet, 1, i - 1) = sheet
          BY <4>1, <4>4
        <5> QED
          BY <2>3, <4>2, <5>1
      <4> QED
        BY <4>1, <4>3, <4>4
    <3> QED
      BY <1>1, <2>2, <3>1, <3>6, <3>7, <3>8, <3>9 DEF SheetInv, SetsWon
  <2> QED
    BY <2>4, <2>5
<1> QED
  BY <1>2, <1>3 DEF RulesNext

\* What inferMatchOutcome does with a sheet to which a set is added.
LEMMA AddedSetIsAccepted ==
  ASSUME SheetInv, NEW s \in [Sides -> Nat]
  PROVE  AcceptedSheet(Append(sheet, s)) <=>
           /\ \A t \in Sides : SetsWon(t, sheet) < SetsNeeded
           /\ CompletedSet(s) \/ ReachableUnfinished(s)
<1> DEFINE rr == Append(sheet, s)
           n == Len(sheet) + 1
<1>1. /\ sheet \in Seq([Sides -> Nat]) /\ Len(sheet) \in Nat /\ DOMAIN rr = 1..n
      /\ DOMAIN sheet = 1..Len(sheet) /\ Len(rr) = n /\ rr[n] = s
      /\ \A i \in DOMAIN sheet : rr[i] = sheet[i]
  BY DEF SheetInv, PlayInv
<1>2. \A i \in 1..n : SubSeq(rr, 1, i - 1) = SubSeq(sheet, 1, i - 1)
  BY <1>1
<1>3. SubSeq(rr, 1, n - 1) = sheet
  BY <1>1
<1>4. n \in 1..n /\ \A i \in 1..n : i \in DOMAIN sheet \/ i = n
  BY <1>1
<1>5. ASSUME AcceptedSheet(rr)
      PROVE  /\ \A t \in Sides : SetsWon(t, sheet) < SetsNeeded
             /\ CompletedSet(s) \/ ReachableUnfinished(s)
  <2>1. /\ \A t \in Sides : SetsWon(t, SubSeq(rr, 1, n - 1)) < SetsNeeded
        /\ CompletedSet(rr[n]) \/ ReachableUnfinished(rr[n])
    BY <1>1, <1>4, <1>5 DEF AcceptedSheet
  <2> QED
    BY <1>1, <1>3, <2>1
<1>6. ASSUME \A t \in Sides : SetsWon(t, sheet) < SetsNeeded,
             CompletedSet(s) \/ ReachableUnfinished(s)
      PROVE  AcceptedSheet(rr)
  <2>1. Len(rr) \in 1 .. 2 * SetsNeeded - 1
    <3>1. \A t \in Sides : SetsWon(t, sheet) \in Nat
      BY <1>1, SetsAreCounted
    <3>2. SetsNeeded \in {2, 3} /\ "A" \in Sides /\ "B" \in Sides
      BY DEF SetsNeeded, Sides
    <3>3. Len(sheet) = SetsWon("A", sheet) + SetsWon("B", sheet)
      BY DEF SheetInv
    <3> QED
      BY <1>1, <1>6, <3>1, <3>2, <3>3
  <2>2. \A i \in DOMAIN sheet : CompletedSet(rr[i])
    BY <1>1 DEF SheetInv, PlayInv, SetsAreRead
  <2>3. \A i \in 1..n : \A t \in Sides : SetsWon(t, SubSeq(rr, 1, i - 1)) < SetsNeeded
    <3>1. \A i \in DOMAIN sheet : \A t \in Sides : SetsWon(t, SubSeq(rr, 1, i - 1)) < SetsNeeded
      <4> SUFFICES ASSUME NEW i \in DOMAIN sheet, NEW t \in Sides
                   PROVE  SetsWon(t, SubSeq(rr, 1, i - 1)) < SetsNeeded
        OBVIOUS
      <4>1. SubSeq(rr, 1, i - 1) = SubSeq(sheet, 1, i - 1)
        BY <1>1
      <4>2. SetsWon(t, SubSeq(sheet, 1, i - 1)) < SetsNeeded
        BY DEF SheetInv
      <4> HIDE DEF rr
      <4> QED
        BY <4>1, <4>2
    <3> QED
      BY <1>3, <1>4, <1>6, <3>1
  <2> HIDE DEF rr
  <2> QED
    BY <1>1, <1>4, <1>6, <2>1, <2>2, <2>3 DEF AcceptedSheet
<1> QED
  BY <1>5, <1>6

\* A sheet of sets that are over is accepted.
LEMMA PlayedSheetIsAccepted ==
  ASSUME SheetInv, sheet # << >>
  PROVE  AcceptedSheet(sheet)
<1>1. Len(sheet) \in 1 .. 2 * SetsNeeded - 1
  <2>1. sheet \in Seq([Sides -> Nat]) /\ \A t \in Sides : SetsWon(t, sheet) \in Nat
    BY SetsAreCounted DEF SheetInv, PlayInv
  <2>2. SetsNeeded \in {2, 3} /\ "A" \in Sides /\ "B" \in Sides
    BY DEF SetsNeeded, Sides
  <2>3. /\ Len(sheet) = SetsWon("A", sheet) + SetsWon("B", sheet)
        /\ SetsWon("A", sheet) <= SetsNeeded /\ SetsWon("B", sheet) <= SetsNeeded
        /\ SetsWon("A", sheet) = SetsNeeded => SetsWon("A", sheet) # SetsWon("B", sheet)
    BY <2>2 DEF SheetInv
  <2>4. Len(sheet) \in Nat /\ Len(sheet) # 0
    BY <2>1
  <2> QED
    BY <2>1, <2>2, <2>3, <2>4
<1> QED
  BY <1>1 DEF AcceptedSheet, SheetInv, PlayInv, SetsAreRead

\* The outcome is the win of the one side that leads, if one does.
LEMMA LeaderWins ==
  ASSUME NEW ss, \A t \in Sides : Leads(t, ss) => ~Leads(Rival(t), ss)
  PROVE  \A t \in Sides : InferMatchOutcome(ss) = WinOf(t) <=> Leads(t, ss)
<1>1. ~(Leads("A", ss) /\ Leads("B", ss))
  BY DEF Sides, Rival
<1>2. /\ WinOf("A") # WinOf("B")
      /\ \A t \in Sides : WinOf(t) # "NO_RESULT"
  BY DEF Sides, WinOf
<1>3. CASE Leads("A", ss)
  <2>1. InferMatchOutcome(ss) = WinOf("A")
    BY <1>1, <1>3 DEF InferMatchOutcome
  <2> QED
    BY <1>1, <1>2, <1>3, <2>1 DEF Sides
<1>4. CASE Leads("B", ss)
  <2>1. InferMatchOutcome(ss) = WinOf("B")
    BY <1>1, <1>4 DEF InferMatchOutcome
  <2> QED
    BY <1>1, <1>2, <1>4, <2>1 DEF Sides
<1>5. CASE ~Leads("A", ss) /\ ~Leads("B", ss)
  <2>1. InferMatchOutcome(ss) = "NO_RESULT"
    BY <1>5 DEF InferMatchOutcome
  <2> QED
    BY <1>2, <1>5, <2>1 DEF Sides
<1> QED
  BY <1>3, <1>4, <1>5

\* Who leads on the sheet that is declared is who is ahead in the game.
LEMMA LeadersAreAhead ==
  ASSUME SheetInv, NEW t \in Sides
  PROVE  Leads(t, Declared) <=> Ahead(t)
<1>1. PlayInv /\ sheet \in Seq([Sides -> Nat]) /\ score \in [Sides -> Nat] /\ Rival(t) \in Sides
      /\ ~CompletedSet(score)
  BY DEF SheetInv, PlayInv, SetsAreRead, Sides, Rival
<1>2. /\ GamesOf(t) = SetsWon(t, sheet) /\ GamesOf(Rival(t)) = SetsWon(Rival(t), sheet)
      /\ SetsWon(t, sheet) \in Nat /\ SetsWon(Rival(t), sheet) \in Nat
  BY <1>1, GamesAreSets, SetsAreCounted
<1>3. CASE sheet # << >> /\ score = LoveAll
  <2>1. Declared = sheet /\ score[t] = 0 /\ score[Rival(t)] = 0
    BY <1>1, <1>3 DEF Declared, LoveAll
  <2>2. CompletedSet(sheet[Len(sheet)])
    <3>1. Len(sheet) \in Nat /\ Len(sheet) # 0 /\ DOMAIN sheet = 1..Len(sheet)
      BY <1>1, <1>3
    <3>2. Len(sheet) \in DOMAIN sheet
      BY <3>1
    <3> QED
      BY <3>2 DEF SheetInv, PlayInv, SetsAreRead
  <2> QED
    BY <1>2, <2>1, <2>2 DEF Leads, Ahead
<1>4. CASE sheet = << >> \/ score # LoveAll
  <2>1. PICK rr : rr = Append(sheet, score)
    OBVIOUS
  <2>2. Declared = rr
    BY <1>4, <2>1 DEF Declared
  <2>3. rr[Len(rr)] = score
    BY <1>1, <2>1
  <2>4. SetsWon(t, rr) = SetsWon(t, sheet) /\ SetsWon(Rival(t), rr) = SetsWon(Rival(t), sheet)
    <3>1. ~SetWinner(score, t) /\ ~SetWinner(score, Rival(t))
      BY <1>1 DEF SetWinner
    <3>2. \A u \in Sides :
            SetsWon(u, rr) = SetsWon(u, sheet) + (IF SetWinner(score, u) THEN 1 ELSE 0)
      BY <1>1, <2>1, OneMoreSet
    <3> QED
      BY <1>1, <1>2, <3>1, <3>2
  <2> QED
    BY <1>1, <1>2, <2>2, <2>3, <2>4 DEF Leads, Ahead
<1> QED
  BY <1>3, <1>4

\* Only one side is.
LEMMA OneIsAhead ==
  ASSUME SheetInv, NEW t \in Sides, Ahead(t)
  PROVE  ~Ahead(Rival(t))
<1>1. /\ Rival(t) \in Sides /\ Rival(Rival(t)) = t /\ PlayInv
      /\ sheet \in Seq([Sides -> Nat]) /\ score[t] \in Nat /\ score[Rival(t)] \in Nat
  BY DEF SheetInv, PlayInv, Sides, Rival
<1>2. GamesOf(t) \in Nat /\ GamesOf(Rival(t)) \in Nat
  BY <1>1, GamesAreSets, SetsAreCounted
<1> QED
  BY <1>1, <1>2 DEF Ahead

\* A score that the code accepts of a set is one that the rules let a rally lead to.
LEMMA ReadSetsArePlayed ==
  ASSUME NEW s \in SetScores, CompletedSet(s) \/ ReachableUnfinished(s), s # LoveAll
  PROVE  \E t \in Sides : \E before \in [Sides -> Nat] :
           /\ before = [s EXCEPT ![t] = @ - 1] /\ s[t] > 0
           /\ ~GameOver(before) /\ ReachableUnfinished(before)
<1> DEFINE a == s["A"]
           b == s["B"]
<1>1. a \in Nat /\ b \in Nat /\ a <= PointCap /\ b <= PointCap /\ s \in [Sides -> Nat]
  BY RulesAssumption DEF SetScores, Sides
<1>2. a # 0 \/ b # 0
  <2>1. SUFFICES ASSUME a = 0, b = 0 PROVE s = LoveAll
    OBVIOUS
  <2> QED
    BY <1>1, <2>1 DEF LoveAll, Sides
<1>3. ASSUME NEW t \in Sides, s[t] > 0, s[t] >= s[Rival(t)]
      PROVE  \E before \in [Sides -> Nat] :
               /\ before = [s EXCEPT ![t] = @ - 1] /\ s[t] > 0
               /\ ~GameOver(before) /\ ReachableUnfinished(before)
  <2>1. PICK before : before = [s EXCEPT ![t] = @ - 1]
    OBVIOUS
  <2>2. s[t] \in Nat /\ s[t] - 1 \in Nat
    BY <1>1, <1>3
  <2>3. before \in [Sides -> Nat]
    BY <1>1, <2>1, <2>2
  <2>4. \/ t = "A" /\ before["A"] = a - 1 /\ before["B"] = b /\ a >= b
        \/ t = "B" /\ before["B"] = b - 1 /\ before["A"] = a /\ b >= a
    BY <1>1, <1>3, <2>1 DEF Sides, Rival
  <2>5. ~GameOver(before) /\ ReachableUnfinished(before)
    <3> HIDE DEF a, b
    <3>1. CASE a >= b /\ before["A"] = a - 1 /\ before["B"] = b
      BY <1>1, <3>1, RulesAssumption
      DEF GameOver, ReachableUnfinished, CompletedSet, Higher, Lower, a, b
    <3>2. CASE b >= a /\ before["B"] = b - 1 /\ before["A"] = a
      BY <1>1, <3>2, RulesAssumption
      DEF GameOver, ReachableUnfinished, CompletedSet, Higher, Lower, a, b
    <3> QED
      BY <2>4, <3>1, <3>2
  <2> QED
    BY <1>3, <2>1, <2>3, <2>5
<1>4. "A" \in Sides /\ "B" \in Sides /\ Rival("A") = "B" /\ Rival("B") = "A"
  BY DEF Sides, Rival
<1>5. CASE a >= b
  BY <1>1, <1>2, <1>3, <1>4, <1>5
<1>6. CASE b >= a
  BY <1>1, <1>2, <1>3, <1>4, <1>6
<1> QED
  BY <1>1, <1>5, <1>6

\* At every moment of a match that is played by the laws of badminton, for any
\* length of a set and both formats, the sheet that the players may declare is
\* accepted and gives the match to the side that is ahead, and every other
\* sheet is refused (inferMatchOutcome, matchRules.ts).
THEOREM SheetsAreRead == RulesSpec => []SheetsAreThoseOfPlay
<1>1. SheetInv => SheetsAreThoseOfPlay
  <2> SUFFICES ASSUME SheetInv PROVE SheetsAreThoseOfPlay
    OBVIOUS
  <2>1. AcceptedSheet(Declared)
    <3>1. CASE sheet # << >> /\ score = LoveAll
      BY <3>1, PlayedSheetIsAccepted DEF Declared
    <3>2. CASE sheet = << >> \/ score # LoveAll
      <4>1. \A t \in Sides : SetsWon(t, sheet) < SetsNeeded
        <5>1. SetsNeeded \in {2, 3} /\ sheet \in Seq([Sides -> Nat])
          BY DEF SetsNeeded, SheetInv, PlayInv
        <5>2. \A t \in Sides : SetsWon(t, sheet) \in Nat
          BY <5>1, SetsAreCounted
        <5>3. \A t \in Sides : SetsWon(t, sheet) # SetsNeeded
          BY <3>2, <5>1, EmptySheet DEF SheetInv
        <5> QED
          BY <5>1, <5>2, <5>3 DEF SheetInv
      <4>2. ReachableUnfinished(score) /\ score \in [Sides -> Nat]
        BY DEF SheetInv, PlayInv, SetsAreRead
      <4> QED
        BY <3>2, <4>1, <4>2, AddedSetIsAccepted DEF Declared
    <3> QED
      BY <3>1, <3>2
  <2>2. \A t \in Sides : InferMatchOutcome(Declared) = WinOf(t) <=> Ahead(t)
    <3>1. \A t \in Sides : Rival(t) \in Sides
      BY DEF Sides, Rival
    <3>2. \A t \in Sides : Leads(t, Declared) => ~Leads(Rival(t), Declared)
      BY <3>1, LeadersAreAhead, OneIsAhead
    <3> QED
      BY <3>2, LeadersAreAhead, LeaderWins
  <2>3. ASSUME score = LoveAll, NEW s \in SetScores, AcceptedSheet(Append(sheet, s))
        PROVE  ~MatchOver /\ CouldCome(s)
    <3>1. s \in [Sides -> Nat] /\ PlayInv
      BY RulesAssumption DEF SetScores, SheetInv
    <3>2. /\ \A t \in Sides : SetsWon(t, sheet) < SetsNeeded
          /\ CompletedSet(s) \/ ReachableUnfinished(s)
      BY <2>3, <3>1, AddedSetIsAccepted
    <3>3. ~MatchOver
      <4>1. \A t \in Sides : GamesOf(t) < SetsNeeded
        BY <3>1, <3>2, GamesAreSets
      <4>2. \A t \in Sides : GamesOf(t) \in Nat
        BY <3>1, GamesAreSets, SetsAreCounted DEF PlayInv
      <4>3. SetsNeeded \in {2, 3}
        BY DEF SetsNeeded
      <4> QED
        BY <4>1, <4>2, <4>3 DEF MatchOver
    <3>4. CASE s # LoveAll
      <4>1. PICK t \in Sides, before \in [Sides -> Nat] :
              /\ before = [s EXCEPT ![t] = @ - 1] /\ s[t] > 0
              /\ ~GameOver(before) /\ ReachableUnfinished(before)
        BY <3>2, <3>4, ReadSetsArePlayed
      <4>2. AcceptedSheet(Append(sheet, before))
        BY <3>2, <4>1, AddedSetIsAccepted
      <4> QED
        BY <3>3, <4>1, <4>2 DEF CouldCome
    <3> QED
      BY <3>3, <3>4 DEF CouldCome
  <2> QED
    BY <2>1, <2>2, <2>3 DEF SheetsAreThoseOfPlay
<1> QED
  BY <1>1, SheetInitially, SheetStep, PTL DEF RulesSpec

-----------------------------------------------------------------------------
(* A finite set in the order of a relation *)

TotalOn(R, S) ==
  /\ \A x, y \in S : x # y => <<x, y>> \in R \/ <<y, x>> \in R
  /\ \A x, y, z \in S : <<x, y>> \in R /\ <<y, z>> \in R => <<x, z>> \in R

IsLast(m, R, U) == m \in U /\ \A x \in U \ {m} : <<x, m>> \in R

InSuccession(q, R, U) ==
  /\ q \in [1..Cardinality(U) -> U]
  /\ ToSet(q) = U
  /\ \A i, j \in 1..Cardinality(U) : i < j => <<q[i], q[j]>> \in R

\* A finite set that is not empty has a last element.
LEMMA LastExists ==
  ASSUME NEW S, IsFiniteSet(S), NEW R, TotalOn(R, S), S # {}
  PROVE  \E m : IsLast(m, R, S)
<1> DEFINE Bad == {U \in SUBSET S : U # {} /\ ~\E m : IsLast(m, R, U)}
<1>1. SUFFICES ASSUME Bad # {} PROVE FALSE
  BY DEF Bad
<1>2. PICK U \in Bad : \A V \in Bad : V \subseteq U => V = U
  <2>1. Bad \subseteq SUBSET S
    OBVIOUS
  <2> HIDE DEF Bad
  <2> QED
    BY <1>1, <2>1, SmallestSubset
<1>3. PICK x : x \in U
  BY <1>2
<1>4. U \subseteq S /\ x \in S /\ ~\E m : IsLast(m, R, U)
  BY <1>2, <1>3
<1>5. CASE U = {x}
  BY <1>4, <1>5 DEF IsLast
<1>6. CASE U # {x}
  <2>1. U \ {x} \in SUBSET S /\ U \ {x} # {} /\ U \ {x} # U
    BY <1>3, <1>4, <1>6
  <2>2. PICK m : IsLast(m, R, U \ {x})
    BY <1>2, <2>1
  <2>3. m \in U /\ m # x /\ m \in S
    BY <1>4, <2>2 DEF IsLast
  <2>4. CASE <<x, m>> \in R
    <3>1. IsLast(m, R, U)
      BY <2>2, <2>3, <2>4 DEF IsLast
    <3> QED
      BY <1>4, <3>1
  <2>5. CASE <<m, x>> \in R
    <3>1. ASSUME NEW y \in U \ {x}
          PROVE  <<y, x>> \in R
      <4>1. y = m \/ <<y, m>> \in R
        BY <2>2 DEF IsLast
      <4>2. y \in S
        BY <1>4
      <4> QED
        BY <1>4, <2>3, <2>5, <4>1, <4>2 DEF TotalOn
    <3>2. IsLast(x, R, U)
      BY <1>3, <3>1 DEF IsLast
    <3> QED
      BY <1>4, <3>2
  <2> QED
    BY <1>4, <2>3, <2>4, <2>5 DEF TotalOn
<1> QED
  BY <1>5, <1>6

\* The last element is put behind the others.
LEMMA LastIsPutBehind ==
  ASSUME NEW U, IsFiniteSet(U), NEW R, NEW m, IsLast(m, R, U), NEW q, InSuccession(q, R, U \ {m})
  PROVE  \E p : InSuccession(p, R, U)
<1> DEFINE V == U \ {m}
           n == Cardinality(V)
           p == [i \in 1..(n + 1) |-> IF i = n + 1 THEN m ELSE q[i]]
<1>1. m \in U /\ IsFiniteSet(V)
  BY FS_RemoveElement DEF IsLast
<1>2. n \in Nat /\ Cardinality(U) = n + 1
  <2>1. Cardinality(V) = Cardinality(U) - 1
    BY <1>1, FS_RemoveElement
  <2>2. Cardinality(U) \in Nat /\ Cardinality(V) \in Nat
    BY <1>1, FS_CardinalityType
  <2> QED
    BY <2>1, <2>2
<1>3. /\ q \in [1..n -> V] /\ ToSet(q) = V
      /\ \A i, j \in 1..n : i < j => <<q[i], q[j]>> \in R
  BY DEF InSuccession
<1> HIDE DEF n, V
<1>4. /\ \A i \in 1..n : p[i] = q[i] /\ i # n + 1 /\ i \in 1..(n + 1)
      /\ p[n + 1] = m /\ n + 1 \in 1..(n + 1)
      /\ \A i \in 1..(n + 1) : i = n + 1 \/ i \in 1..n
      /\ DOMAIN p = 1..(n + 1)
  BY <1>2
<1>5. p \in [1..(n + 1) -> U]
  <2>1. V \subseteq U
    BY DEF V
  <2> QED
    BY <1>1, <1>2, <1>3, <2>1
<1> HIDE DEF p
<1>6. ToSet(p) = U
  <2>1. ASSUME NEW x \in U
        PROVE  x \in ToSet(p)
    <3>1. CASE x = m
      BY <1>4, <3>1 DEF ToSet
    <3>2. CASE x # m
      <4>1. x \in ToSet(q)
        BY <1>3, <3>2 DEF V
      <4>2. PICK i \in 1..n : q[i] = x
        BY <1>3, <4>1 DEF ToSet
      <4> QED
        BY <1>4, <4>2 DEF ToSet
    <3> QED
      BY <3>1, <3>2
  <2>2. ToSet(p) \subseteq U
    BY <1>4, <1>5 DEF ToSet
  <2> QED
    BY <2>1, <2>2
<1>7. ASSUME NEW i \in 1..(n + 1), NEW j \in 1..(n + 1), i < j
      PROVE  <<p[i], p[j]>> \in R
  <2>1. i \in 1..n
    BY <1>2, <1>7
  <2>2. CASE j \in 1..n
    BY <1>3, <1>4, <1>7, <2>1, <2>2
  <2>3. CASE j = n + 1
    <3>1. q[i] \in U \ {m}
      BY <1>3, <2>1 DEF V
    <3> QED
      BY <1>4, <2>1, <2>3, <3>1 DEF IsLast
  <2> QED
    BY <1>4, <2>2, <2>3
<1> QED
  BY <1>2, <1>5, <1>6, <1>7 DEF InSuccession

LEMMA EverySetIsSorted ==
  ASSUME NEW S, IsFiniteSet(S), NEW R, TotalOn(R, S)
  PROVE  \E q : InSuccession(q, R, S)
<1> DEFINE Bad == {U \in SUBSET S : ~\E q : InSuccession(q, R, U)}
<1>1. SUFFICES ASSUME Bad # {} PROVE FALSE
  BY DEF Bad
<1>2. PICK U \in Bad : \A V \in Bad : V \subseteq U => V = U
  <2>1. Bad \subseteq SUBSET S
    OBVIOUS
  <2> HIDE DEF Bad
  <2> QED
    BY <1>1, <2>1, SmallestSubset
<1>3. U \subseteq S /\ IsFiniteSet(U) /\ ~\E q : InSuccession(q, R, U)
  BY <1>2, FS_Subset
<1>4. CASE U = {}
  <2>1. Cardinality(U) = 0
    BY <1>4, FS_EmptySet
  <2>2. << >> \in [1..0 -> U] /\ ToSet(<< >>) = U
    BY <1>4 DEF ToSet
  <2>3. InSuccession(<< >>, R, U)
    BY <2>1, <2>2 DEF InSuccession
  <2> QED
    BY <1>3, <2>3
<1>5. CASE U # {}
  <2>1. TotalOn(R, U)
    BY <1>3 DEF TotalOn
  <2>2. PICK m : IsLast(m, R, U)
    BY <1>3, <1>5, <2>1, LastExists
  <2>3. U \ {m} \in SUBSET S /\ U \ {m} # U
    BY <1>3, <2>2 DEF IsLast
  <2>4. PICK q : InSuccession(q, R, U \ {m})
    BY <1>2, <2>3
  <2>5. \E p : InSuccession(p, R, U)
    BY <1>3, <2>2, <2>4, LastIsPutBehind
  <2> QED
    BY <1>3, <2>5
<1> QED
  BY <1>4, <1>5

-----------------------------------------------------------------------------
(* The results of a season are written in their order *)

\* What is written for a user is what was reserved for him, and each once.
WrittenInv(u) ==
  /\ IsInjective(rating[u])
  /\ \A i \in 1..Len(rating[u]) :
       \E e \in encounters : e.user = u /\ e.rated /\ e.fixture = rating[u][i]

RowsInv ==
  /\ RatingInv
  /\ rating \in [Contestants -> Seq(Fixtures)]
  /\ signals \subseteq Fixtures \X Contestants
  /\ \A e \in encounters : verdict[e.fixture].status = "final"
  /\ \A d, e \in encounters : d.fixture = e.fixture /\ d.user = e.user => d = e
  /\ \A u \in Contestants : WrittenInv(u)

\* finalizedAt and then the id of the match order the rows of a user.
LEMMA BeforeIsAnOrder ==
  ASSUME NEW rows, rows \subseteq Encounter, \A d, e \in rows : d.fixture = e.fixture => d = e
  PROVE  TotalOn({p \in rows \X rows : Before(p[1], p[2])}, rows)
<1> DEFINE R == {p \in rows \X rows : Before(p[1], p[2])}
<1>1. \A d, e \in rows : <<d, e>> \in R <=> Before(d, e)
  OBVIOUS
<1>2. \A d \in rows : d.at \in Int /\ d.fixture \in Int
  <2>1. Hours \subseteq Int /\ Fixtures \subseteq Int
    BY SeasonAssumption DEF Hours
  <2>2. \A d \in rows : d.at \in Hours /\ d.fixture \in Fixtures
    BY DEF Encounter
  <2> QED
    BY <2>1, <2>2
<1> HIDE DEF R
<1>3. ASSUME NEW d \in rows, NEW e \in rows, d # e
      PROVE  Before(d, e) \/ Before(e, d)
  BY <1>2, <1>3 DEF Before
<1>4. ASSUME NEW c \in rows, NEW d \in rows, NEW e \in rows, Before(c, d), Before(d, e)
      PROVE  Before(c, e)
  BY <1>2, <1>4 DEF Before
<1>5. TotalOn(R, rows)
  BY <1>1, <1>3, <1>4 DEF TotalOn
<1> QED
  BY <1>5 DEF R

LEMMA RowsAreFinite ==
  ASSUME NEW rows, rows \subseteq Encounter, \A d, e \in rows : d.fixture = e.fixture => d = e
  PROVE  IsFiniteSet(rows)
<1> DEFINE g == [e \in rows |-> e.fixture]
<1>1. g \in [rows -> Fixtures]
  BY DEF Encounter
<1>2. \A d, e \in rows : g[d] = g[e] => d = e
  OBVIOUS
<1> HIDE DEF g
<1>3. g \in Injection(rows, Fixtures)
  BY <1>1, <1>2 DEF Injection, IsInjective
<1> QED
  BY <1>3, SeasonAssumption, FS_Injection

LEMMA ChronologicalIsSorted ==
  ASSUME NEW rows, rows \subseteq Encounter, \A d, e \in rows : d.fixture = e.fixture => d = e
  PROVE  /\ Cardinality(rows) \in Nat
         /\ Chronological(rows) \in [1..Cardinality(rows) -> rows]
         /\ ToSet(Chronological(rows)) = rows
         /\ \A i, j \in 1..Cardinality(rows) :
              i < j => Before(Chronological(rows)[i], Chronological(rows)[j])
<1> DEFINE n == Cardinality(rows)
           R == {p \in rows \X rows : Before(p[1], p[2])}
           Ordered(q) == ToSet(q) = rows /\ \A i, j \in DOMAIN q : i < j => Before(q[i], q[j])
<1>1. IsFiniteSet(rows) /\ TotalOn(R, rows)
  BY RowsAreFinite, BeforeIsAnOrder
<1>2. n \in Nat
  BY <1>1, FS_CardinalityType
<1> HIDE DEF R
<1>3. PICK q : InSuccession(q, R, rows)
  BY <1>1, EverySetIsSorted
<1>4. q \in [1..n -> rows] /\ DOMAIN q = 1..n /\ ToSet(q) = rows
  BY <1>3 DEF InSuccession
<1>5. \A i, j \in 1..n : i < j => Before(q[i], q[j])
  BY <1>3 DEF InSuccession, R
<1>6. Ordered(q)
  BY <1>4, <1>5
<1>7. Chronological(rows) = CHOOSE p \in [1..n -> rows] : Ordered(p)
  BY DEF Chronological
<1> HIDE DEF Ordered, n
<1>8. Chronological(rows) \in [1..n -> rows] /\ Ordered(Chronological(rows))
  BY <1>4, <1>6, <1>7
<1> QED
  BY <1>2, <1>8 DEF Ordered, n

\* The rows of u that are still to be written, in their order.
AreDue(due, n, u) ==
  /\ due \in [1..n -> Unwritten(u)] /\ ToSet(due) = Unwritten(u)
  /\ \A i, j \in 1..n : i < j => Before(due[i], due[j])

FixturesOf(due, n) == [i \in 1..n |-> due[i].fixture]

WritesWhatIsDue(u) ==
  \E n \in Nat : \E due : /\ AreDue(due, n, u)
                        /\ rating' = [rating EXCEPT ![u] = @ \o FixturesOf(due, n)]

\* What a signal of u writes.
LEMMA SignalWrites ==
  ASSUME RowsInv, NEW f, NEW u, NEW again \in BOOLEAN, <<f, u>> \in signals,
         HandleRatingPeriodReady(f, u, again)
  PROVE  /\ f \in Fixtures /\ u \in Contestants
         /\ signals' \subseteq signals
         /\ UNCHANGED <<hour, passports, verdict, encounters, programmeVars, payoutVars>>
         /\ WritesWhatIsDue(u)
<1>1. f \in Fixtures /\ u \in Contestants
  BY DEF RowsInv
<1>2. signals' \subseteq signals
      /\ UNCHANGED <<hour, passports, verdict, encounters, programmeVars, payoutVars>>
  BY DEF HandleRatingPeriodReady
<1> DEFINE rows == Unwritten(u)
           due == Chronological(rows)
           n == Cardinality(rows)
<1>3. rows \subseteq Encounter /\ \A d, e \in rows : d.fixture = e.fixture => d = e
  BY DEF Unwritten, RowsInv, RatingInv
<1> HIDE DEF rows
<1>4. /\ n \in Nat /\ due \in [1..n -> rows] /\ ToSet(due) = rows
      /\ \A i, j \in 1..n : i < j => Before(due[i], due[j])
  BY <1>3, ChronologicalIsSorted
<1>5. rating' = [rating EXCEPT ![u] = rating[u] \o [i \in 1..Len(due) |-> due[i].fixture]]
  BY DEF HandleRatingPeriodReady, Pending, rows
<1> HIDE DEF due, n
<1>6. Len(due) = n
  <2>1. DOMAIN due = 1..n /\ due \in Seq(rows)
    BY <1>4
  <2> QED
    BY <1>4, <2>1
<1>7. rating' = [rating EXCEPT ![u] = @ \o FixturesOf(due, n)]
  BY <1>5, <1>6 DEF FixturesOf
<1>8. AreDue(due, n, u)
  BY <1>4 DEF AreDue, rows
<1>9. WritesWhatIsDue(u)
  BY <1>4, <1>7, <1>8 DEF WritesWhatIsDue
<1> QED
  BY <1>1, <1>2, <1>9

\* A sequence behind another.
LEMMA PutBehind ==
  ASSUME NEW s \in Seq(Fixtures), NEW n \in Nat, NEW t \in [1..n -> Fixtures]
  PROVE  /\ s \o t \in Seq(Fixtures) /\ Len(s \o t) = Len(s) + n /\ Len(s) \in Nat
         /\ \A i \in 1..Len(s) : (s \o t)[i] = s[i] /\ i \in 1..(Len(s) + n)
         /\ \A i \in 1..n : (s \o t)[Len(s) + i] = t[i] /\ Len(s) + i \in 1..(Len(s) + n)
         /\ \A i \in 1..(Len(s) + n) : i \in 1..Len(s) \/ \E j \in 1..n : i = Len(s) + j
<1>1. t \in Seq(Fixtures) /\ Len(t) = n /\ Len(s) \in Nat
  OBVIOUS
<1>2. \A i \in 1..(Len(s) + n) : i \in 1..Len(s) \/ \E j \in 1..n : i = Len(s) + j
  <2> TAKE i \in 1..(Len(s) + n)
  <2>1. CASE i <= Len(s)
    BY <1>1, <2>1
  <2>2. CASE i > Len(s)
    <3>1. i - Len(s) \in 1..n /\ i = Len(s) + (i - Len(s))
      BY <1>1, <2>2
    <3> QED
      BY <3>1
  <2> QED
    BY <1>1, <2>1, <2>2
<1>3. s \o t \in Seq(Fixtures) /\ Len(s \o t) = Len(s) + n
  BY <1>1
<1>4. ASSUME NEW i \in 1..Len(s)
      PROVE  (s \o t)[i] = s[i] /\ i \in 1..(Len(s) + n)
  BY <1>1
<1>5. ASSUME NEW i \in 1..n
      PROVE  (s \o t)[Len(s) + i] = t[i] /\ Len(s) + i \in 1..(Len(s) + n)
  <2>1. Len(s) + i \in 1..(Len(s) + n) /\ Len(s) + i > Len(s) /\ (Len(s) + i) - Len(s) = i
    BY <1>1
  <2> QED
    BY <1>1, <2>1
<1> QED
  BY <1>1, <1>2, <1>3, <1>4, <1>5

\* r holds what was written for u and what was due, in order.
IsRatingOf(r, u) ==
  /\ r \in Seq(Fixtures) /\ IsInjective(r)
  /\ \A i \in 1..Len(r) : \E e \in encounters : e.user = u /\ e.rated /\ e.fixture = r[i]
  /\ \A i \in 1..Len(rating[u]) : i \in 1..Len(r) /\ r[i] = rating[u][i]
  /\ \A d, e \in encounters :
       /\ d.user = u /\ d.rated /\ e.user = u /\ e.rated
       /\ e.fixture \in ToSet(r) \ ToSet(rating[u]) /\ Before(d, e)
       => Follows(r, d, e)

LEMMA WritingKeepsOrder ==
  ASSUME RowsInv, NEW u \in Contestants, NEW n \in Nat, NEW due, AreDue(due, n, u),
         NEW r, r = rating[u] \o FixturesOf(due, n)
  PROVE  IsRatingOf(r, u)
<1> DEFINE s == rating[u]
           t == FixturesOf(due, n)
           m == Len(s)
<1>0. /\ due \in [1..n -> Unwritten(u)] /\ ToSet(due) = Unwritten(u)
      /\ \A i, j \in 1..n : i < j => Before(due[i], due[j])
  BY DEF AreDue
<1>1. s \in Seq(Fixtures)
  BY DEF RowsInv
<1>2. ASSUME NEW e \in Unwritten(u)
      PROVE  /\ e \in encounters /\ e.user = u /\ e.rated /\ e \in Encounter
             /\ e.fixture \in Fixtures /\ \A i \in 1..m : s[i] # e.fixture
  BY DEF Unwritten, Contains, RowsInv, RatingInv, Encounter
<1>3. t \in [1..n -> Fixtures] /\ \A i \in 1..n : t[i] = due[i].fixture
  BY <1>0, <1>2 DEF FixturesOf
<1>4. \A i \in 1..n : due[i] \in Unwritten(u)
  BY <1>0
<1>5. \A d, e \in encounters : d.fixture = e.fixture /\ d.user = e.user => d = e
  BY DEF RowsInv
<1>6. ASSUME NEW d \in Unwritten(u)
      PROVE  ~Before(d, d)
  <2>1. d.at \in Int /\ d.fixture \in Int
    <3>1. Hours \subseteq Int /\ Fixtures \subseteq Int
      BY SeasonAssumption DEF Hours
    <3> QED
      BY <1>2, <3>1 DEF Encounter
  <2> QED
    BY <2>1 DEF Before
<1>7. ASSUME NEW d \in Unwritten(u), NEW e \in Unwritten(u), Before(d, e)
      PROVE  ~Before(e, d)
  <2>1. d.at \in Int /\ d.fixture \in Int /\ e.at \in Int /\ e.fixture \in Int
    <3>1. Hours \subseteq Int /\ Fixtures \subseteq Int
      BY SeasonAssumption DEF Hours
    <3> QED
      BY <1>2, <3>1 DEF Encounter
  <2> QED
    BY <1>7, <2>1 DEF Before
<1>8. \A i, j \in 1..n : t[i] = t[j] => i = j
  <2> SUFFICES ASSUME NEW i \in 1..n, NEW j \in 1..n, t[i] = t[j], i # j PROVE FALSE
    OBVIOUS
  <2>1. due[i] = due[j]
    <3>1. due[i] \in encounters /\ due[j] \in encounters
          /\ due[i].user = u /\ due[j].user = u
      BY <1>2, <1>4
    <3>2. due[i].fixture = due[j].fixture
      BY <1>3
    <3> QED
      BY <1>5, <3>1, <3>2
  <2>2. Before(due[i], due[j]) \/ Before(due[j], due[i])
    BY <1>0
  <2> QED
    BY <1>4, <1>6, <2>1, <2>2
<1>9. \A e \in Unwritten(u) : \E i \in 1..n : due[i] = e
  BY <1>0 DEF ToSet
<1> HIDE DEF t
<1>10. /\ r \in Seq(Fixtures) /\ Len(r) = m + n /\ m \in Nat
       /\ \A i \in 1..m : r[i] = s[i] /\ i \in 1..(m + n)
       /\ \A i \in 1..n : r[m + i] = t[i] /\ m + i \in 1..(m + n)
       /\ \A i \in 1..(m + n) : i \in 1..m \/ \E j \in 1..n : i = m + j
  <2>1. r = s \o t
    BY DEF t
  <2>2. /\ s \o t \in Seq(Fixtures) /\ Len(s \o t) = Len(s) + n /\ Len(s) \in Nat
        /\ \A i \in 1..Len(s) : (s \o t)[i] = s[i] /\ i \in 1..(Len(s) + n)
        /\ \A i \in 1..n : (s \o t)[Len(s) + i] = t[i] /\ Len(s) + i \in 1..(Len(s) + n)
        /\ \A i \in 1..(Len(s) + n) : i \in 1..Len(s) \/ \E j \in 1..n : i = Len(s) + j
    <3> HIDE DEF s
    <3> QED
      BY <1>1, <1>3, PutBehind
  <2> QED
    BY <2>1, <2>2
<1>11. DOMAIN r = 1..(m + n) /\ DOMAIN s = 1..m
  BY <1>1, <1>10
<1>12. WrittenInv(u)
  BY DEF RowsInv
<1> HIDE DEF s, m
<1>13. \A i \in 1..n, k \in 1..m : t[i] # s[k]
  BY <1>2, <1>3, <1>4
<1>14. \A i, k \in 1..m : s[i] = s[k] => i = k
  BY <1>11, <1>12 DEF WrittenInv, IsInjective, s
<1>15. IsInjective(r)
  <2> SUFFICES ASSUME NEW i \in 1..(m + n), NEW k \in 1..(m + n), r[i] = r[k]
               PROVE  i = k
    BY <1>11 DEF IsInjective
  <2>1. CASE i \in 1..m /\ k \in 1..m
    BY <1>10, <1>14, <2>1
  <2>2. CASE \E j \in 1..n : i = m + j
    <3>1. PICK j \in 1..n : i = m + j
      BY <2>2
    <3>2. CASE k \in 1..m
      BY <1>10, <1>13, <3>1, <3>2
    <3>3. CASE \E l \in 1..n : k = m + l
      <4>1. PICK l \in 1..n : k = m + l
        BY <3>3
      <4>2. r[i] = t[j] /\ r[k] = t[l]
        BY <1>10, <3>1, <4>1
      <4> QED
        BY <1>8, <3>1, <4>1, <4>2
    <3> QED
      BY <1>10, <3>2, <3>3
  <2>3. CASE i \in 1..m /\ \E l \in 1..n : k = m + l
    <3>1. PICK l \in 1..n : k = m + l
      BY <2>3
    <3>2. r[i] = s[i] /\ r[k] = t[l]
      BY <1>10, <2>3, <3>1
    <3> QED
      BY <1>13, <2>3, <3>2
  <2> QED
    BY <1>10, <2>1, <2>2, <2>3
<1>16. ASSUME NEW i \in 1..Len(r)
       PROVE  \E e \in encounters : e.user = u /\ e.rated /\ e.fixture = r[i]
  <2>1. CASE i \in 1..m
    BY <1>10, <1>12, <2>1 DEF WrittenInv, s, m
  <2>2. CASE \E j \in 1..n : i = m + j
    <3>1. PICK j \in 1..n : i = m + j
      BY <2>2
    <3>2. r[i] = due[j].fixture
      BY <1>3, <1>10, <3>1
    <3> QED
      BY <1>2, <1>4, <3>2
  <2> QED
    BY <1>10, <2>1, <2>2
<1>17. ASSUME NEW d \in encounters, NEW e \in encounters,
              d.user = u, d.rated, e.user = u, e.rated,
              e.fixture \in ToSet(r) \ ToSet(s), Before(d, e)
       PROVE  Follows(r, d, e)
  <2>1. \A i \in 1..m : s[i] # e.fixture
    BY <1>11, <1>17 DEF ToSet
  <2>2. e \in Unwritten(u)
    BY <1>17, <2>1 DEF Unwritten, Contains, s, m
  <2>3. PICK j \in 1..n : due[j] = e
    BY <1>9, <2>2
  <2>4. r[m + j] = e.fixture /\ m + j \in DOMAIN r
    BY <1>3, <1>10, <1>11, <2>3
  <2>5. CASE \E i \in 1..m : s[i] = d.fixture
    <3>1. PICK i \in 1..m : s[i] = d.fixture
      BY <2>5
    <3>2. r[i] = d.fixture /\ i \in DOMAIN r /\ i < m + j
      BY <1>10, <1>11, <3>1
    <3> QED
      BY <2>4, <3>2 DEF Follows
  <2>6. CASE \A i \in 1..m : s[i] # d.fixture
    <3>1. d \in Unwritten(u)
      BY <1>17, <2>6 DEF Unwritten, Contains, s, m
    <3>2. PICK i \in 1..n : due[i] = d
      BY <1>9, <3>1
    <3>3. i < j
      <4>1. i # j
        BY <1>6, <1>17, <2>3, <3>1, <3>2
      <4>2. ~(j < i)
        BY <1>0, <1>7, <1>17, <2>2, <2>3, <3>1, <3>2
      <4> QED
        BY <4>1, <4>2
    <3>4. r[m + i] = d.fixture /\ m + i \in DOMAIN r
      BY <1>3, <1>10, <1>11, <3>2
    <3>5. m + i < m + j
      BY <1>10, <3>3
    <3> QED
      BY <2>4, <3>4, <3>5 DEF Follows
  <2> QED
    BY <2>5, <2>6
<1>18. \A i \in 1..m : i \in 1..Len(r) /\ r[i] = s[i]
  BY <1>10
<1> QED
  BY <1>10, <1>15, <1>16, <1>17, <1>18 DEF IsRatingOf, s, m

\* A step writes behind what is written.
RatingGrows ==
  \A u \in Contestants : \A i \in 1..Len(rating[u]) :
    i \in 1..Len(rating'[u]) /\ rating'[u][i] = rating[u][i]

RowsMove == RowsInv' /\ RatingGrows /\ \A u \in Contestants : KeepsOrder(u)

LEMMA NothingWritten ==
  ASSUME RowsInv, RowsInv', UNCHANGED rating
  PROVE  RowsMove
<1>1. RatingGrows
  BY DEF RatingGrows
<1>2. ASSUME NEW u \in Contestants
      PROVE  KeepsOrder(u)
  BY DEF KeepsOrder, RowsInv, WrittenInv
<1> QED
  BY <1>1, <1>2 DEF RowsMove

LEMMA SignalMoves ==
  ASSUME RowsInv, RatingInv', NEW f, NEW u, NEW again \in BOOLEAN, <<f, u>> \in signals,
         HandleRatingPeriodReady(f, u, again)
  PROVE  RowsMove
<1>1. f \in Fixtures /\ u \in Contestants /\ signals' \subseteq signals
      /\ UNCHANGED <<hour, passports, verdict, encounters, programmeVars, payoutVars>>
  BY SignalWrites
<1>2. PICK n \in Nat : \E due : /\ AreDue(due, n, u)
                              /\ rating' = [rating EXCEPT ![u] = @ \o FixturesOf(due, n)]
  <2>1. WritesWhatIsDue(u)
    BY SignalWrites
  <2> QED
    BY <2>1 DEF WritesWhatIsDue
<1>3. PICK due : AreDue(due, n, u) /\ rating' = [rating EXCEPT ![u] = @ \o FixturesOf(due, n)]
  BY <1>2
<1>4. PICK r : r = rating[u] \o FixturesOf(due, n)
  OBVIOUS
<1>5. IsRatingOf(r, u)
  BY <1>1, <1>3, <1>4, WritingKeepsOrder
<1>6. rating' = [rating EXCEPT ![u] = r]
  BY <1>3, <1>4
<1>7. rating'[u] = r /\ (\A v \in Contestants \ {u} : rating'[v] = rating[v])
      /\ rating' \in [Contestants -> Seq(Fixtures)]
  BY <1>1, <1>5, <1>6 DEF RowsInv, IsRatingOf
<1>8. ASSUME NEW v \in Contestants
      PROVE  WrittenInv(v)'
  <2>1. CASE v = u
    BY <1>1, <1>5, <1>7, <2>1 DEF WrittenInv, IsRatingOf
  <2>2. CASE v # u
    BY <1>1, <1>7, <2>2 DEF WrittenInv, RowsInv
  <2> QED
    BY <2>1, <2>2
<1>9. RowsInv'
  BY <1>1, <1>7, <1>8 DEF RowsInv
<1>10. RatingGrows
  <2>1. ASSUME NEW v \in Contestants, NEW i \in 1..Len(rating[v])
        PROVE  i \in 1..Len(rating'[v]) /\ rating'[v][i] = rating[v][i]
    <3>1. CASE v = u
      BY <1>5, <1>7, <3>1 DEF IsRatingOf
    <3>2. CASE v # u
      BY <1>7, <3>2
    <3> QED
      BY <3>1, <3>2
  <2> QED
    BY <2>1 DEF RatingGrows
<1>11. ASSUME NEW v \in Contestants
       PROVE  KeepsOrder(v)
  <2>1. CASE v = u
    BY <1>5, <1>7, <2>1 DEF KeepsOrder, IsRatingOf
  <2>2. CASE v # u
    BY <1>7, <2>2 DEF KeepsOrder, RowsInv, WrittenInv
  <2> QED
    BY <2>1, <2>2
<1> QED
  BY <1>9, <1>10, <1>11 DEF RowsMove

LEMMA ReservationMoves ==
  ASSUME RowsInv, RatingInv', NEW f \in Fixtures, ReserveRatedResults(f)
  PROVE  RowsMove /\ \A e \in encounters' \ encounters : e.fixture = f
<1> DEFINE at == verdict[f].at
           rows == {[fixture |-> f, user |-> u, rated |-> IsRated(f, u, at),
                     opponents |-> OpponentsIn(f, u), at |-> at] : u \in Of(f)}
<1>1. /\ verdict[f].status = "closing"
      /\ verdict' = [verdict EXCEPT ![f].status = "final"]
      /\ UNCHANGED rating
      /\ \/ UNCHANGED <<encounters, signals>>
         \/ /\ encounters' = encounters \union rows
            /\ signals' = signals \union {<<f, e.user>> : e \in {x \in rows : x.rated}}
  BY DEF ReserveRatedResults
<1>2. \A e \in rows : e.fixture = f /\ e.user \in Contestants
  BY SeasonAssumption DEF Of
<1>3. \A d, e \in rows : d.user = e.user => d = e
  OBVIOUS
<1> HIDE DEF rows
<1>4. encounters \subseteq encounters' /\ \A e \in encounters' : e \in encounters \/ e \in rows
  BY <1>1
<1>5. \A e \in encounters : e.fixture # f /\ e.fixture \in Fixtures
  BY <1>1 DEF RowsInv, RatingInv, Encounter
<1>6. \A g \in Fixtures : verdict[g].status = "final" \/ g = f => verdict'[g].status = "final"
  BY <1>1 DEF RowsInv, RatingInv
<1>7. \A e \in encounters' : verdict'[e.fixture].status = "final"
  BY <1>2, <1>4, <1>5, <1>6 DEF RowsInv
<1>8. \A d, e \in encounters' : d.fixture = e.fixture /\ d.user = e.user => d = e
  BY <1>2, <1>3, <1>4, <1>5 DEF RowsInv
<1>9. signals' \subseteq Fixtures \X Contestants
  BY <1>1, <1>2 DEF RowsInv
<1>10. ASSUME NEW u \in Contestants
       PROVE  WrittenInv(u)'
  BY <1>1, <1>4 DEF WrittenInv, RowsInv
<1>11. RowsInv'
  BY <1>1, <1>7, <1>8, <1>9, <1>10 DEF RowsInv
<1> QED
  BY <1>1, <1>2, <1>4, <1>11, NothingWritten

LEMMA VerdictMoves ==
  ASSUME RowsInv, RatingInv', NEW f \in Fixtures, NEW o, ReachVerdict(f, o)
  PROVE  RowsMove /\ UNCHANGED encounters
<1>1. /\ verdict[f].status = "open" /\ UNCHANGED <<encounters, signals, rating>>
      /\ verdict' = [verdict EXCEPT ![f] = [status |-> "closing", outcome |-> o, at |-> hour]]
  BY DEF ReachVerdict
<1>2. \A e \in encounters : e.fixture # f /\ e.fixture \in Fixtures
  BY <1>1 DEF RowsInv, RatingInv, Encounter
<1>3. \A e \in encounters' : verdict'[e.fixture].status = "final"
  BY <1>1, <1>2 DEF RowsInv, RatingInv
<1>4. \A u \in Contestants : WrittenInv(u)'
  BY <1>1 DEF RowsInv, WrittenInv
<1>5. RowsInv'
  BY <1>1, <1>3, <1>4 DEF RowsInv
<1> QED
  BY <1>1, <1>5, NothingWritten

LEMMA OthersMoveNoRow ==
  ASSUME RowsInv, RatingInv', UNCHANGED <<verdict, encounters, rating>>, signals' \subseteq signals
  PROVE  RowsMove
<1>1. \A u \in Contestants : WrittenInv(u)'
  BY DEF RowsInv, WrittenInv
<1>2. RowsInv'
  BY <1>1 DEF RowsInv
<1> QED
  BY <1>2, NothingWritten

LEMMA RowsStep ==
  ASSUME RowsInv, [SeasonNext]_seasonVars
  PROVE  /\ RowsMove
         /\ \A e \in encounters' \ encounters :
              e.fixture \in Fixtures /\ verdict[e.fixture].status # "final"
<1>1. RatingInv'
  BY RatingStep DEF RowsInv
<1>2. ASSUME NEW f \in Fixtures, ReserveRatedResults(f)
      PROVE  RowsMove /\ \A e \in encounters' \ encounters : e.fixture = f /\ verdict[f].status # "final"
  BY <1>1, <1>2, ReservationMoves DEF ReserveRatedResults
<1>3. ASSUME NEW f \in Fixtures, NEW o \in Results \ {"none"}, ReachVerdict(f, o)
      PROVE  RowsMove /\ UNCHANGED encounters
  BY <1>1, <1>3, VerdictMoves
<1>4. ASSUME NEW s \in signals, NEW again \in BOOLEAN, HandleRatingPeriodReady(s[1], s[2], again)
      PROVE  RowsMove /\ UNCHANGED encounters
  <2>1. s = <<s[1], s[2]>>
    BY DEF RowsInv
  <2>2. UNCHANGED encounters
    BY <1>4 DEF HandleRatingPeriodReady
  <2> QED
    BY <1>1, <1>4, <2>1, <2>2, SignalMoves
<1>5. ASSUME \/ \E u \in Contestants : DeclareTier(u)
             \/ \E s \in signals : DropSignal(s)
             \/ ProgrammeNext \/ PayoutNext \/ HourPasses \/ UNCHANGED seasonVars
      PROVE  RowsMove /\ UNCHANGED encounters
  <2>1. UNCHANGED <<verdict, encounters, rating>> /\ signals' \subseteq signals
    BY <1>5 DEF DeclareTier, DropSignal, ProgrammeNext, PublishProgram, CancelProgram, SweepPhase,
                CountUnresolved, CountUnwritten, ComputeAwards, ApproveFinal, PayoutNext,
                HandleRewardAwardsFinalized, FindExpiredClaims, GiveDetails, SubmitPayoutInformation,
                CancelExpiredClaim, MarkPayoutPaid, HourPasses, ratingVars, seasonVars
  <2> QED
    BY <1>1, <2>1, OthersMoveNoRow
<1> QED
  BY <1>2, <1>3, <1>4, <1>5 DEF SeasonNext, RatingNext

-----------------------------------------------------------------------------
(* The prizes are computed from everything that is due *)

ProgrammeTypes ==
  /\ passports \subseteq Contestants
  /\ programme \in [status : {"draft", "scheduled", "active", "reconciling", "cancelled",
                              "awaiting_admin_approval", "final"},
                    deadline : Nat]
  /\ sweep \in {"idle", "unresolved", "unwritten", "score"}
  /\ awards \subseteq Fixtures \X Contestants
  /\ informing \subseteq Contestants /\ expiring \subseteq Contestants

\* The sweeper works on a programme that is being reconciled, and what it has
\* read stays true, because nothing of the window is left to be decided.
SweepInv ==
  /\ sweep # "idle" => programme.status = "reconciling"
  /\ sweep \in {"unwritten", "score"} => NoUnresolved
  /\ sweep = "score" => NoUnwritten

SeasonInv == RowsInv /\ PayoutInv /\ ProgrammeTypes /\ SweepInv /\ AwardsAreComplete

RatedInWindow == {x \in encounters : x.rated /\ InWindow(x.fixture)}
AwardsOf(rows) == {<<e.fixture, e.user>> : e \in rows}

LEMMA ProgrammeTypesStep ==
  ASSUME RatingInv, ProgrammeTypes, [SeasonNext]_seasonVars
  PROVE  ProgrammeTypes'
<1>1. CASE UNCHANGED <<passports, programmeVars, informing, expiring>>
  BY <1>1 DEF ProgrammeTypes, programmeVars
<1>2. ASSUME NEW u \in Contestants, DeclareTier(u)
      PROVE  ProgrammeTypes'
  BY <1>2 DEF DeclareTier, ProgrammeTypes, programmeVars, payoutVars
<1>3. CASE PublishProgram \/ CancelProgram \/ SweepPhase
  BY <1>3 DEF PublishProgram, CancelProgram, SweepPhase, ProgrammeTypes, ratingVars, payoutVars
<1>4. CASE CountUnresolved \/ CountUnwritten
  BY <1>4 DEF CountUnresolved, CountUnwritten, ProgrammeTypes, ratingVars, payoutVars
<1>5. CASE ComputeAwards
  BY <1>5 DEF ComputeAwards, ProgrammeTypes, ratingVars, payoutVars
<1>6. CASE ApproveFinal
  <2>1. hour + ClaimWindow \in Nat
    BY SeasonAssumption DEF RatingInv, Hours
  <2> QED
    BY <1>6, <2>1 DEF ApproveFinal, ProgrammeTypes, ratingVars, payoutVars
<1>7. ASSUME NEW u \in Contestants, GiveDetails(u) \/ SubmitPayoutInformation(u) \/ CancelExpiredClaim(u)
      PROVE  ProgrammeTypes'
  BY <1>7 DEF GiveDetails, SubmitPayoutInformation, CancelExpiredClaim, ProgrammeTypes,
              ratingVars, programmeVars
<1>8. CASE FindExpiredClaims
  BY <1>8 DEF FindExpiredClaims, ProgrammeTypes, ratingVars, programmeVars
<1>9. ASSUME \/ HandleRewardAwardsFinalized \/ \E u \in Contestants : MarkPayoutPaid(u)
             \/ HourPasses \/ UNCHANGED seasonVars
             \/ \E f \in Fixtures : \/ ReserveRatedResults(f)
                                    \/ \E o \in Results \ {"none"} : ReachVerdict(f, o)
             \/ \E s \in signals, again \in BOOLEAN : HandleRatingPeriodReady(s[1], s[2], again)
             \/ \E s \in signals : DropSignal(s)
      PROVE  ProgrammeTypes'
  <2>1. UNCHANGED <<passports, programmeVars, informing, expiring>>
    BY <1>9 DEF HandleRewardAwardsFinalized, MarkPayoutPaid, HourPasses, seasonVars, ratingVars,
                ReserveRatedResults, ReachVerdict, HandleRatingPeriodReady, DropSignal, payoutVars
  <2> QED
    BY <1>1, <2>1
<1> QED
  BY <1>2, <1>3, <1>4, <1>5, <1>6, <1>7, <1>8, <1>9
     DEF SeasonNext, RatingNext, ProgrammeNext, PayoutNext

\* Once every ranked match of the window is final, no result is added to it, and
\* what is written stays written.
LEMMA WindowIsClosed ==
  ASSUME RowsInv, [SeasonNext]_seasonVars, NoUnresolved
  PROVE  /\ NoUnresolved' /\ RatedInWindow' = RatedInWindow
         /\ NoUnwritten => NoUnwritten'
<1>1. RowsMove /\ \A e \in encounters' \ encounters :
                    e.fixture \in Fixtures /\ verdict[e.fixture].status # "final"
  BY RowsStep
<1>2. \A e \in encounters' \ encounters : ~InWindow(e.fixture)
  BY <1>1 DEF NoUnresolved
<1>3. encounters \subseteq encounters' /\ \A f \in Fixtures :
        verdict[f].status = "final" => verdict'[f].status = "final"
  <2>1. CASE UNCHANGED <<verdict, encounters>>
    BY <2>1
  <2>2. ASSUME NEW f \in Fixtures, ReserveRatedResults(f)
        PROVE  encounters \subseteq encounters' /\ \A g \in Fixtures :
                 verdict[g].status = "final" => verdict'[g].status = "final"
    BY <2>2 DEF ReserveRatedResults, RowsInv, RatingInv
  <2>3. ASSUME NEW f \in Fixtures, NEW o \in Results \ {"none"}, ReachVerdict(f, o)
        PROVE  encounters \subseteq encounters' /\ \A g \in Fixtures :
                 verdict[g].status = "final" => verdict'[g].status = "final"
    BY <2>3 DEF ReachVerdict, RowsInv, RatingInv
  <2>4. ASSUME \/ \E u \in Contestants : DeclareTier(u)
               \/ \E s \in signals : DropSignal(s)
               \/ \E s \in signals, again \in BOOLEAN : HandleRatingPeriodReady(s[1], s[2], again)
               \/ ProgrammeNext \/ PayoutNext \/ HourPasses \/ UNCHANGED seasonVars
        PROVE  UNCHANGED <<verdict, encounters>>
    BY <2>4 DEF DeclareTier, DropSignal, HandleRatingPeriodReady, ProgrammeNext, PublishProgram,
                CancelProgram, SweepPhase, CountUnresolved, CountUnwritten, ComputeAwards,
                ApproveFinal, PayoutNext, HandleRewardAwardsFinalized, FindExpiredClaims,
                GiveDetails, SubmitPayoutInformation, CancelExpiredClaim, MarkPayoutPaid,
                HourPasses, ratingVars, seasonVars
  <2> QED
    BY <2>1, <2>2, <2>3, <2>4 DEF SeasonNext, RatingNext
<1>4. NoUnresolved'
  BY <1>3 DEF NoUnresolved, InWindow
<1>5. RatedInWindow' = RatedInWindow
  BY <1>2, <1>3 DEF RatedInWindow, InWindow
<1>6. ASSUME NoUnwritten
      PROVE  NoUnwritten'
  <2> SUFFICES ASSUME NEW e \in encounters', e.rated, InWindow(e.fixture)
               PROVE  Contains(rating'[e.user], e.fixture)
    BY DEF NoUnwritten, InWindow
  <2>1. e \in encounters /\ e.user \in Contestants
    BY <1>2 DEF RowsInv, RatingInv, Encounter
  <2>2. PICK i \in 1..Len(rating[e.user]) : rating[e.user][i] = e.fixture
    BY <1>6, <2>1 DEF NoUnwritten, Contains
  <2>3. i \in 1..Len(rating'[e.user]) /\ rating'[e.user][i] = e.fixture
    BY <1>1, <2>1, <2>2 DEF RowsMove, RatingGrows
  <2> QED
    BY <2>3 DEF Contains
<1> QED
  BY <1>4, <1>5, <1>6

LEMMA SweepStep ==
  ASSUME RowsInv, ProgrammeTypes, SweepInv, [SeasonNext]_seasonVars
  PROVE  SweepInv'
<1>1. NoUnresolved => NoUnresolved' /\ (NoUnwritten => NoUnwritten')
  BY WindowIsClosed
<1>2. CASE UNCHANGED <<sweep, programme>>
  BY <1>1, <1>2 DEF SweepInv
<1>3. CASE PublishProgram \/ CancelProgram \/ ApproveFinal
  BY <1>1, <1>3 DEF PublishProgram, CancelProgram, ApproveFinal, SweepInv
<1>4. CASE SweepPhase
  <2>1. sweep' = "idle" \/ (sweep' = "unresolved" /\ programme'.status = "reconciling")
    BY <1>4 DEF SweepPhase, ProgrammeTypes
  <2> QED
    BY <2>1 DEF SweepInv
<1>5. CASE CountUnresolved \/ CountUnwritten \/ ComputeAwards
  <2>1. UNCHANGED programme \/ sweep' = "idle"
    BY <1>5 DEF CountUnresolved, CountUnwritten, ComputeAwards
  <2>2. sweep' = "unwritten" => NoUnresolved /\ sweep # "idle"
    BY <1>5 DEF CountUnresolved, CountUnwritten, ComputeAwards, NothingLeft
  <2>3. sweep' = "score" => NoUnresolved /\ NoUnwritten /\ sweep # "idle"
    BY <1>5 DEF CountUnresolved, CountUnwritten, ComputeAwards, NothingLeft, SweepInv
  <2>4. sweep' \in {"idle", "unwritten", "score"}
    BY <1>5 DEF CountUnresolved, CountUnwritten, ComputeAwards
  <2> QED
    BY <1>1, <2>1, <2>2, <2>3, <2>4 DEF SweepInv
<1>6. CASE RatingNext \/ PayoutNext \/ HourPasses \/ UNCHANGED seasonVars
  <2>1. UNCHANGED <<sweep, programme>>
    BY <1>6 DEF RatingNext, DeclareTier, DropSignal, HandleRatingPeriodReady, ReserveRatedResults,
                ReachVerdict, PayoutNext, HandleRewardAwardsFinalized, FindExpiredClaims,
                GiveDetails, SubmitPayoutInformation, CancelExpiredClaim, MarkPayoutPaid,
                HourPasses, programmeVars, seasonVars
  <2> QED
    BY <1>2, <2>1
<1> QED
  BY <1>3, <1>4, <1>5, <1>6 DEF SeasonNext, ProgrammeNext

LEMMA AwardsStep ==
  ASSUME RowsInv, ProgrammeTypes, SweepInv, AwardsAreComplete, [SeasonNext]_seasonVars
  PROVE  AwardsAreComplete'
<1> DEFINE done == {"awaiting_admin_approval", "final"}
<1>1. AwardsAreComplete <=>
        (programme.status \in done => NoUnresolved /\ awards = AwardsOf(RatedInWindow))
  BY DEF AwardsAreComplete, AwardsOf, RatedInWindow
<1>2. AwardsAreComplete' <=>
        (programme'.status \in done => NoUnresolved' /\ awards' = AwardsOf(RatedInWindow'))
  BY DEF AwardsAreComplete, AwardsOf, RatedInWindow
<1>3. CASE ComputeAwards
  <2>1. NoUnresolved /\ NoUnwritten
    BY <1>3 DEF ComputeAwards, SweepInv
  <2>2. awards' = UNION {{<<f, u>> : f \in {g \in Fixtures : Contains(rating[u], g) /\ InWindow(g)}}
                           : u \in Contestants}
    BY <1>3 DEF ComputeAwards
  <2>3. ASSUME NEW a \in awards'
        PROVE  a \in AwardsOf(RatedInWindow)
    <3>1. PICK u \in Contestants : a \in {<<f, u>> : f \in {g \in Fixtures :
                                        Contains(rating[u], g) /\ InWindow(g)}}
      BY <2>2, <2>3
    <3>2. PICK f \in Fixtures : a = <<f, u>> /\ Contains(rating[u], f) /\ InWindow(f)
      BY <3>1
    <3>3. PICK e \in encounters : e.user = u /\ e.rated /\ e.fixture = f
      BY <3>2 DEF Contains, RowsInv, WrittenInv
    <3>4. e \in RatedInWindow
      BY <3>2, <3>3 DEF RatedInWindow
    <3> QED
      BY <3>2, <3>3, <3>4 DEF AwardsOf
  <2>4. ASSUME NEW e \in RatedInWindow
        PROVE  <<e.fixture, e.user>> \in awards'
    <3>1. e.fixture \in Fixtures /\ e.user \in Contestants
      BY DEF RatedInWindow, RowsInv, RatingInv, Encounter
    <3>2. Contains(rating[e.user], e.fixture) /\ InWindow(e.fixture)
      BY <2>1 DEF RatedInWindow, NoUnwritten
    <3> QED
      BY <2>2, <3>1, <3>2
  <2>5. awards' = AwardsOf(RatedInWindow)
    BY <2>3, <2>4 DEF AwardsOf
  <2> QED
    BY <1>2, <2>1, <2>5, WindowIsClosed
<1>4. CASE ~ComputeAwards
  <2>1. UNCHANGED awards /\ (programme'.status \in done => programme.status \in done)
    <3>1. CASE PublishProgram \/ CancelProgram \/ SweepPhase
      BY <3>1 DEF PublishProgram, CancelProgram, SweepPhase, ProgrammeTypes
    <3>2. CASE ApproveFinal
      BY <3>2 DEF ApproveFinal
    <3>3. CASE CountUnresolved \/ CountUnwritten
      BY <3>3 DEF CountUnresolved, CountUnwritten
    <3>4. CASE RatingNext \/ PayoutNext \/ HourPasses \/ UNCHANGED seasonVars
      BY <3>4 DEF RatingNext, DeclareTier, DropSignal, HandleRatingPeriodReady,
                  ReserveRatedResults, ReachVerdict, PayoutNext, HandleRewardAwardsFinalized,
                  FindExpiredClaims, GiveDetails, SubmitPayoutInformation, CancelExpiredClaim,
                  MarkPayoutPaid, HourPasses, programmeVars, seasonVars
    <3> QED
      BY <1>4, <3>1, <3>2, <3>3, <3>4 DEF SeasonNext, ProgrammeNext
  <2>2. NoUnresolved => NoUnresolved' /\ RatedInWindow' = RatedInWindow
    BY WindowIsClosed
  <2> QED
    BY <1>1, <1>2, <2>1, <2>2
<1> QED
  BY <1>3, <1>4

LEMMA SeasonInitially == SeasonInit => SeasonInv
<1> SUFFICES ASSUME SeasonInit PROVE SeasonInv
  OBVIOUS
<1>1. RatingInv
  BY SeasonAssumption DEF SeasonInit, RatingInv, RatedFarApart, Hours, NoTime, Results
<1>2. RowsInv
  <2>1. << >> \in Seq(Fixtures) /\ Len(<< >>) = 0
    OBVIOUS
  <2>2. \A u \in Contestants : WrittenInv(u)
    BY DEF SeasonInit, WrittenInv, IsInjective
  <2> QED
    BY <1>1, <2>1, <2>2 DEF SeasonInit, RowsInv
<1>3. PayoutInv /\ ProgrammeTypes
  BY SeasonAssumption DEF SeasonInit, PayoutInv, ProgrammeTypes, NoTime
<1>4. SweepInv /\ AwardsAreComplete
  BY DEF SeasonInit, SweepInv, AwardsAreComplete
<1> QED
  BY <1>2, <1>3, <1>4 DEF SeasonInv

LEMMA SeasonStep == SeasonInv /\ [SeasonNext]_seasonVars => SeasonInv'
<1> SUFFICES ASSUME SeasonInv, [SeasonNext]_seasonVars PROVE SeasonInv'
  OBVIOUS
<1>1. RowsInv'
  BY RowsStep DEF SeasonInv, RowsMove
<1>2. PayoutInv'
  BY PayoutStep DEF SeasonInv
<1>3. ProgrammeTypes'
  BY ProgrammeTypesStep DEF SeasonInv, RowsInv
<1>4. SweepInv'
  BY SweepStep DEF SeasonInv
<1>5. AwardsAreComplete'
  BY AwardsStep DEF SeasonInv
<1> QED
  BY <1>1, <1>2, <1>3, <1>4, <1>5 DEF SeasonInv

LEMMA SeasonAlways == SeasonSpec => []SeasonInv
BY SeasonInitially, SeasonStep, PTL DEF SeasonSpec

\* The tables of ratings, programmes and payouts stay within the schema.
THEOREM SeasonTypeCorrect == SeasonSpec => []SeasonTypeOK
<1>1. SeasonInv => SeasonTypeOK
  BY DEF SeasonInv, RowsInv, RatingInv, PayoutInv, ProgrammeTypes, SeasonTypeOK
<1> QED
  BY <1>1, SeasonAlways, PTL

\* The prizes are computed from every rated result of the window and from nothing
\* else, though the sweeper reads results and ratings in separate statements, and
\* events are late, repeated or dropped (sweepRewardPrograms, countPendingRatedWork).
THEOREM PrizesAreComplete == SeasonSpec => []AwardsAreComplete
<1>1. SeasonInv => AwardsAreComplete
  BY DEF SeasonInv
<1> QED
  BY <1>1, SeasonAlways, PTL

\* A result is written behind every earlier result of the player that is reserved,
\* and once, whichever signal comes first (applyRatedResultInTransaction).
THEOREM ResultsAreInOrder == SeasonSpec => NoResultIsSkipped
<1>1. SeasonInv /\ [SeasonNext]_seasonVars => [\A u \in Contestants : KeepsOrder(u)]_seasonVars
  BY RowsStep DEF SeasonInv, RowsMove
<1>2. SeasonSpec => [][\A u \in Contestants : KeepsOrder(u)]_seasonVars
  BY <1>1, SeasonInitially, SeasonStep, PTL DEF SeasonSpec
<1> QED
  BY <1>2 DEF NoResultIsSkipped
=============================================================================
