----------------------------- MODULE MatchRules -----------------------------
(***************************************************************************)
(* The rules of a competitive match (matchmaking-service, matchRules.ts):  *)
(* how a score sheet is read, and how the money of a match is divided.     *)
(*                                                                         *)
(* The sheet is compared with the game itself: the state is a match that   *)
(* is played rally by rally by the laws of badminton, which know nothing   *)
(* of the code, and the players may stop and declare at any moment.        *)
(***************************************************************************)
EXTENDS Integers, Sequences, FiniteSets

CONSTANTS
  GamePoint,    \* 21: the points of a set that is not extended
  PointCap,     \* 30: the points at which an extended set ends
  MatchFormats  \* "bo3", "bo5", or both

ASSUME RulesAssumption ==
  /\ GamePoint \in Nat /\ PointCap \in Nat
  /\ GamePoint >= 3 /\ PointCap >= GamePoint + 2
  /\ MatchFormats \subseteq {"bo3", "bo5"}

VARIABLES
  format,   \* the format of the match
  sheet,    \* the scores of the sets that are over
  score     \* the score of the set that is played

rulesVars == <<format, sheet, score>>

Sides == {"A", "B"}
Rival(team) == IF team = "A" THEN "B" ELSE "A"
SetScores == [Sides -> 0..PointCap]
LoveAll == [t \in Sides |-> 0]

Higher(s) == IF s["A"] > s["B"] THEN s["A"] ELSE s["B"]
Lower(s)  == IF s["A"] > s["B"] THEN s["B"] ELSE s["A"]

-----------------------------------------------------------------------------
(* How a sheet is read                                                     *)

SetsNeeded == IF format = "bo5" THEN 3 ELSE 2

\* completedSetWinner
CompletedSet(s) ==
  \/ Higher(s) = GamePoint /\ Lower(s) <= GamePoint - 2
  \/ Higher(s) \in GamePoint + 1 .. PointCap /\ Higher(s) - Lower(s) = 2
  \/ Higher(s) = PointCap /\ Lower(s) = PointCap - 1

SetWinner(s, team) == CompletedSet(s) /\ s[team] > s[Rival(team)]

\* A mutant: an extended set may not be interrupted when it is level.
UnfinishedWithLeader(s) ==
  \/ Higher(s) <= GamePoint - 1
  \/ Higher(s) <= PointCap - 1 /\ Higher(s) - Lower(s) = 1

ReachableUnfinished(s) ==
  \/ Higher(s) <= GamePoint - 1
  \/ Higher(s) <= PointCap - 1 /\ Higher(s) - Lower(s) <= 1

SetsWon(team, ss) == Cardinality({i \in DOMAIN ss : SetWinner(ss[i], team)})

\* The sheets that inferMatchOutcome does not refuse.
AcceptedSheet(ss) ==
  /\ Len(ss) \in 1 .. 2 * SetsNeeded - 1
  /\ \A i \in DOMAIN ss :
       /\ \A t \in Sides : SetsWon(t, SubSeq(ss, 1, i - 1)) < SetsNeeded
       /\ CompletedSet(ss[i]) \/ (i = Len(ss) /\ ReachableUnfinished(ss[i]))

Leads(team, ss) ==
  LET last  == ss[Len(ss)]
      own   == SetsWon(team, ss)
      rival == SetsWon(Rival(team), ss)
  IN  \/ own > rival
      \/ own = rival /\ ~CompletedSet(last) /\ last[team] > last[Rival(team)]

WinOf(team) == IF team = "A" THEN "TEAM_A_WIN" ELSE "TEAM_B_WIN"

InferMatchOutcome(ss) ==
  CASE Leads("A", ss) -> WinOf("A")
    [] Leads("B", ss) -> WinOf("B")
    [] OTHER -> "NO_RESULT"

-----------------------------------------------------------------------------
(* How the money is divided                                                *)

LoserPart(ratio) == CASE ratio = "5:5" -> 5 [] ratio = "6:4" -> 6 [] ratio = "7:3" -> 7

\* calculateMatchFunding, for a match of `places` players
CalculateMatchFunding(price, ratio, places) ==
  LET reserve == (price * (LoserPart(ratio) - (10 - LoserPart(ratio)))) \div 10
      total   == price + reserve
      fee     == total \div places
  IN  [resultReserve |-> reserve, totalContribution |-> total, feePerSlot |-> fee,
       organizerContribution |-> total - fee * (places - 1)]

\* What a team gets of the reserve, and the k-th member of a team of n.
TeamAmount(reserve, outcome, team) ==
  CASE outcome = "NO_RESULT" ->
         (IF team = "A" THEN reserve \div 2 ELSE reserve - reserve \div 2)
    [] outcome = "TEAM_A_WIN" -> (IF team = "A" THEN reserve ELSE 0)
    [] outcome = "TEAM_B_WIN" -> (IF team = "B" THEN reserve ELSE 0)

MemberShare(amount, n, k) ==
  LET share == amount \div n IN
  IF k = 1 THEN share + (amount - share * n) ELSE share

-----------------------------------------------------------------------------
(* A match that is played by the laws of badminton                         *)

\* A set is won by the first to reach GamePoint two ahead, or else by the
\* first to lead by two, or to reach the cap.
GameOver(s) ==
  \/ Higher(s) >= GamePoint /\ Higher(s) - Lower(s) >= 2
  \/ Higher(s) = PointCap

GamesOf(team) == Cardinality({i \in DOMAIN sheet : sheet[i][team] > sheet[i][Rival(team)]})

MatchOver == \E t \in Sides : GamesOf(t) = SetsNeeded

RulesInit ==
  /\ format \in MatchFormats
  /\ sheet = << >> /\ score = LoveAll

WinRally(team) ==
  /\ ~MatchOver
  /\ LET s == [score EXCEPT ![team] = @ + 1] IN
     IF GameOver(s) THEN sheet' = Append(sheet, s) /\ score' = LoveAll
                    ELSE score' = s /\ UNCHANGED sheet
  /\ UNCHANGED format

RulesNext == \E t \in Sides : WinRally(t)

RulesSpec == RulesInit /\ [][RulesNext]_rulesVars

-----------------------------------------------------------------------------
(* Properties                                                              *)

\* What the players may write down when they stop: the sets that are over,
\* and the one that is played, if a rally of it was.
Declared ==
  IF sheet # << >> /\ score = LoveAll THEN sheet ELSE Append(sheet, score)

\* Who is ahead in the game.
Ahead(team) ==
  \/ GamesOf(team) > GamesOf(Rival(team))
  \/ GamesOf(team) = GamesOf(Rival(team)) /\ score[team] > score[Rival(team)]

\* A score that could come after the sets that are over: no rally was won in
\* it, or the rally before the last left a score that could come, and the set
\* not over.
CouldCome(s) ==
  \/ s = LoveAll
  \/ \E t \in Sides :
       LET before == [s EXCEPT ![t] = @ - 1] IN
       s[t] > 0 /\ ~GameOver(before) /\ AcceptedSheet(Append(sheet, before))

\* The part of it that is said of one set: a set that is over is completed for
\* the code, and one that is not is unfinished for it and has no winner.
SetsAreRead ==
  /\ \A i \in DOMAIN sheet : CompletedSet(sheet[i])
  /\ ReachableUnfinished(score) /\ ~CompletedSet(score)

\* Every score of a match that can be played is accepted, at any moment the
\* players stop, and gives the match to the side that is ahead; and no other
\* score is accepted (inferMatchOutcome, BR-CM-24).
SheetsAreThoseOfPlay ==
  /\ AcceptedSheet(Declared)
  /\ LET outcome == InferMatchOutcome(Declared) IN
     \A t \in Sides : outcome = WinOf(t) <=> Ahead(t)
  /\ score = LoveAll =>
       \A s \in SetScores :
         AcceptedSheet(Append(sheet, s)) => ~MatchOver /\ CouldCome(s)
=============================================================================
