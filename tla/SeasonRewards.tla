----------------------------- MODULE SeasonRewards -----------------------------
(***************************************************************************)
(* From the results of a season to its prizes.  The transaction that makes *)
(* a result final decides, under the locks of the players, for whom it is  *)
(* rated (ratedResults), and sends a signal for each of them; the consumer *)
(* of the signals writes the ratings (passport).  The sweeper of a reward  *)
(* programme waits until nothing of its window is pending, computes the    *)
(* prizes and leaves them to the administrator (rewards); finance collects *)
(* the bank details of the winners and records the transfers               *)
(* (rewardPayout).                                                         *)
(*                                                                         *)
(* Abstractions: one programme, of the discipline, band and region of all  *)
(* the matches; a rating is the sequence of the results it was computed    *)
(* from; matches are numbered in the order of their ids.  A ranked match   *)
(* that will be played is confirmed before the programme ends.             *)
(***************************************************************************)
EXTENDS Integers, FiniteSets, SequencesExt

CONSTANTS Contestants,   \* users
          Fixtures,      \* matches
          Team,          \* the two teams of a match, by side
          Newcomers,     \* users who may not have declared a level yet
          RankedOnes,    \* matches of mode ranked; the others are friendly
          EndAt,         \* when a match ends
          Window,        \* startAt and endAt of the programme
          RepeatWindow,  \* time before the same opponents count again
          ClaimWindow,   \* time a winner has to give his details
          LastHour       \* bound on the clock

ASSUME SeasonAssumption ==
  /\ Fixtures \subseteq Nat /\ IsFiniteSet(Fixtures)
  /\ RankedOnes \subseteq Fixtures /\ Newcomers \subseteq Contestants
  /\ Team \in [Fixtures -> [{"A", "B"} -> SUBSET Contestants]]
  /\ \A f \in Fixtures : Team[f]["A"] \intersect Team[f]["B"] = {}
  /\ EndAt \in [Fixtures -> Nat]
  /\ Window.from \in Nat /\ Window.to \in Nat
  /\ RepeatWindow \in Nat /\ ClaimWindow \in Nat /\ LastHour \in Nat

VARIABLES
  hour,        \* the clock
  passports,   \* users with a passport of the discipline
  verdict,     \* the result of a match
  encounters,  \* rated_encounters
  signals,     \* RatingPeriodReady events on their way
  rating,      \* match_rating_changes of a user, in the order of writing
  programme,   \* the row of reward_programs
  sweep,       \* what the transaction of the sweeper reads next
  awards,      \* the results the prizes were computed from
  payout,      \* reward_payouts
  informing,   \* requests with bank details, before they get the lock
  expiring     \* payouts that cancelExpiredClaims has found

ratingVars == <<passports, verdict, encounters, signals, rating>>
programmeVars == <<programme, sweep, awards>>
payoutVars == <<payout, informing, expiring>>
seasonVars == <<hour, ratingVars, programmeVars, payoutVars>>

Of(f) == Team[f]["A"] \union Team[f]["B"]
OpponentsIn(f, u) == IF u \in Team[f]["A"] THEN Team[f]["B"] ELSE Team[f]["A"]
NoTime == LastHour + 1
Hours == 0..LastHour
InWindow(f) == f \in RankedOnes /\ EndAt[f] \in Window.from..Window.to

Encounter == [fixture : Fixtures, user : Contestants, rated : BOOLEAN,
              opponents : SUBSET Contestants, at : Hours]
Results == {"none", "A", "B", "NO_RESULT"}

SeasonTypeOK ==
  /\ hour \in Hours
  /\ passports \subseteq Contestants
  /\ verdict \in [Fixtures -> [status : {"open", "closing", "final"},
                               outcome : Results, at : Hours \union {NoTime}]]
  /\ encounters \subseteq Encounter
  /\ signals \subseteq Fixtures \X Contestants
  /\ rating \in [Contestants -> Seq(Fixtures)]
  /\ programme \in [status : {"draft", "scheduled", "active", "reconciling", "cancelled",
                              "awaiting_admin_approval", "final"},
                    deadline : Nat]
  /\ sweep \in {"idle", "unresolved", "unwritten", "score"}
  /\ awards \subseteq Fixtures \X Contestants
  /\ payout \in [Contestants -> {"none", "awaiting_information", "ready_to_pay",
                                 "paid", "cancelled"}]
  /\ informing \subseteq Contestants /\ expiring \subseteq Contestants

-----------------------------------------------------------------------------
(* Results and ratings                                                     *)

\* declareTier: once; ranked matches are closed to users without a passport
DeclareTier(u) ==
  /\ u \notin passports
  /\ passports' = passports \union {u}
  /\ UNCHANGED <<hour, verdict, encounters, signals, rating, programmeVars, payoutVars>>

\* the request or the sweep that makes the result final has read its clock; it
\* still waits for the locks of the match and of the players
ReachVerdict(f, o) ==
  /\ verdict[f].status = "open" /\ hour >= EndAt[f]
  /\ verdict' = [verdict EXCEPT ![f] = [status |-> "closing", outcome |-> o, at |-> hour]]
  /\ UNCHANGED <<hour, passports, encounters, signals, rating, programmeVars, payoutVars>>

\* Mutant: only results that became final before this one count.
RecentOfYesterday(f, u, at) ==
  \E e \in encounters : /\ e.user = u /\ e.opponents = OpponentsIn(f, u)
                        /\ e.rated /\ e.at > at - RepeatWindow /\ e.at <= at

Recent(f, u, at) ==
  \E e \in encounters : /\ e.user = u /\ e.opponents = OpponentsIn(f, u)
                        /\ e.rated /\ e.at > at - RepeatWindow

\* reserveRatedResults: who is rated is decided here, once, for the whole match
IsRated(f, u, at) ==
  ~Recent(f, u, at) /\ u \in passports /\ OpponentsIn(f, u) \subseteq passports

ReserveRatedResults(f) ==
  LET at == verdict[f].at
      rows == {[fixture |-> f, user |-> u, rated |-> IsRated(f, u, at),
                opponents |-> OpponentsIn(f, u), at |-> at] : u \in Of(f)}
  IN
  /\ verdict[f].status = "closing"
  /\ verdict' = [verdict EXCEPT ![f].status = "final"]
  /\ IF verdict[f].outcome = "NO_RESULT"
     THEN UNCHANGED <<encounters, signals>>
     ELSE /\ encounters' = encounters \union rows
          /\ signals' = signals \union {<<f, e.user>> : e \in {x \in rows : x.rated}}
  /\ UNCHANGED <<hour, passports, rating, programmeVars, payoutVars>>

Unwritten(u) == {e \in encounters : /\ e.user = u /\ e.rated
                                    /\ ~Contains(rating[u], e.fixture)}

\* finalizedAt, then the id of the match
Before(d, e) == d.at < e.at \/ (d.at = e.at /\ d.fixture < e.fixture)

\* Mutant: only the match of the event is written.
PendingOfTheEvent(f, u) == {e \in Unwritten(u) : e.fixture = f}

\* applyRatedResultInTransaction: an event is only a signal; whatever of the
\* user is reserved and not written is written, in the order of finalizedAt
Pending(f, u) == Unwritten(u)

Chronological(rows) ==
  CHOOSE q \in [1..Cardinality(rows) -> rows] :
    /\ ToSet(q) = rows
    /\ \A i, j \in DOMAIN q : i < j => Before(q[i], q[j])

\* the event may be delivered again
HandleRatingPeriodReady(f, u, again) ==
  LET due == Chronological(Pending(f, u))
  IN
  /\ <<f, u>> \in signals
  /\ rating' = [rating EXCEPT ![u] = @ \o [i \in 1..Len(due) |-> due[i].fixture]]
  /\ signals' = IF again THEN signals ELSE signals \ {<<f, u>>}
  /\ UNCHANGED <<hour, passports, verdict, encounters, programmeVars, payoutVars>>

\* consumeMessage drops an event that has failed twice
DropSignal(s) ==
  /\ s \in signals /\ signals' = signals \ {s}
  /\ UNCHANGED <<hour, passports, verdict, encounters, rating, programmeVars, payoutVars>>

-----------------------------------------------------------------------------
(* The reward programme                                                    *)

PublishProgram ==
  /\ programme.status = "draft" /\ hour < Window.from
  /\ programme' = [programme EXCEPT !.status = "scheduled"]
  /\ UNCHANGED <<hour, ratingVars, sweep, awards, payoutVars>>

\* cancelProgram: waits for the lock that a sweep holds
CancelProgram ==
  /\ sweep = "idle" /\ programme.status \in {"draft", "scheduled", "active"}
  /\ programme' = [programme EXCEPT !.status = "cancelled"]
  /\ UNCHANGED <<hour, ratingVars, sweep, awards, payoutVars>>

\* sweepRewardPrograms: one transaction, whose statements each see what has
\* been committed before them
SweepPhase ==
  /\ sweep = "idle"
  /\ \/ /\ programme.status = "scheduled" /\ hour \in Window.from..Window.to
        /\ programme' = [programme EXCEPT !.status = "active"] /\ UNCHANGED sweep
     \/ /\ \/ programme.status \in {"scheduled", "active"} /\ hour > Window.to
           \/ programme.status = "reconciling"
        /\ programme' = [programme EXCEPT !.status = "reconciling"]
        /\ sweep' = "unresolved"
  /\ UNCHANGED <<hour, ratingVars, awards, payoutVars>>

NoUnresolved == \A f \in Fixtures : InWindow(f) => verdict[f].status = "final"
NoUnwritten == \A e \in encounters : e.rated /\ InWindow(e.fixture)
                                       => Contains(rating[e.user], e.fixture)

\* Mutant: the ratings are counted before the results.
NothingLeftSwapped(statement) ==
  IF statement = "unresolved" THEN NoUnwritten ELSE NoUnresolved

\* countPendingRatedWork: first the results, then the ratings they left to write
NothingLeft(statement) ==
  IF statement = "unresolved" THEN NoUnresolved ELSE NoUnwritten

CountUnresolved ==
  /\ sweep = "unresolved"
  /\ sweep' = IF NothingLeft(sweep) THEN "unwritten" ELSE "idle"
  /\ UNCHANGED <<hour, ratingVars, programme, awards, payoutVars>>

CountUnwritten ==
  /\ sweep = "unwritten"
  /\ sweep' = IF NothingLeft(sweep) THEN "score" ELSE "idle"
  /\ UNCHANGED <<hour, ratingVars, programme, awards, payoutVars>>

\* scoreProgram and allocatePrizes, from ratedChanges
ComputeAwards ==
  /\ sweep = "score" /\ sweep' = "idle"
  /\ awards' = UNION {{<<f, u>> : f \in {g \in Fixtures : Contains(rating[u], g) /\ InWindow(g)}}
                        : u \in Contestants}
  /\ programme' = [programme EXCEPT !.status = "awaiting_admin_approval"]
  /\ UNCHANGED <<hour, ratingVars, payoutVars>>

ApproveFinal ==
  /\ programme.status = "awaiting_admin_approval"
  /\ programme' = [status |-> "final", deadline |-> hour + ClaimWindow]
  /\ UNCHANGED <<hour, ratingVars, sweep, awards, payoutVars>>

-----------------------------------------------------------------------------
(* The payouts of finance                                                  *)

Winners == {u \in Contestants : \E f \in Fixtures :
              <<f, u>> \in awards /\ u \in Team[f][verdict[f].outcome]}

\* the event comes any number of times; a payout is made once for an award
HandleRewardAwardsFinalized ==
  /\ programme.status = "final"
  /\ payout' = [u \in Contestants |-> IF u \in Winners /\ payout[u] = "none"
                                      THEN "awaiting_information" ELSE payout[u]]
  /\ UNCHANGED <<hour, ratingVars, programmeVars, informing, expiring>>

\* the request reads its clock before it waits for the lock of the payout
GiveDetails(u) ==
  /\ u \notin informing /\ payout[u] = "awaiting_information" /\ hour < programme.deadline
  /\ informing' = informing \union {u}
  /\ UNCHANGED <<hour, ratingVars, programmeVars, payout, expiring>>

\* details may be replaced until the transfer is recorded
SubmitPayoutInformation(u) ==
  /\ u \in informing /\ informing' = informing \ {u}
  /\ payout' = [payout EXCEPT ![u] = IF @ = "awaiting_information" THEN "ready_to_pay" ELSE @]
  /\ UNCHANGED <<hour, ratingVars, programmeVars, expiring>>

FindExpiredClaims ==
  /\ expiring = {} /\ hour >= programme.deadline
  /\ expiring' = {u \in Contestants : payout[u] = "awaiting_information"}
  /\ UNCHANGED <<hour, ratingVars, programmeVars, payout, informing>>

\* updateMany looks at the status again
StillCancels(u) == payout[u] = "awaiting_information"

CancelExpiredClaim(u) ==
  /\ u \in expiring /\ expiring' = expiring \ {u}
  /\ payout' = [payout EXCEPT ![u] = IF StillCancels(u) THEN "cancelled" ELSE @]
  /\ UNCHANGED <<hour, ratingVars, programmeVars, informing>>

MarkPayoutPaid(u) ==
  /\ payout[u] = "ready_to_pay"
  /\ payout' = [payout EXCEPT ![u] = "paid"]
  /\ UNCHANGED <<hour, ratingVars, programmeVars, informing, expiring>>

HourPasses ==
  /\ hour < LastHour /\ hour' = hour + 1
  /\ UNCHANGED <<ratingVars, programmeVars, payoutVars>>

-----------------------------------------------------------------------------
SeasonInit ==
  /\ hour = 0
  /\ passports = Contestants \ Newcomers
  /\ verdict = [f \in Fixtures |-> [status |-> "open", outcome |-> "none", at |-> NoTime]]
  /\ encounters = {} /\ signals = {}
  /\ rating = [u \in Contestants |-> << >>]
  /\ programme = [status |-> "draft", deadline |-> NoTime]
  /\ sweep = "idle" /\ awards = {}
  /\ payout = [u \in Contestants |-> "none"] /\ informing = {} /\ expiring = {}

RatingNext ==
  \/ \E u \in Contestants : DeclareTier(u)
  \/ \E f \in Fixtures : \/ ReserveRatedResults(f)
                         \/ \E o \in Results \ {"none"} : ReachVerdict(f, o)
  \/ \E s \in signals, again \in BOOLEAN : HandleRatingPeriodReady(s[1], s[2], again)
  \/ \E s \in signals : DropSignal(s)

ProgrammeNext ==
  \/ PublishProgram \/ CancelProgram \/ SweepPhase \/ CountUnresolved \/ CountUnwritten
  \/ ComputeAwards \/ ApproveFinal

PayoutNext ==
  \/ HandleRewardAwardsFinalized \/ FindExpiredClaims
  \/ \E u \in Contestants : \/ GiveDetails(u) \/ SubmitPayoutInformation(u)
                            \/ CancelExpiredClaim(u) \/ MarkPayoutPaid(u)

SeasonNext == RatingNext \/ ProgrammeNext \/ PayoutNext \/ HourPasses

SeasonSpec == SeasonInit /\ [][SeasonNext]_seasonVars

-----------------------------------------------------------------------------
(* Properties                                                              *)

\* BR-CM-43 and 47: two rated results of a player against the same opponents are
\* at least the repeat window apart, in whichever order two finals that read the
\* clock at different moments got the locks of the players
RatedFarApart ==
  \A d, e \in encounters :
    d.rated /\ e.rated /\ d.user = e.user /\ d.opponents = e.opponents /\ d # e
      => d.at - e.at >= RepeatWindow \/ e.at - d.at >= RepeatWindow

\* BR-CM-65: prizes that wait for approval or are approved were computed from all
\* the results of the window: every ranked match is final, every rating it
\* reserved is written, and none was added after the prizes were computed, though
\* the sweeper reads results and ratings in separate statements and events are
\* late, repeated or dropped
AwardsAreComplete ==
  programme.status \in {"awaiting_admin_approval", "final"} =>
    /\ NoUnresolved
    /\ awards = {<<e.fixture, e.user>> : e \in {x \in encounters : x.rated /\ InWindow(x.fixture)}}

Follows(r, d, e) ==
  \E i, j \in DOMAIN r : r[i] = d.fixture /\ r[j] = e.fixture /\ i < j

KeepsOrder(u) ==
  LET written == ToSet(rating'[u]) \ ToSet(rating[u]) IN
  /\ IsInjective(rating'[u])
  /\ \A d, e \in {x \in encounters : x.user = u /\ x.rated} :
       e.fixture \in written /\ Before(d, e) => Follows(rating'[u], d, e)

\* BR-CM-43..48: a rating does not depend on the order of the signals: when a result
\* of a player is written, every result of his that is reserved with an earlier
\* finalizedAt is written before it, and none is written twice
NoResultIsSkipped == [][\A u \in Contestants : KeepsOrder(u)]_seasonVars

\* BR-CM-68: a claim made in time is paid in the end or stays payable, a claim
\* that has expired or was paid is not opened again: the sweeper may find a
\* payout before the winner gives his details and cancel it after
ClaimsAreKept ==
  [][\A u \in Contestants :
       /\ payout[u] = "ready_to_pay" => payout'[u] \in {"ready_to_pay", "paid"}
       /\ payout[u] \in {"paid", "cancelled"} => payout'[u] = payout[u]]_seasonVars
=============================================================================
