----------------------------- MODULE MCPlatform -----------------------------
(***************************************************************************)
(* Small instances of the components that share no state with the booking  *)
(* of a court.  A behaviour belongs to one of them, `part`, which is       *)
(* chosen at the start; the others keep their initial state, and the match *)
(* of MatchRules, while it is not looked at, the score of its first rally. *)
(***************************************************************************)
EXTENDS Shutdown, EventBus, IdleRelease, MatchResults, SeasonRewards, Accounts,
        Providers, PartnerInvites, MatchRules, TLC

CONSTANT Parts     \* the components that the run looks at

VARIABLE part

shutdownOthers  == <<busVars, idleVars, resultVars, seasonVars, accountsVars,
                     providersVars, invitesVars, rulesVars>>
busOthers       == <<shutdownVars, idleVars, resultVars, seasonVars, accountsVars,
                     providersVars, invitesVars, rulesVars>>
idleOthers      == <<shutdownVars, busVars, resultVars, seasonVars, accountsVars,
                     providersVars, invitesVars, rulesVars>>
resultOthers    == <<shutdownVars, busVars, idleVars, seasonVars, accountsVars,
                     providersVars, invitesVars, rulesVars>>
seasonOthers    == <<shutdownVars, busVars, idleVars, resultVars, accountsVars,
                     providersVars, invitesVars, rulesVars>>
accountsOthers  == <<shutdownVars, busVars, idleVars, resultVars, seasonVars,
                     providersVars, invitesVars, rulesVars>>
providersOthers == <<shutdownVars, busVars, idleVars, resultVars, seasonVars,
                     accountsVars, invitesVars, rulesVars>>
invitesOthers   == <<shutdownVars, busVars, idleVars, resultVars, seasonVars,
                     accountsVars, providersVars, rulesVars>>
rulesOthers     == <<shutdownVars, busVars, idleVars, resultVars, seasonVars,
                     accountsVars, providersVars, invitesVars>>

platformVars == <<part, shutdownVars, shutdownOthers>>

\* the match of MatchRules after one rally, which side A has won
FirstRally ==
  /\ format = CHOOSE f \in MatchFormats : TRUE
  /\ sheet = << >> /\ score = [LoveAll EXCEPT !["A"] = 1]

PlatformInit ==
  /\ part \in Parts
  /\ ShutdownInit /\ BusInit /\ IdleInit /\ MatchResultsInit /\ SeasonInit
  /\ AccountsInit /\ ProvidersInit /\ InvitesInit
  /\ part # "results" => kase.rules = "ra_v1"
  /\ IF part = "rules" THEN RulesInit ELSE FirstRally

PlatformNext ==
  \/ part = "shutdown" /\ ShutdownNext /\ UNCHANGED <<part, shutdownOthers>>
  \/ part = "bus" /\ BusNext /\ UNCHANGED <<part, busOthers>>
  \/ part = "idle" /\ IdleNext /\ UNCHANGED <<part, idleOthers>>
  \/ part = "results" /\ MatchResultsNext /\ UNCHANGED <<part, resultOthers>>
  \/ part = "season" /\ SeasonNext /\ UNCHANGED <<part, seasonOthers>>
  \/ part = "accounts" /\ AccountsNext /\ UNCHANGED <<part, accountsOthers>>
  \/ part = "providers" /\ ProvidersNext /\ UNCHANGED <<part, providersOthers>>
  \/ part = "invites" /\ InvitesNext /\ UNCHANGED <<part, invitesOthers>>
  \/ part = "rules" /\ RulesNext /\ UNCHANGED <<part, rulesOthers>>

PlatformSpec == PlatformInit /\ [][PlatformNext]_platformVars

-----------------------------------------------------------------------------
(* Values of the constants                                                 *)

\* one player against two, of whom the second was paid for by the first
MCPaidBy == [p \in Members |-> IF p = "b2" THEN "b1" ELSE p]

\* the same two players meet twice, within the window of a repeated pair
MCTeam == [f \in Fixtures |-> ("A" :> {"p1"}) @@ ("B" :> {"p2"})]
MCEndAt == [f \in Fixtures |-> 1]
MCWindow == [from |-> 1, to |-> 1]

\* A behaviour uses the courts or the players, so they may as well change
\* places together: a smaller group, and no fewer states alike.
Together(S, T) ==
  {f \in Permutations(S \cup T) :
     /\ {f[x] : x \in S} = S
     /\ (\A x \in S : f[x] = x) <=> (\A y \in T : f[y] = y)}

PlatformSymmetry == Permutations(Orders) \cup Together(Grounds, Players)
=============================================================================
