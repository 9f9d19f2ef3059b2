------------------------------- MODULE MCMoney -------------------------------
(***************************************************************************)
(* Small instances of the components of finance beside the payment of      *)
(* bookings: withdrawals, the funding of matches, and the receipts of      *)
(* topups and match fees.  A behaviour belongs to one of them, `part`; the *)
(* others keep their initial state.                                        *)
(***************************************************************************)
EXTENDS MCWithdrawals, MatchFunding, FeeReceipts

CONSTANT Parts     \* the components that the run looks at

VARIABLE part

MoneyInit ==
  /\ part \in Parts /\ Init /\ MatchInit /\ ReceiptsInit
  /\ part # "funding" => source = "hold"

MoneyNext ==
  \/ part = "withdrawals" /\ Next /\ UNCHANGED <<part, fundingVars, receiptsVars>>
  \/ part = "funding" /\ MatchNext /\ UNCHANGED <<part, vars, receiptsVars>>
  \/ part = "receipts" /\ ReceiptsNext /\ UNCHANGED <<part, vars, fundingVars>>

MoneySpec == MoneyInit /\ [][MoneyNext]_<<part, vars, fundingVars, receiptsVars>>

\* A behaviour uses the values of one part only, so pairs of values of several
\* parts may as well change places together: a smaller group, and no fewer
\* states alike.
Together(pairs) ==
  {f \in Permutations(UNION pairs) :
     /\ \A S \in pairs : {f[x] : x \in S} = S
     /\ (\A x \in UNION pairs : f[x] = x) \/ (\A x \in UNION pairs : f[x] # x)}

MoneySymmetry == Together({Requests, Joins, FeeIntents})
                   \cup Together({Transfers, Commands, Receipts})
=============================================================================
