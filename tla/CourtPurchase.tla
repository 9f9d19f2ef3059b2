---------------------------- MODULE CourtPurchase ----------------------------
(***************************************************************************)
(* What the platform promises to a group of players who buy a court        *)
(* together, as they see it: no services, commands, revisions or events.   *)
(* Money that a player puts in is spent, with that of all others and at    *)
(* the full price, on a court that was bought; or it is given back.  The   *)
(* court is bought only while the whole price is committed, and from then  *)
(* on the money is neither given back to all nor freed, unless the court   *)
(* is cancelled.  A court that is gone, or cancelled, is never bought.     *)
(*                                                                         *)
(* The court of an owner who has paid for it before is bought from the     *)
(* beginning: he puts no money in, and the others pay their part of it.    *)
(***************************************************************************)
CONSTANTS Guests, Host,   \* who may put money in
          Parties         \* the sets of guests that share the price with the host

VARIABLES
  owned,     \* the host owns the court beforehand
  court,     \* "free", "bought", "cancelled" after it was bought, or "gone"
  funds,     \* "open", "committed", "spent" or "closed"
  share,     \* the money of each player: "out", "in", "spent" or "back"
  pledged    \* players whose payment has been let through

purchaseVars == <<owned, court, funds, share, pledged>>

Backers == Guests \cup {Host}

Init ==
  /\ owned \in BOOLEAN
  /\ court = IF owned THEN "bought" ELSE "free"
  /\ funds = "open"
  /\ share = [p \in Backers |-> "out"] /\ pledged = {}

\* everybody's money that is in one place goes to another
Move(from, to) == share' = [p \in Backers |-> IF share[p] = from THEN to ELSE share[p]]

\* the whole price is there, and no more
PriceIsIn ==
  /\ {g \in Guests : share[g] = "in"} \in Parties
  /\ owned \/ share[Host] = "in"

Pledge(p) ==
  /\ funds = "open" /\ share[p] = "out"
  /\ pledged' = pledged \cup {p}
  /\ UNCHANGED <<owned, court, funds, share>>

\* it may come in late, when the money of the others is spent or given back
Pay(p) ==
  /\ p \in pledged /\ share[p] = "out"
  /\ pledged' = pledged \ {p}
  /\ share' = [share EXCEPT ![p] = "in"]
  /\ UNCHANGED <<owned, court, funds>>

\* a guest who leaves, or for whom there is no place: also one whose leave was
\* granted before the money of the others bought the court
GiveBack(g) ==
  /\ share[g] = "in" /\ share' = [share EXCEPT ![g] = "back"]
  /\ UNCHANGED <<owned, court, funds, pledged>>

Commit ==
  /\ funds = "open" /\ ~owned /\ PriceIsIn
  /\ funds' = "committed"
  /\ UNCHANGED <<owned, court, share, pledged>>

Free ==
  /\ funds = "committed" /\ court # "bought"
  /\ funds' = "open"
  /\ UNCHANGED <<owned, court, share, pledged>>

Buy ==
  /\ court = "free" /\ funds = "committed"
  /\ court' = "bought"
  /\ UNCHANGED <<owned, funds, share, pledged>>

Lose ==
  /\ \/ court = "free" /\ court' = "gone"
     \/ court = "bought" /\ court' = "cancelled"
  /\ UNCHANGED <<owned, funds, share, pledged>>

Spend ==
  /\ funds = IF owned THEN "open" ELSE "committed"
  /\ PriceIsIn /\ court \in {"bought", "cancelled"}
  /\ funds' = "spent" /\ Move("in", "spent")
  /\ UNCHANGED <<owned, court, pledged>>

Close ==
  /\ funds \in {"open", "committed"} /\ (owned \/ court # "bought")
  /\ funds' = "closed" /\ Move("in", "back")
  /\ UNCHANGED <<owned, court, pledged>>

\* the court was paid for and is cancelled
Undo ==
  /\ funds = "spent" /\ court = "cancelled"
  /\ funds' = "closed" /\ Move("spent", "back")
  /\ UNCHANGED <<owned, court, pledged>>

Next ==
  \/ \E p \in Backers : Pledge(p) \/ Pay(p)
  \/ \E g \in Guests : GiveBack(g)
  \/ Commit \/ Free \/ Buy \/ Lose \/ Spend \/ Close \/ Undo

Spec == Init /\ [][Next]_purchaseVars
=============================================================================
