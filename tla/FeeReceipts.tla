----------------------------- MODULE FeeReceipts -----------------------------
(***************************************************************************)
(* Money that comes into finance-service by bank transfer, except for      *)
(* bookings: the topup and match-fee branches of SePay's webhook, while    *)
(* the same fee may be paid from the balance, the match be cancelled or    *)
(* settled, and the window of payment close.                               *)
(*                                                                         *)
(* SePay repeats a call that is not answered, also while it is running.    *)
(* A call looks at the receipt, its intent and the contribution without a  *)
(* lock (Look), which decides the transaction it will run; the transaction *)
(* locks the receipt and the intent and looks again.                       *)
(*                                                                         *)
(* One player and one contribution.  That a cancellation may come between  *)
(* the last read and the commit of a payment from the balance is the       *)
(* subject of MatchFunding.                                                *)
(***************************************************************************)
EXTENDS Integers, FiniteSets, FiniteSetsExt

CONSTANTS
  Receipts,        \* bank transfers, named by their externalRef
  FeeIntents,      \* payment_intents of the contribution
  TopupIntents,    \* payment_intents of a topup
  NoCode,          \* the code of a transfer that names no intent
  ContributionFee, \* the amount of the contribution
  ReceiptAmounts,  \* amounts of bank transfers
  OpeningBalance   \* what the player has at first

ASSUME ReceiptsAssumption ==
  /\ IsFiniteSet(Receipts)
  /\ ContributionFee \in Nat \ {0} /\ OpeningBalance \in Nat
  /\ ReceiptAmounts \subseteq Nat \ {0}
  /\ FeeIntents \cap TopupIntents = {} /\ NoCode \notin FeeIntents \cup TopupIntents

VARIABLES
  contribution,  \* match_contributions.status
  collecting,    \* match_fundings.status is collecting
  inTime,        \* neither expiresAt nor cutoffAt has passed
  intents,       \* payment_intents.status, "none" without a row
  asking,        \* requests for a fee intent that found none pending
  bank,          \* the transfers that were made
  calls,         \* calls of the webhook between the first look and the commit
  booked,        \* sepay_events with their sepay_allocations
  answered,      \* receipts of which SePay has got a success
  balance        \* wallets.available of the player

receiptsVars == <<contribution, collecting, inTime, intents, asking, bank, calls,
                  booked, answered, balance>>

Intents == FeeIntents \cup TopupIntents
Routes  == {"additional", "unmatched", "topup", "late", "full", "part"}
NotMade == [code |-> NoCode, amount |-> 0]

\* What a receipt was booked as: the fee it paid, and what the player got.
Booking(status, fee, credit) == [status |-> status, fee |-> fee, credit |-> credit]
NotBooked == Booking("none", 0, 0)

ReceiptsTypeOK ==
  /\ contribution \in {"pending", "paid", "refunded", "settled"}
  /\ collecting \in BOOLEAN /\ inTime \in BOOLEAN
  /\ intents \in [Intents -> {"none", "pending", "completed", "failed"}]
  /\ asking \subseteq FeeIntents
  /\ bank \in [Receipts -> [code : Intents \cup {NoCode}, amount : Nat]]
  /\ calls \subseteq [receipt : Receipts, route : Routes]
  /\ booked \in [Receipts -> [status : {"none", "unmatched", "matched"},
                              fee : Nat, credit : Nat]]
  /\ answered \subseteq Receipts
  /\ balance \in Nat

-----------------------------------------------------------------------------
(* The contribution                                                        *)

PayableNow == contribution = "pending" /\ collecting /\ inTime

\* payMatchContributionWithBalance judges the window by the clock at the start
\* of the request, however long it waits for the wallet.
PayFeeWithBalance ==
  /\ contribution = "pending" /\ collecting /\ balance >= ContributionFee
  /\ contribution' = "paid" /\ balance' = balance - ContributionFee
  /\ UNCHANGED <<collecting, inTime, intents, asking, bank, calls, booked, answered>>

\* refundPaidContribution, for one JOIN or for the cancelled match
RefundFee ==
  /\ contribution' = IF contribution = "paid" THEN "refunded" ELSE contribution
  /\ balance' = IF contribution = "paid" THEN balance + ContributionFee ELSE balance
  /\ UNCHANGED <<inTime, intents, asking, bank, calls, booked, answered>>

RefundOneFee == contribution = "paid" /\ RefundFee /\ UNCHANGED collecting

\* The match is cancelled while fees are collected or the court is asked for.
CancelFunding ==
  /\ collecting \/ contribution = "paid"
  /\ collecting' = FALSE /\ RefundFee

\* handleMatchConfirmed stops collecting; venue's answer settles the fee.
BeginSettlement ==
  /\ collecting /\ contribution = "paid" /\ collecting' = FALSE
  /\ UNCHANGED <<contribution, inTime, intents, asking, bank, calls, booked,
                 answered, balance>>

SettleFee ==
  /\ ~collecting /\ contribution = "paid" /\ contribution' = "settled"
  /\ UNCHANGED <<collecting, inTime, intents, asking, bank, calls, booked,
                 answered, balance>>

FeeWindowEnds ==
  /\ inTime /\ inTime' = FALSE
  /\ UNCHANGED <<contribution, collecting, intents, asking, bank, calls, booked,
                 answered, balance>>

-----------------------------------------------------------------------------
(* Intents and transfers                                                   *)

\* createMatchContributionSepayIntent returns the pending intent of the
\* contribution if it finds one; two requests may both find none.
AskForFeeIntent(i) ==
  /\ PayableNow /\ intents[i] = "none" /\ i \notin asking
  /\ \A other \in FeeIntents : intents[other] # "pending"
  /\ asking' = asking \cup {i}
  /\ UNCHANGED <<contribution, collecting, inTime, intents, bank, calls, booked,
                 answered, balance>>

CreateFeeIntent(i) ==
  /\ i \in asking
  /\ asking' = asking \ {i} /\ intents' = [intents EXCEPT ![i] = "pending"]
  /\ UNCHANGED <<contribution, collecting, inTime, bank, calls, booked, answered, balance>>

CreateTopupIntent(i) ==
  /\ intents[i] = "none"
  /\ intents' = [intents EXCEPT ![i] = "pending"]
  /\ UNCHANGED <<contribution, collecting, inTime, asking, bank, calls, booked,
                 answered, balance>>

PayIn(r, code, amount) ==
  /\ bank[r] = NotMade
  /\ code \in Intents => intents[code] # "none"
  /\ bank' = [bank EXCEPT ![r] = [code |-> code, amount |-> amount]]
  /\ UNCHANGED <<contribution, collecting, inTime, intents, asking, calls, booked,
                 answered, balance>>

-----------------------------------------------------------------------------
(* The webhook                                                             *)

\* What the first look finds to do with a receipt.
RouteOf(r) ==
  LET code == bank[r].code IN
  CASE code = NoCode -> "unmatched"
    [] code \in TopupIntents -> (IF intents[code] = "pending" THEN "topup" ELSE "unmatched")
    [] code \in FeeIntents ->
         (CASE intents[code] # "pending" -> "additional"
            [] intents[code] = "pending" /\ ~PayableNow -> "late"
            [] intents[code] = "pending" /\ PayableNow ->
                 (IF bank[r].amount >= ContributionFee THEN "full" ELSE "part"))

Look(r) ==
  /\ bank[r] # NotMade /\ booked[r] = NotBooked
  /\ calls' = calls \cup {[receipt |-> r, route |-> RouteOf(r)]}
  /\ UNCHANGED <<contribution, collecting, inTime, intents, asking, bank, booked,
                 answered, balance>>

\* A call of a receipt that is booked ends with a success and does nothing.
AlreadyBooked(r) == booked[r] # NotBooked

AnswerCall(c) == calls' = calls \ {c} /\ answered' = answered \cup {c.receipt}

\* The books of a receipt: its row, and the credit of the player.
Book(r, status, fee, credit) ==
  /\ booked' = [booked EXCEPT ![r] = Booking(status, fee, credit)]
  /\ balance' = balance + credit

AnswerRepeat(c) ==
  /\ AlreadyBooked(c.receipt) /\ AnswerCall(c)
  /\ UNCHANGED <<contribution, collecting, inTime, intents, asking, bank, booked, balance>>

\* The transactions of a first call; `code` is the intent of the receipt.
Handle(c, routes) ==
  /\ c.route \in routes /\ ~AlreadyBooked(c.receipt) /\ AnswerCall(c)
  /\ UNCHANGED <<collecting, inTime, asking, bank>>

RecordUnmatchedReceipt(c) ==
  /\ Handle(c, {"unmatched"})
  /\ Book(c.receipt, "unmatched", 0, 0)
  /\ UNCHANGED <<contribution, intents>>

\* A topup is credited with what was received; a second transfer with its code
\* waits for an administrator (lockPendingIntent).
CreditTopup(c) ==
  /\ Handle(c, {"topup"})
  /\ LET code == bank[c.receipt].code IN
     IF intents[code] = "pending"
     THEN /\ Book(c.receipt, "matched", 0, bank[c.receipt].amount)
          /\ intents' = [intents EXCEPT ![code] = "completed"]
     ELSE Book(c.receipt, "unmatched", 0, 0) /\ UNCHANGED intents
  /\ UNCHANGED contribution

\* A mutant: what comes for an intent that is done is taken for a repeat.
NothingForDoneIntent(c) ==
  /\ Handle(c, {"additional", "late", "full", "part"})
  /\ c.route = "additional" \/ intents[bank[c.receipt].code] # "pending"
  /\ UNCHANGED <<contribution, intents, booked, balance>>

\* creditAdditionalMatchFeeReceipt: the intent is completed or failed.
CreditAdditionalReceipt(c) ==
  /\ Handle(c, {"additional", "late", "full", "part"})
  /\ c.route = "additional" \/ intents[bank[c.receipt].code] # "pending"
  /\ Book(c.receipt, "matched", 0, bank[c.receipt].amount)
  /\ UNCHANGED <<contribution, intents>>

\* creditLateMatchFee: found late by the first look, or by the second.
CreditLateFee(c) ==
  LET code == bank[c.receipt].code IN
  /\ Handle(c, {"late", "full", "part"})
  /\ intents[code] = "pending" /\ (c.route = "late" \/ ~PayableNow)
  /\ Book(c.receipt, "matched", 0, bank[c.receipt].amount)
  /\ intents' = [intents EXCEPT ![code] = "failed"]
  /\ UNCHANGED contribution

\* reserveMatchContributionFromSepay, and the excess back to the player.
ReserveFee(c) ==
  LET code == bank[c.receipt].code IN
  /\ Handle(c, {"full"})
  /\ intents[code] = "pending" /\ PayableNow
  /\ contribution' = "paid"
  /\ Book(c.receipt, "matched", ContributionFee, bank[c.receipt].amount - ContributionFee)
  /\ intents' = [intents EXCEPT ![code] = "completed"]

\* Less than the fee is credited, and the intent stays pending.
CreditPartOfFee(c) ==
  /\ Handle(c, {"part"})
  /\ intents[bank[c.receipt].code] = "pending" /\ PayableNow
  /\ Book(c.receipt, "matched", 0, bank[c.receipt].amount)
  /\ UNCHANGED <<contribution, intents>>

\* A crash; or reserveContribution refuses, because a payment from the balance
\* or the end of the window came after the second look. SePay will call again.
CallFails(c) ==
  /\ calls' = calls \ {c}
  /\ UNCHANGED <<contribution, collecting, inTime, intents, asking, bank, booked,
                 answered, balance>>

-----------------------------------------------------------------------------
(* Specification                                                           *)

ReceiptsInit ==
  /\ contribution = "pending" /\ collecting = TRUE /\ inTime = TRUE
  /\ intents = [i \in Intents |-> "none"] /\ asking = {}
  /\ bank = [r \in Receipts |-> NotMade]
  /\ calls = {} /\ booked = [r \in Receipts |-> NotBooked] /\ answered = {}
  /\ balance = OpeningBalance

ReceiptsNext ==
  \/ PayFeeWithBalance
  \/ RefundOneFee
  \/ CancelFunding
  \/ BeginSettlement
  \/ SettleFee
  \/ FeeWindowEnds
  \/ \E i \in FeeIntents : AskForFeeIntent(i)
  \/ \E i \in FeeIntents : CreateFeeIntent(i)
  \/ \E i \in TopupIntents : CreateTopupIntent(i)
  \/ \E r \in Receipts, code \in Intents \cup {NoCode}, amount \in ReceiptAmounts :
       PayIn(r, code, amount)
  \/ \E r \in Receipts : Look(r)
  \/ \E c \in calls : AnswerRepeat(c)
  \/ \E c \in calls : RecordUnmatchedReceipt(c)
  \/ \E c \in calls : CreditTopup(c)
  \/ \E c \in calls : CreditAdditionalReceipt(c)
  \/ \E c \in calls : CreditLateFee(c)
  \/ \E c \in calls : ReserveFee(c)
  \/ \E c \in calls : CreditPartOfFee(c)
  \/ \E c \in calls : CallFails(c)

ReceiptsSpec == ReceiptsInit /\ [][ReceiptsNext]_receiptsVars

-----------------------------------------------------------------------------
(* Properties                                                              *)

MatchedReceipts == {r \in Receipts : booked[r].status = "matched"}
FeeHeld == IF contribution \in {"paid", "settled"} THEN ContributionFee ELSE 0

\* What each transfer has brought the player.
Received == [r \in Receipts |-> IF r \in MatchedReceipts THEN bank[r].amount ELSE 0]

\* A transfer that SePay was told has been dealt with is booked, and all that
\* was received by matched transfers is in the balance of the player or in the
\* one fee he owes, whichever way and however often he paid it.
ReceiptsAreBooked ==
  /\ \A r \in answered : booked[r] # NotBooked
  /\ \A r \in MatchedReceipts : booked[r].fee + booked[r].credit = bank[r].amount
  /\ balance + FeeHeld = OpeningBalance + SumFunction(Received)
=============================================================================
