----------------------------- MODULE Withdrawals -----------------------------
(***************************************************************************)
(* Taking money out of the platform: finance-service's withdrawal          *)
(* requests, the bank transfers an administrator makes for them, and the   *)
(* reconciliation of the transfers SePay reports.                          *)
(*                                                                         *)
(* A request moves money from available to reserved.  The administrator    *)
(* transfers it at the bank with the code of the request; the webhook of   *)
(* an outgoing transfer pays the request out if amount and code agree, and *)
(* leaves the transfer unmatched otherwise, to be assigned by hand.  Until *)
(* something is paid out the request may be cancelled or rejected.         *)
(*                                                                         *)
(* Every handler takes its locks and then reads and writes, and is one     *)
(* action, but handleOutgoingTransfer: it reads the request, waits for the *)
(* lock of the request and reads again.                                    *)
(***************************************************************************)
EXTENDS Integers, FiniteSets, FiniteSetsExt

CONSTANTS
  PersonalWallets,   \* wallets of players
  BusinessWallets,   \* wallets of providers
  Requests,          \* ids (and transfer codes) of withdrawal requests
  Transfers,         \* bank transfers, named by their externalRef
  NoRequest,         \* a request that was not made; a code that is not known
  NoTransfer,        \* a transfer that was not made
  NoEvent,           \* a transfer without a row in sepay_events
  GrossAmounts,      \* amounts that are asked for
  TransferAmounts,   \* amounts of bank transfers
  DailyFree,         \* PERSONAL_DAILY_FREE_WITHDRAWAL
  MaxEarned          \* bound on what a wallet earns from the platform

Wallets == PersonalWallets \cup BusinessWallets

\* MIN_WITHDRAWAL keeps the one per cent fee below the amount.
ASSUME AmountAssumption ==
  GrossAmounts \subseteq Nat \ {0} /\ TransferAmounts \subseteq Nat \ {0}
ASSUME BoundAssumption == DailyFree \in Nat /\ MaxEarned \in Nat
ASSUME FiniteAssumption == IsFiniteSet(Requests) /\ IsFiniteSet(Transfers)

VARIABLES
  available,     \* wallets.available
  withdrawable,  \* wallets.withdrawable, of players only
  reserved,      \* wallets.reserved
  platform,      \* the withdrawal fees in the wallet of the platform
  request,       \* withdrawal_requests
  today,         \* requests whose createdAt is of the current day
  transfer,      \* the bank: transfers that were made
  event,         \* sepay_events with their sepay_allocations
  checking,      \* webhooks that found their request payable
  earned         \* what a wallet got from the platform, less what it spent

walletVars == <<available, withdrawable, reserved, platform, earned>>
requestVars == <<request, today>>
bankVars == <<transfer, event, checking>>
vars == <<walletVars, requestVars, bankVars>>

-----------------------------------------------------------------------------
(* Types *)

\* manual: the part of paid that an administrator confirmed (finance_audits)
Request == [wallet : Wallets, amount : Nat, fee : Nat, paid : Nat, manual : Nat,
            status : {"pending", "partially_paid", "paid", "rejected"}]

Transfer == [direction : {"in", "out"}, code : Requests \cup {NoRequest},
             amount : TransferAmounts]

\* request and payout: the payout the event is matched with; other: the part
\* allocated as topup or as out of scope
SepayEvent == [status : {"unmatched", "matched", "out_of_scope"},
               request : Requests \cup {NoRequest}, payout : Nat, other : Nat]

\* A missing row is not mistaken for a row.
ASSUME RowAssumption ==
  /\ NoRequest \notin Requests /\ NoRequest \notin Request
  /\ NoTransfer \notin Transfer /\ NoEvent \notin SepayEvent

TypeOK ==
  /\ available \in [Wallets -> Nat]
  /\ withdrawable \in [Wallets -> Nat]
  /\ \A w \in Wallets \ PersonalWallets : withdrawable[w] = 0
  /\ reserved \in [Wallets -> Nat]
  /\ platform \in Nat
  /\ request \in [Requests -> Request \cup {NoRequest}]
  /\ today \subseteq {r \in Requests : request[r] # NoRequest}
  /\ transfer \in [Transfers -> Transfer \cup {NoTransfer}]
  /\ event \in [Transfers -> SepayEvent \cup {NoEvent}]
  /\ checking \subseteq Transfers
  /\ earned \in [Wallets -> Int]

Init ==
  /\ available = [w \in Wallets |-> 0]
  /\ withdrawable = [w \in Wallets |-> 0]
  /\ reserved = [w \in Wallets |-> 0]
  /\ platform = 0
  /\ request = [r \in Requests |-> NoRequest]
  /\ today = {}
  /\ transfer = [t \in Transfers |-> NoTransfer]
  /\ event = [t \in Transfers |-> NoEvent]
  /\ checking = {}
  /\ earned = [w \in Wallets |-> 0]

-----------------------------------------------------------------------------
(* The rest of the platform *)

\* A credit to a wallet: a refund, which is withdrawable, or a topup, which is
\* not, to a player, and released revenue to a provider.
Earn(w, amount, refund) ==
  /\ refund => w \in PersonalWallets
  /\ earned[w] + amount <= MaxEarned
  /\ refund => withdrawable[w] + amount <= available[w] + amount
  /\ available' = [available EXCEPT ![w] = @ + amount]
  /\ withdrawable' = [withdrawable EXCEPT ![w] = IF refund THEN @ + amount ELSE @]
  /\ earned' = [earned EXCEPT ![w] = @ + amount]
  /\ UNCHANGED <<reserved, platform, requestVars, bankVars>>

\* A payment by a player spends what is not withdrawable first.
Spend(w, amount) ==
  LET ordinary == available[w] - withdrawable[w]
      eligible == IF amount > ordinary THEN amount - ordinary ELSE 0
  IN
  /\ w \in PersonalWallets /\ available[w] >= amount
  /\ withdrawable[w] - eligible \in 0..(available[w] - amount)
  /\ available' = [available EXCEPT ![w] = @ - amount]
  /\ withdrawable' = [withdrawable EXCEPT ![w] = @ - eligible]
  /\ earned' = [earned EXCEPT ![w] = @ - amount]
  /\ UNCHANGED <<reserved, platform, requestVars, bankVars>>

\* midnight in Vietnam
NewDay ==
  /\ today # {}
  /\ today' = {}
  /\ UNCHANGED <<walletVars, request, bankVars>>

-----------------------------------------------------------------------------
(* Requests *)

Made(r) == request[r] # NoRequest

Open(r) == Made(r) /\ request[r].status \in {"pending", "partially_paid"}

Remaining(r) == request[r].amount - request[r].paid

HasOpenRequest(w) == \E r \in Requests : Open(r) /\ request[r].wallet = w

\* personalWithdrawnToday
KeptToday(w) == {r \in today : request[r].wallet = w /\ request[r].status # "rejected"}

\* the gross amounts of some requests
Gross(S) == SumFunction([r \in S |-> request[r].amount + request[r].fee])

WithdrawnToday(w) == Gross(KeptToday(w))

\* what gross exceeds the free allowance by, when withdrawn was taken before
Over(gross, withdrawn) ==
  LET left == IF withdrawn < DailyFree THEN DailyFree - withdrawn ELSE 0
  IN  IF gross > left THEN gross - left ELSE 0

\* personalWithdrawalFee: one per cent, rounded
Fee(w, gross) ==
  IF w \in PersonalWallets THEN (Over(gross, WithdrawnToday(w)) + 50) \div 100
  ELSE 0

\* Mutant: the withdrawable part of the wallet is left as it was.
CreateWithdrawalUnclamped(r, w, gross) ==
  LET fee == Fee(w, gross) IN
  /\ ~Made(r)
  /\ ~HasOpenRequest(w)
  /\ available[w] >= gross
  /\ request' = [request EXCEPT ![r] =
       [wallet |-> w, amount |-> gross - fee, fee |-> fee, paid |-> 0,
        manual |-> 0, status |-> "pending"]]
  /\ today' = today \cup {r}
  /\ available' = [available EXCEPT ![w] = @ - gross]
  /\ reserved' = [reserved EXCEPT ![w] = @ + (gross - fee)]
  /\ platform' = platform + fee
  /\ UNCHANGED <<withdrawable, earned, bankVars>>

\* createWithdrawal: the fee goes to the platform, the rest is reserved.
CreateWithdrawal(r, w, gross) ==
  LET fee == Fee(w, gross) IN
  /\ ~Made(r)
  /\ ~HasOpenRequest(w)
  /\ available[w] >= gross
  /\ request' = [request EXCEPT ![r] =
       [wallet |-> w, amount |-> gross - fee, fee |-> fee, paid |-> 0,
        manual |-> 0, status |-> "pending"]]
  /\ today' = today \cup {r}
  /\ available' = [available EXCEPT ![w] = @ - gross]
  /\ reserved' = [reserved EXCEPT ![w] = @ + (gross - fee)]
  /\ withdrawable' = IF w \in PersonalWallets /\ withdrawable[w] > available[w] - gross
                     THEN [withdrawable EXCEPT ![w] = available[w] - gross]
                     ELSE withdrawable
  /\ platform' = platform + fee
  /\ UNCHANGED <<earned, bankVars>>

\* Mutant: the fee stays with the platform.
ReverseWithoutFee(r) ==
  LET w == request[r].wallet IN
  /\ Made(r) /\ request[r].status = "pending" /\ request[r].paid = 0
  /\ reserved[w] >= request[r].amount /\ platform >= request[r].fee
  /\ request' = [request EXCEPT ![r].status = "rejected"]
  /\ reserved' = [reserved EXCEPT ![w] = @ - request[r].amount]
  /\ available' = [available EXCEPT ![w] = @ + request[r].amount]
  /\ UNCHANGED <<withdrawable, platform, earned, today, bankVars>>

\* Mutant: a request that was paid in part is taken back too.
ReverseOpenRequest(r) ==
  LET w == request[r].wallet IN
  /\ Open(r)
  /\ reserved[w] >= Remaining(r) /\ platform >= request[r].fee
  /\ request' = [request EXCEPT ![r].status = "rejected"]
  /\ reserved' = [reserved EXCEPT ![w] = @ - Remaining(r)]
  /\ available' = [available EXCEPT ![w] = @ + (Remaining(r) + request[r].fee)]
  /\ platform' = platform - request[r].fee
  /\ UNCHANGED <<withdrawable, earned, today, bankVars>>

\* reversePendingWithdrawal, for the owner who cancels and the administrator
\* who rejects: money and fee return
ReversePendingWithdrawal(r) ==
  LET w == request[r].wallet IN
  /\ Made(r) /\ request[r].status = "pending" /\ request[r].paid = 0
  /\ reserved[w] >= request[r].amount /\ platform >= request[r].fee
  /\ request' = [request EXCEPT ![r].status = "rejected"]
  /\ reserved' = [reserved EXCEPT ![w] = @ - request[r].amount]
  /\ available' = [available EXCEPT ![w] = @ + (request[r].amount + request[r].fee)]
  /\ platform' = platform - request[r].fee
  /\ UNCHANGED <<withdrawable, earned, today, bankVars>>

\* settleWithdrawalPayout: amount leaves the reserve for good
Settle(r, amount, manual) ==
  LET w == request[r].wallet
      paid == request[r].paid + amount
  IN
  /\ amount > 0 /\ amount <= Remaining(r)
  /\ reserved[w] >= amount
  /\ reserved' = [reserved EXCEPT ![w] = @ - amount]
  /\ request' = [request EXCEPT
       ![r].paid = paid,
       ![r].manual = @ + manual,
       ![r].status = IF paid = request[r].amount THEN "paid" ELSE "partially_paid"]
  /\ UNCHANGED <<available, withdrawable, platform, earned, today>>

\* confirmManualWithdrawalPayout, for transfers SePay does not see
ConfirmManualPayout(r) ==
  /\ Open(r)
  /\ Settle(r, Remaining(r), Remaining(r))
  /\ UNCHANGED bankVars

\* finalizePartialWithdrawal: what was not paid returns
FinalizePartialWithdrawal(r) ==
  LET w == request[r].wallet IN
  /\ Made(r) /\ request[r].status = "partially_paid" /\ request[r].paid > 0
  /\ request' = [request EXCEPT ![r].status = "paid"]
  /\ reserved' = [reserved EXCEPT ![w] = @ - Remaining(r)]
  /\ available' = [available EXCEPT ![w] = @ + Remaining(r)]
  /\ withdrawable' = IF w \in PersonalWallets
                     THEN [withdrawable EXCEPT ![w] = @ + Remaining(r)]
                     ELSE withdrawable
  /\ UNCHANGED <<platform, earned, today, bankVars>>

-----------------------------------------------------------------------------
(* Bank transfers *)

\* A transfer is made at the bank, with the code of a request or without; an
\* incoming one of the module has no code that is known.
MakeTransfer(t, direction, code, amount) ==
  /\ transfer[t] = NoTransfer
  /\ code # NoRequest => direction = "out" /\ Made(code)
  /\ transfer' = [transfer EXCEPT ![t] =
       [direction |-> direction, code |-> code, amount |-> amount]]
  /\ UNCHANGED <<walletVars, requestVars, event, checking>>

Unrecorded(t) == transfer[t] # NoTransfer /\ event[t] = NoEvent

\* amount and code agree with an open request
Matches(t) ==
  LET r == transfer[t].code IN
  /\ transfer[t].direction = "out" /\ r # NoRequest
  /\ Open(r) /\ Remaining(r) = transfer[t].amount

Unmatched == [status |-> "unmatched", request |-> NoRequest,
              payout |-> 0, other |-> 0]

\* First half of handleOutgoingTransfer, before the lock of the request.
FindRequest(t) ==
  /\ Unrecorded(t) /\ t \notin checking /\ Matches(t)
  /\ checking' = checking \cup {t}
  /\ UNCHANGED <<walletVars, requestVars, transfer, event>>

\* handleOutgoingTransfer, either half, and handleIncomingTransfer without an
\* intent: the transfer waits for an administrator.
RecordUnmatched(t) ==
  /\ Unrecorded(t) /\ ~Matches(t)
  /\ event' = [event EXCEPT ![t] = Unmatched]
  /\ checking' = checking \ {t}
  /\ UNCHANGED <<walletVars, requestVars, transfer>>

\* Mutant: the request is not read again under its lock.
MatchTransferUnchecked(t) ==
  LET r == transfer[t].code IN
  /\ t \in checking /\ Unrecorded(t) /\ reserved[request[r].wallet] >= transfer[t].amount
  /\ event' = [event EXCEPT ![t] =
       [status |-> "matched", request |-> r, payout |-> transfer[t].amount,
        other |-> 0]]
  /\ checking' = checking \ {t}
  /\ Settle(r, transfer[t].amount, 0)
  /\ UNCHANGED transfer

\* Second half of handleOutgoingTransfer, under the lock of the request.
MatchTransfer(t) ==
  LET r == transfer[t].code IN
  /\ t \in checking /\ Unrecorded(t) /\ Matches(t)
  /\ event' = [event EXCEPT ![t] =
       [status |-> "matched", request |-> r, payout |-> transfer[t].amount,
        other |-> 0]]
  /\ checking' = checking \ {t}
  /\ Settle(r, transfer[t].amount, 0)
  /\ UNCHANGED transfer

Waiting(t) == event[t] # NoEvent /\ event[t].status = "unmatched"

\* assignIncomingEvent: the money becomes balance of a player
AssignIncomingEvent(t, w) ==
  /\ Waiting(t) /\ transfer[t].direction = "in" /\ w \in PersonalWallets
  /\ available' = [available EXCEPT ![w] = @ + transfer[t].amount]
  /\ earned' = [earned EXCEPT ![w] = @ + transfer[t].amount]
  /\ event' = [event EXCEPT ![t].status = "matched", ![t].other = transfer[t].amount]
  /\ UNCHANGED <<withdrawable, reserved, platform, requestVars, transfer, checking>>

\* assignOutgoingEvent: up to what remains is paid out, the rest of the
\* transfer is out of scope
AssignOutgoingEvent(t, r) ==
  LET amount == transfer[t].amount
      payout == IF amount < Remaining(r) THEN amount ELSE Remaining(r)
  IN
  /\ Waiting(t) /\ transfer[t].direction = "out"
  /\ Open(r)
  /\ event' = [event EXCEPT ![t].status = "matched", ![t].request = r,
                            ![t].payout = payout, ![t].other = amount - payout]
  /\ Settle(r, payout, 0)
  /\ UNCHANGED <<transfer, checking>>

\* markEventOutOfScope
MarkEventOutOfScope(t) ==
  /\ Waiting(t)
  /\ event' = [event EXCEPT ![t].status = "out_of_scope",
                            ![t].other = transfer[t].amount]
  /\ UNCHANGED <<walletVars, requestVars, transfer, checking>>

-----------------------------------------------------------------------------
(* The specification *)

Platform ==
  \/ \E w \in Wallets, a \in GrossAmounts, refund \in BOOLEAN : Earn(w, a, refund)
  \/ \E w \in Wallets, a \in GrossAmounts : Spend(w, a)
  \/ NewDay

Withdrawal(r) ==
  \/ \E w \in Wallets, a \in GrossAmounts : CreateWithdrawal(r, w, a)
  \/ ReversePendingWithdrawal(r)
  \/ ConfirmManualPayout(r)
  \/ FinalizePartialWithdrawal(r)

Webhook(t) == FindRequest(t) \/ RecordUnmatched(t) \/ MatchTransfer(t)

Bank(t) ==
  \E direction \in {"in", "out"}, code \in Requests \cup {NoRequest},
     a \in TransferAmounts : MakeTransfer(t, direction, code, a)

Reconciliation(t) ==
  \/ \E w \in PersonalWallets : AssignIncomingEvent(t, w)
  \/ \E r \in Requests : AssignOutgoingEvent(t, r)
  \/ MarkEventOutOfScope(t)

Next ==
  \/ Platform
  \/ \E r \in Requests : Withdrawal(r)
  \/ \E t \in Transfers : Bank(t) \/ Webhook(t) \/ Reconciliation(t)

Spec == Init /\ [][Next]_vars

-----------------------------------------------------------------------------
(* Properties *)

\* BR-FIN-16: what a wallet has reserved is what its open request, of which
\* there is one at most, still has to pay.
ReservedIsOwed ==
  /\ \A r, s \in Requests :
       Open(r) /\ Open(s) /\ request[r].wallet = request[s].wallet => r = s
  /\ \A r \in Requests : Open(r) => reserved[request[r].wallet] = Remaining(r)
  /\ \A w \in Wallets : ~HasOpenRequest(w) => reserved[w] = 0

\* The withdrawable part of a wallet does not exceed its balance.  If it did,
\* postLedgerEntry would turn down every later refund to the player.
RefundsAreAccepted == \A w \in Wallets : withdrawable[w] <= available[w]

\* BR-FIN-17: the allocations of an event that no longer waits add up to its
\* amount, and an event that waits has none.
EventsAreExplained ==
  \A t \in Transfers : event[t] # NoEvent =>
    /\ transfer[t] # NoTransfer
    /\ event[t].payout + event[t].other =
         (IF event[t].status = "unmatched" THEN 0 ELSE transfer[t].amount)

\* A request never pays more than it asked for, and is paid for good or taken
\* back before anything was paid, not both (BR-FIN-19).
PaidOrReturned ==
  \A r \in Requests : Made(r) =>
    /\ request[r].paid <= request[r].amount
    /\ request[r].status \in {"pending", "rejected"} => request[r].paid = 0
    /\ request[r].status = "partially_paid" => request[r].paid \in 1..(request[r].amount - 1)

WithdrawalInv ==
  TypeOK /\ ReservedIsOwed /\ RefundsAreAccepted /\ EventsAreExplained
    /\ PaidOrReturned

RequestsOf(w) == {r \in Requests : Made(r) /\ request[r].wallet = w}

PaidTo(w) == SumFunction([r \in RequestsOf(w) |-> request[r].paid])

Fees(S) == SumFunction([r \in S |-> request[r].fee])

FeesOf(w) == Fees({r \in RequestsOf(w) : request[r].status # "rejected"})

\* BR-FIN-18: what a wallet has earned is in the wallet, was kept as fee, or
\* has left the platform as a payout.
WalletConserved ==
  \A w \in Wallets :
    earned[w] = available[w] + reserved[w] + PaidTo(w) + FeesOf(w)

EventsOf(r) == {t \in Transfers : event[t] # NoEvent /\ event[t].request = r}

PaidByEvents(r) == SumFunction([t \in EventsOf(r) |-> event[t].payout])

\* BR-FIN-17: a payout is the counterpart of one event, or was confirmed by
\* hand: a request is not paid with the transfer of another.
PayoutsAreExplained ==
  \A r \in Requests : Made(r) =>
    request[r].paid = request[r].manual + PaidByEvents(r)

\* the fees of some requests are one per cent of what their gross amounts exceed
\* the allowance by, but for the rounding of each
FeesAreFair(S) ==
  LET error == 100 * Fees(S) - Over(Gross(S), 0)
  IN  error \in -(50 * Cardinality(S))..(50 * Cardinality(S))

\* BR-FIN-21 (D59): the daily allowance is given once and given back with a
\* request that was taken back, however the day's withdrawals are split.
AllowanceIsGivenOnce == \A w \in PersonalWallets : FeesAreFair(KeptToday(w))

\* BR-FIN-19: a request for which money has left the bank, as SePay has told
\* finance, is not taken back.
MoneySentIsNotReturned ==
  [][\A r \in Requests :
       /\ Made(r) /\ request[r].status = "pending"
       /\ request'[r].status = "rejected"
       => ~ \E t \in Transfers : event[t] # NoEvent /\ transfer[t].code = r]_vars
=============================================================================
