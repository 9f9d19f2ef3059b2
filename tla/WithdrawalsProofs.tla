-------------------------- MODULE WithdrawalsProofs --------------------------
(***************************************************************************)
(* Proofs about Withdrawals, for any wallets, requests and transfers, any  *)
(* amounts and any allowance.                                              *)
(*                                                                         *)
(* The invariant has a part about wallets and requests, and a part about   *)
(* the bank.  An action that changes a request changes one, and the money  *)
(* of its wallet; OneRequestChanges says when that leaves the reserve of   *)
(* every wallet right.                                                     *)
(***************************************************************************)
EXTENDS Withdrawals, SetSums, TLAPS

MoneyTypeOK ==
  /\ available \in [Wallets -> Nat]
  /\ withdrawable \in [Wallets -> Nat]
  /\ \A w \in Wallets \ PersonalWallets : withdrawable[w] = 0
  /\ reserved \in [Wallets -> Nat]
  /\ platform \in Nat
  /\ earned \in [Wallets -> Int]
  /\ request \in [Requests -> Request \cup {NoRequest}]
  /\ today \subseteq {r \in Requests : request[r] # NoRequest}

BankTypeOK ==
  /\ transfer \in [Transfers -> Transfer \cup {NoTransfer}]
  /\ event \in [Transfers -> SepayEvent \cup {NoEvent}]
  /\ checking \subseteq Transfers

MoneyInv ==
  MoneyTypeOK /\ ReservedIsOwed /\ RefundsAreAccepted /\ PaidOrReturned

BankInv == BankTypeOK /\ EventsAreExplained

LEMMA InvHasTwoParts == WithdrawalInv <=> MoneyInv /\ BankInv
BY DEF WithdrawalInv, MoneyInv, BankInv, TypeOK, MoneyTypeOK, BankTypeOK

\* Wallets and requests that stay as they are keep their part.
LEMMA MoneyUntouched ==
  ASSUME MoneyInv, UNCHANGED <<walletVars, requestVars>>
  PROVE  MoneyInv'
BY DEF MoneyInv, MoneyTypeOK, ReservedIsOwed, RefundsAreAccepted,
       PaidOrReturned, HasOpenRequest, Open, Made, Remaining, walletVars,
       requestVars

\* So do transfers and events.
LEMMA BankUntouched ==
  ASSUME BankInv, UNCHANGED bankVars
  PROVE  BankInv'
BY DEF BankInv, BankTypeOK, EventsAreExplained, bankVars

\* A request that was made is a row.
LEMMA RequestIsRow ==
  ASSUME MoneyTypeOK, NEW r \in Requests, Made(r)
  PROVE  /\ request[r] \in Request
         /\ request[r].wallet \in Wallets
         /\ request[r].amount \in Nat /\ request[r].fee \in Nat
         /\ request[r].paid \in Nat /\ request[r].manual \in Nat
BY DEF MoneyTypeOK, Made, Request

\* One request r, of wallet w, is made or changed, and the reserve of w becomes
\* what r owes; before, w had no open request but r.
LEMMA OneRequestChanges ==
  ASSUME MoneyTypeOK, ReservedIsOwed,
         NEW r \in Requests, NEW w \in Wallets,
         request'[r] # NoRequest, request'[r].wallet = w,
         \A s \in Requests : s # r => request'[s] = request[s],
         \A v \in Wallets : v # w => reserved'[v] = reserved[v],
         \/ Open(r) /\ request[r].wallet = w
         \/ ~Made(r) /\ ~HasOpenRequest(w),
         Open(r)' => reserved'[w] = Remaining(r)',
         ~Open(r)' => reserved'[w] = 0
  PROVE  ReservedIsOwed'
<1>1. \A s \in Requests : s # r => (Open(s)' <=> Open(s))
  BY DEF Open, Made
<1>2. \A s \in Requests : s # r /\ Open(s) => request[s].wallet # w
  <2>1. CASE Open(r) /\ request[r].wallet = w
    BY <2>1 DEF ReservedIsOwed
  <2>2. CASE ~Made(r) /\ ~HasOpenRequest(w)
    BY <2>2 DEF HasOpenRequest
  <2>3. QED
    BY <2>1, <2>2
<1>3. ASSUME NEW s \in Requests, s # r, Open(s)
      PROVE  /\ request[s].wallet \in Wallets
             /\ reserved'[request[s].wallet] = Remaining(s)
  BY <1>2, <1>3, RequestIsRow DEF ReservedIsOwed, Open
<1>4. (\A s, v \in Requests :
         Open(s) /\ Open(v) /\ request[s].wallet = request[v].wallet => s = v)'
  BY <1>1, <1>2 DEF ReservedIsOwed
<1>5. (\A s \in Requests : Open(s) => reserved[request[s].wallet] = Remaining(s))'
  BY <1>1, <1>3 DEF Remaining
<1>6. ASSUME NEW v \in Wallets, ~HasOpenRequest(v)'
      PROVE  reserved'[v] = 0
  <2>1. CASE v = w
    <3>1. ~Open(r)'
      BY <1>6, <2>1 DEF HasOpenRequest
    <3>2. QED
      BY <2>1, <3>1
  <2>2. CASE v # w
    <3>1. ~HasOpenRequest(v)
      <4>1. ASSUME NEW s \in Requests, Open(s), request[s].wallet = v
            PROVE  FALSE
        <5>1. s # r
          BY <2>2, <4>1 DEF Open
        <5>2. Open(s)' /\ request'[s].wallet = v
          BY <1>1, <4>1, <5>1
        <5>3. QED
          BY <1>6, <5>2 DEF HasOpenRequest
      <4>2. QED
        BY <4>1 DEF HasOpenRequest
    <3>2. QED
      BY <2>2, <3>1 DEF ReservedIsOwed
  <2>3. QED
    BY <2>1, <2>2
<1>7. QED
  BY <1>4, <1>5, <1>6 DEF ReservedIsOwed

LEMMA TodayStaysMade ==
  ASSUME MoneyTypeOK, NEW r \in Requests, request'[r] # NoRequest,
         \A s \in Requests : s # r => request'[s] = request[s],
         today' \subseteq today \cup {r}
  PROVE  (today \subseteq {s \in Requests : request[s] # NoRequest})'
BY DEF MoneyTypeOK

-----------------------------------------------------------------------------
(* Requests *)

\* A payout, whoever makes it, takes from the reserve what it takes from the
\* request.
LEMMA SettleKeepsInv ==
  ASSUME MoneyInv, NEW r \in Requests, Open(r),
         NEW amount \in Nat, NEW manual \in Nat, Settle(r, amount, manual)
  PROVE  MoneyInv'
<1> DEFINE w == request[r].wallet
<1> DEFINE row == [request[r] EXCEPT
                     !.paid = @ + amount, !.manual = @ + manual,
                     !.status = IF request[r].paid + amount = request[r].amount
                                THEN "paid" ELSE "partially_paid"]
<1>1. /\ request[r] \in Request /\ w \in Wallets /\ request[r].amount \in Nat
      /\ request[r].paid \in Nat /\ request[r].manual \in Nat
  BY RequestIsRow DEF MoneyInv, Open
<1>2. /\ amount > 0 /\ amount <= request[r].amount - request[r].paid
      /\ reserved[w] >= amount /\ reserved[w] \in Nat
  BY <1>1 DEF Settle, Remaining, MoneyInv, MoneyTypeOK
<1>3. row \in Request
  <2>1. request[r].paid + amount \in Nat /\ request[r].manual + manual \in Nat
    BY <1>1
  <2>2. \A p, m \in Nat, s \in {"paid", "partially_paid"} :
          [request[r] EXCEPT !.paid = p, !.manual = m, !.status = s] \in Request
    BY <1>1 DEF Request
  <2>3. QED
    BY <2>1, <2>2
<1>4. request' = [request EXCEPT ![r] = row]
  BY DEF Settle
<1>5. /\ request'[r] = row
      /\ \A s \in Requests : s # r => request'[s] = request[s]
  BY <1>4 DEF MoneyInv, MoneyTypeOK
<1>6. /\ reserved'[w] = reserved[w] - amount
      /\ \A v \in Wallets : v # w => reserved'[v] = reserved[v]
  BY <1>1 DEF Settle, MoneyInv, MoneyTypeOK
<1>7. row # NoRequest
  BY <1>3, RowAssumption
<1>8. MoneyTypeOK'
  <2>1. request' \in [Requests -> Request \cup {NoRequest}]
    BY <1>3, <1>4 DEF MoneyInv, MoneyTypeOK
  <2>2. reserved' \in [Wallets -> Nat]
    BY <1>1, <1>2 DEF Settle, MoneyInv, MoneyTypeOK
  <2>3. (today \subseteq {s \in Requests : request[s] # NoRequest})'
    <3>1. request'[r] # NoRequest /\ today' \subseteq today \cup {r}
      BY <1>5, <1>7 DEF Settle
    <3>2. QED
      BY <1>5, <3>1, TodayStaysMade DEF MoneyInv
  <2>4. QED
    BY <2>1, <2>2, <2>3 DEF Settle, MoneyInv, MoneyTypeOK
<1>9. row.paid = request[r].paid + amount /\ row.amount = request[r].amount
      /\ row.wallet = w
      /\ row.status = IF request[r].paid + amount = request[r].amount
                      THEN "paid" ELSE "partially_paid"
  BY <1>1 DEF Request
<1>10. ReservedIsOwed'
  <2>1. reserved[w] = request[r].amount - request[r].paid
    BY DEF MoneyInv, ReservedIsOwed, Remaining
  <2>2. Open(r)' => reserved'[w] = Remaining(r)'
    BY <1>1, <1>2, <1>5, <1>6, <1>9, <2>1 DEF Remaining
  <2>3. ~Open(r)' => reserved'[w] = 0
    BY <1>1, <1>2, <1>5, <1>6, <1>7, <1>9, <2>1 DEF Open, Made
  <2>4. request'[r] # NoRequest /\ request'[r].wallet = w
    BY <1>5, <1>7, <1>9
  <2>5. QED
    BY <1>1, <1>5, <1>6, <2>2, <2>3, <2>4, OneRequestChanges DEF MoneyInv
<1>11. RefundsAreAccepted'
  BY DEF Settle, MoneyInv, RefundsAreAccepted
<1>12. PaidOrReturned'
  <2>1. \A s \in Requests : s # r /\ Made(s)' => Made(s)
    BY <1>5 DEF Made
  <2>2. /\ row.paid <= row.amount
        /\ row.status \notin {"pending", "rejected"}
        /\ row.status = "partially_paid" => row.paid \in 1..(row.amount - 1)
    BY <1>1, <1>2, <1>9
  <2>3. QED
    BY <1>5, <2>1, <2>2 DEF MoneyInv, PaidOrReturned
<1>13. QED
  BY <1>8, <1>10, <1>11, <1>12 DEF MoneyInv

\* What a wallet has withdrawn today is an amount.
LEMMA GrossIsAmount ==
  ASSUME MoneyTypeOK, NEW S, S \subseteq {r \in Requests : Made(r)}
  PROVE  Gross(S) \in Nat /\ IsFiniteSet(S)
<1>1. IsFiniteSet(S)
  BY FiniteAssumption, FS_Subset
<1>2. \A r \in S : request[r].amount + request[r].fee \in Nat
  BY RequestIsRow
<1>3. [r \in S |-> request[r].amount + request[r].fee] \in [S -> Nat]
  BY <1>2
<1>4. QED
  BY <1>1, <1>3, LedgerIsNatural DEF Gross

LEMMA TodayIsMade ==
  ASSUME MoneyTypeOK, NEW w
  PROVE  /\ KeptToday(w) \subseteq {r \in Requests : Made(r)}
         /\ WithdrawnToday(w) \in Nat
<1>1. KeptToday(w) \subseteq {r \in Requests : Made(r)}
  BY DEF MoneyTypeOK, KeptToday, Made
<1>2. QED
  BY <1>1, GrossIsAmount DEF WithdrawnToday

\* The fee is a part of what is asked for.
LEMMA FeeIsPart ==
  ASSUME MoneyTypeOK, NEW w, NEW gross \in GrossAmounts
  PROVE  Fee(w, gross) \in 0..gross
<1>1. gross \in Nat \ {0} /\ DailyFree \in Nat /\ WithdrawnToday(w) \in Nat
  BY TodayIsMade, AmountAssumption, BoundAssumption
<1>2. Over(gross, WithdrawnToday(w)) \in 0..gross
  BY <1>1 DEF Over
<1>3. \A n \in 0..gross : (n + 50) \div 100 \in 0..gross
  BY <1>1
<1>4. QED
  BY <1>1, <1>2, <1>3 DEF Fee

\* A new request reserves its amount in a wallet that had nothing reserved.
LEMMA CreateKeepsInv ==
  ASSUME MoneyInv, NEW r \in Requests, NEW w \in Wallets,
         NEW gross \in GrossAmounts, CreateWithdrawal(r, w, gross)
  PROVE  MoneyInv'
<1> DEFINE fee == Fee(w, gross)
<1> DEFINE row == [wallet |-> w, amount |-> gross - fee, fee |-> fee, paid |-> 0,
                   manual |-> 0, status |-> "pending"]
<1>1. fee \in 0..gross /\ ~Made(r) /\ ~HasOpenRequest(w) /\ available[w] >= gross
  BY FeeIsPart DEF CreateWithdrawal, MoneyInv
<1>2. gross \in Nat \ {0} /\ fee \in Nat /\ gross - fee \in Nat
  BY <1>1, AmountAssumption
<1>3. row \in Request /\ row # NoRequest
  BY <1>2, RowAssumption DEF Request
<1>4. request' = [request EXCEPT ![r] = row]
  BY DEF CreateWithdrawal
<1>5. /\ request'[r] = row
      /\ \A s \in Requests : s # r => request'[s] = request[s]
  BY <1>4 DEF MoneyInv, MoneyTypeOK
<1>6. /\ reserved'[w] = reserved[w] + (gross - fee)
      /\ available'[w] = available[w] - gross
      /\ \A v \in Wallets : v # w => /\ reserved'[v] = reserved[v]
                                     /\ available'[v] = available[v]
                                     /\ withdrawable'[v] = withdrawable[v]
  BY DEF CreateWithdrawal, MoneyInv, MoneyTypeOK
<1>7. available[w] \in Nat /\ withdrawable[w] \in Nat /\ reserved[w] = 0
  BY <1>1 DEF MoneyInv, MoneyTypeOK, ReservedIsOwed
<1>8. MoneyTypeOK'
  <2>1. request' \in [Requests -> Request \cup {NoRequest}]
    BY <1>3, <1>4 DEF MoneyInv, MoneyTypeOK
  <2>2. available' \in [Wallets -> Nat] /\ reserved' \in [Wallets -> Nat]
    BY <1>1, <1>2, <1>7 DEF CreateWithdrawal, MoneyInv, MoneyTypeOK
  <2>3. /\ withdrawable' \in [Wallets -> Nat]
        /\ \A v \in Wallets \ PersonalWallets : withdrawable'[v] = 0
    BY <1>1, <1>2, <1>7 DEF CreateWithdrawal, MoneyInv, MoneyTypeOK
  <2>4. platform' \in Nat
    BY <1>2 DEF CreateWithdrawal, MoneyInv, MoneyTypeOK
  <2>5. (today \subseteq {s \in Requests : request[s] # NoRequest})'
    <3>1. request'[r] # NoRequest /\ today' \subseteq today \cup {r}
      BY <1>3, <1>5 DEF CreateWithdrawal
    <3>2. QED
      BY <1>5, <3>1, TodayStaysMade DEF MoneyInv
  <2>6. QED
    BY <2>1, <2>2, <2>3, <2>4, <2>5 DEF CreateWithdrawal, MoneyInv, MoneyTypeOK
<1>9. ReservedIsOwed'
  <2>1. Open(r)' /\ reserved'[w] = Remaining(r)'
    BY <1>2, <1>3, <1>5, <1>6, <1>7 DEF Open, Made, Remaining
  <2>2. QED
    BY <1>1, <1>3, <1>5, <1>6, <2>1, OneRequestChanges DEF MoneyInv
<1>10. RefundsAreAccepted'
  <2>1. withdrawable'[w] <= available'[w]
    <3>1. CASE w \in PersonalWallets /\ withdrawable[w] > available[w] - gross
      <4>1. withdrawable'[w] = available[w] - gross
        BY <3>1 DEF CreateWithdrawal, MoneyInv, MoneyTypeOK
      <4>2. QED
        BY <1>2, <1>6, <1>7, <4>1
    <3>2. CASE w \in PersonalWallets /\ ~(withdrawable[w] > available[w] - gross)
      BY <1>2, <1>6, <1>7, <3>2 DEF CreateWithdrawal
    <3>3. CASE w \notin PersonalWallets
      <4>1. withdrawable'[w] = 0
        BY <3>3 DEF CreateWithdrawal, MoneyInv, MoneyTypeOK
      <4>2. QED
        BY <1>1, <1>2, <1>6, <1>7, <4>1
    <3>4. QED
      BY <3>1, <3>2, <3>3
  <2>2. QED
    BY <1>6, <2>1 DEF MoneyInv, RefundsAreAccepted
<1>11. PaidOrReturned'
  BY <1>2, <1>3, <1>5 DEF MoneyInv, PaidOrReturned, Made
<1>12. QED
  BY <1>8, <1>9, <1>10, <1>11 DEF MoneyInv

\* A request without payout gives back all that its wallet has reserved.
LEMMA ReverseKeepsInv ==
  ASSUME MoneyInv, NEW r \in Requests, ReversePendingWithdrawal(r)
  PROVE  MoneyInv'
<1> DEFINE w == request[r].wallet
<1> DEFINE row == [request[r] EXCEPT !.status = "rejected"]
<1>1. Made(r) /\ Open(r) /\ request[r].status = "pending" /\ request[r].paid = 0
  BY DEF ReversePendingWithdrawal, Open
<1>2. /\ request[r] \in Request /\ w \in Wallets /\ request[r].amount \in Nat
      /\ request[r].fee \in Nat
  BY <1>1, RequestIsRow DEF MoneyInv
<1>3. row \in Request /\ row # NoRequest
  BY <1>2, RowAssumption DEF Request
<1>4. /\ row.status = "rejected" /\ row.wallet = w
      /\ row.paid = 0 /\ row.amount = request[r].amount
  BY <1>1, <1>2 DEF Request
<1>5. /\ request'[r] = row
      /\ \A s \in Requests : s # r => request'[s] = request[s]
  BY DEF ReversePendingWithdrawal, MoneyInv, MoneyTypeOK
<1>6. reserved[w] = request[r].amount /\ available[w] \in Nat
  BY <1>1, <1>2 DEF MoneyInv, MoneyTypeOK, ReservedIsOwed, Remaining
<1>7. /\ reserved'[w] = 0
      /\ available'[w] = available[w] + (request[r].amount + request[r].fee)
      /\ \A v \in Wallets : v # w => /\ reserved'[v] = reserved[v]
                                     /\ available'[v] = available[v]
  BY <1>2, <1>6 DEF ReversePendingWithdrawal, MoneyInv, MoneyTypeOK
<1>8. MoneyTypeOK'
  <2>1. request' \in [Requests -> Request \cup {NoRequest}]
    BY <1>3 DEF ReversePendingWithdrawal, MoneyInv, MoneyTypeOK
  <2>2. reserved' \in [Wallets -> Nat] /\ available' \in [Wallets -> Nat]
    BY <1>2, <1>6 DEF ReversePendingWithdrawal, MoneyInv, MoneyTypeOK
  <2>3. platform' \in Nat
    BY <1>2 DEF ReversePendingWithdrawal, MoneyInv, MoneyTypeOK
  <2>4. (today \subseteq {s \in Requests : request[s] # NoRequest})'
    <3>1. request'[r] # NoRequest /\ today' \subseteq today \cup {r}
      BY <1>3, <1>5 DEF ReversePendingWithdrawal
    <3>2. QED
      BY <1>5, <3>1, TodayStaysMade DEF MoneyInv
  <2>5. QED
    BY <2>1, <2>2, <2>3, <2>4
    DEF ReversePendingWithdrawal, MoneyInv, MoneyTypeOK
<1>9. ReservedIsOwed'
  <2>1. ~Open(r)'
    BY <1>4, <1>5 DEF Open
  <2>2. request'[r] # NoRequest /\ request'[r].wallet = w
    BY <1>3, <1>4, <1>5
  <2>3. QED
    BY <1>1, <1>2, <1>5, <1>7, <2>1, <2>2, OneRequestChanges DEF MoneyInv
<1>10. RefundsAreAccepted'
  BY <1>2, <1>6, <1>7
  DEF ReversePendingWithdrawal, MoneyInv, MoneyTypeOK, RefundsAreAccepted
<1>11. PaidOrReturned'
  <2>1. \A s \in Requests : s # r /\ Made(s)' => Made(s)
    BY <1>5 DEF Made
  <2>2. /\ row.paid <= row.amount /\ row.status # "partially_paid"
        /\ row.paid = 0
    BY <1>2, <1>4
  <2> HIDE DEF row
  <2>3. QED
    BY <1>5, <2>1, <2>2 DEF MoneyInv, PaidOrReturned
<1>12. QED
  BY <1>8, <1>9, <1>10, <1>11 DEF MoneyInv

\* A request that was paid in part gives back the rest.
LEMMA FinalizeKeepsInv ==
  ASSUME MoneyInv, NEW r \in Requests, FinalizePartialWithdrawal(r)
  PROVE  MoneyInv'
<1> DEFINE w == request[r].wallet
<1> DEFINE row == [request[r] EXCEPT !.status = "paid"]
<1>1. Made(r) /\ Open(r) /\ request[r].status = "partially_paid"
  BY DEF FinalizePartialWithdrawal, Open
<1>2. /\ request[r] \in Request /\ w \in Wallets /\ request[r].amount \in Nat
      /\ request[r].paid \in Nat
  BY <1>1, RequestIsRow DEF MoneyInv
<1>3. request[r].paid <= request[r].amount /\ Remaining(r) \in Nat
  BY <1>1, <1>2 DEF MoneyInv, PaidOrReturned, Remaining
<1>4. row \in Request /\ row # NoRequest
  BY <1>2, RowAssumption DEF Request
<1>5. /\ row.status = "paid" /\ row.wallet = w
      /\ row.paid = request[r].paid /\ row.amount = request[r].amount
  BY <1>2 DEF Request
<1>6. /\ request'[r] = row
      /\ \A s \in Requests : s # r => request'[s] = request[s]
  BY DEF FinalizePartialWithdrawal, MoneyInv, MoneyTypeOK
<1>7. /\ reserved[w] = Remaining(r)
      /\ available[w] \in Nat /\ withdrawable[w] \in Nat
  BY <1>1, <1>2 DEF MoneyInv, MoneyTypeOK, ReservedIsOwed
<1>8. /\ reserved'[w] = 0
      /\ available'[w] = available[w] + Remaining(r)
      /\ withdrawable'[w] \in {withdrawable[w], withdrawable[w] + Remaining(r)}
      /\ \A v \in Wallets : v # w => /\ reserved'[v] = reserved[v]
                                     /\ available'[v] = available[v]
                                     /\ withdrawable'[v] = withdrawable[v]
  BY <1>2, <1>3, <1>7 DEF FinalizePartialWithdrawal, MoneyInv, MoneyTypeOK
<1>9. MoneyTypeOK'
  <2>1. request' \in [Requests -> Request \cup {NoRequest}]
    BY <1>4 DEF FinalizePartialWithdrawal, MoneyInv, MoneyTypeOK
  <2>2. reserved' \in [Wallets -> Nat] /\ available' \in [Wallets -> Nat]
    <3>1. /\ reserved' = [reserved EXCEPT ![w] = reserved[w] - Remaining(r)]
          /\ available' = [available EXCEPT ![w] = available[w] + Remaining(r)]
      BY DEF FinalizePartialWithdrawal
    <3>2. /\ reserved[w] - Remaining(r) \in Nat
          /\ available[w] + Remaining(r) \in Nat
      BY <1>3, <1>7
    <3>3. QED
      BY <3>1, <3>2 DEF MoneyInv, MoneyTypeOK
  <2>3. /\ withdrawable' \in [Wallets -> Nat]
        /\ \A v \in Wallets \ PersonalWallets : withdrawable'[v] = 0
    BY <1>2, <1>3, <1>7 DEF FinalizePartialWithdrawal, MoneyInv, MoneyTypeOK
  <2>4. (today \subseteq {s \in Requests : request[s] # NoRequest})'
    <3>1. request'[r] # NoRequest /\ today' \subseteq today \cup {r}
      BY <1>4, <1>6 DEF FinalizePartialWithdrawal
    <3>2. QED
      BY <1>6, <3>1, TodayStaysMade DEF MoneyInv
  <2>5. QED
    BY <2>1, <2>2, <2>3, <2>4
    DEF FinalizePartialWithdrawal, MoneyInv, MoneyTypeOK
<1>10. ReservedIsOwed'
  <2>1. ~Open(r)'
    BY <1>5, <1>6 DEF Open
  <2>2. request'[r] # NoRequest /\ request'[r].wallet = w
    BY <1>4, <1>5, <1>6
  <2>3. QED
    BY <1>1, <1>2, <1>6, <1>8, <2>1, <2>2, OneRequestChanges DEF MoneyInv
<1>11. RefundsAreAccepted'
  <2>1. withdrawable[w] <= available[w]
    BY <1>2 DEF MoneyInv, RefundsAreAccepted
  <2>2. withdrawable'[w] <= available'[w]
    BY <1>3, <1>7, <1>8, <2>1
  <2>3. QED
    BY <1>8, <2>2 DEF MoneyInv, RefundsAreAccepted
<1>12. PaidOrReturned'
  BY <1>2, <1>3, <1>5, <1>6 DEF MoneyInv, PaidOrReturned, Made
<1>13. QED
  BY <1>9, <1>10, <1>11, <1>12 DEF MoneyInv

-----------------------------------------------------------------------------
(* Balances *)

\* Balances that move leave requests and reserves alone.
LEMMA BalancesMove ==
  ASSUME MoneyInv, UNCHANGED <<request, reserved, platform>>,
         today' \subseteq today, earned' \in [Wallets -> Int],
         available' \in [Wallets -> Nat], withdrawable' \in [Wallets -> Nat],
         \A w \in Wallets \ PersonalWallets : withdrawable'[w] = 0,
         \A w \in Wallets : withdrawable'[w] <= available'[w]
  PROVE  MoneyInv'
BY DEF MoneyInv, MoneyTypeOK, ReservedIsOwed, RefundsAreAccepted,
       PaidOrReturned, HasOpenRequest, Open, Made, Remaining

LEMMA PlatformKeepsInv ==
  ASSUME MoneyInv, Platform
  PROVE  MoneyInv'
<1>1. ASSUME NEW w \in Wallets, NEW a \in GrossAmounts, NEW refund \in BOOLEAN,
             Earn(w, a, refund)
      PROVE  MoneyInv'
  <2>1. a \in Nat /\ available[w] \in Nat /\ withdrawable[w] \in Nat
    BY <1>1, AmountAssumption DEF MoneyInv, MoneyTypeOK
  <2>2. available' \in [Wallets -> Nat] /\ earned' \in [Wallets -> Int]
    BY <1>1, <2>1 DEF Earn, MoneyInv, MoneyTypeOK
  <2>3. /\ withdrawable' \in [Wallets -> Nat]
        /\ \A v \in Wallets \ PersonalWallets : withdrawable'[v] = 0
    BY <1>1, <2>1 DEF Earn, MoneyInv, MoneyTypeOK
  <2>4. \A v \in Wallets : withdrawable'[v] <= available'[v]
    BY <1>1, <2>1 DEF Earn, MoneyInv, MoneyTypeOK, RefundsAreAccepted
  <2>5. QED
    BY <1>1, <2>2, <2>3, <2>4, BalancesMove
    DEF Earn, requestVars, MoneyInv, MoneyTypeOK
<1>2. ASSUME NEW w \in Wallets, NEW a \in GrossAmounts, Spend(w, a)
      PROVE  MoneyInv'
  <2> DEFINE ordinary == available[w] - withdrawable[w]
  <2> DEFINE eligible == IF a > ordinary THEN a - ordinary ELSE 0
  <2>1. /\ a \in Nat /\ available[w] \in Nat /\ withdrawable[w] \in Nat
        /\ available[w] >= a
        /\ withdrawable[w] - eligible \in 0..(available[w] - a)
    BY <1>2, AmountAssumption DEF Spend, MoneyInv, MoneyTypeOK
  <2>2. /\ available' = [available EXCEPT ![w] = available[w] - a]
        /\ withdrawable' = [withdrawable EXCEPT ![w] = withdrawable[w] - eligible]
        /\ earned' = [earned EXCEPT ![w] = earned[w] - a]
        /\ w \in PersonalWallets
    BY <1>2 DEF Spend
  <2> HIDE DEF eligible
  <2>3. withdrawable[w] - eligible \in Nat /\ available[w] - a \in Nat
    BY <2>1
  <2>4. available' \in [Wallets -> Nat] /\ earned' \in [Wallets -> Int]
    BY <2>1, <2>2 DEF MoneyInv, MoneyTypeOK
  <2>5. /\ withdrawable' \in [Wallets -> Nat]
        /\ \A v \in Wallets \ PersonalWallets : withdrawable'[v] = 0
    BY <2>2, <2>3 DEF MoneyInv, MoneyTypeOK
  <2>6. \A v \in Wallets : withdrawable'[v] <= available'[v]
    BY <2>1, <2>2 DEF MoneyInv, MoneyTypeOK, RefundsAreAccepted
  <2>7. QED
    BY <1>2, <2>4, <2>5, <2>6, BalancesMove
    DEF Spend, requestVars, MoneyInv, MoneyTypeOK
<1>3. CASE NewDay
  <2>1. QED
    BY <1>3, BalancesMove
    DEF NewDay, walletVars, MoneyInv, MoneyTypeOK, RefundsAreAccepted
<1>4. QED
  BY <1>1, <1>2, <1>3 DEF Platform

-----------------------------------------------------------------------------
(* Bank transfers *)

\* A transfer that was recorded was made.
LEMMA EventIsRow ==
  ASSUME BankInv, NEW t \in Transfers, event[t] # NoEvent
  PROVE  /\ event[t] \in SepayEvent /\ transfer[t] \in Transfer
         /\ transfer[t] # NoTransfer /\ transfer[t].amount \in Nat \ {0}
<1>1. event[t] \in SepayEvent /\ transfer[t] # NoTransfer
  BY DEF BankInv, BankTypeOK, EventsAreExplained
<1>2. transfer[t] \in Transfer
  BY <1>1 DEF BankInv, BankTypeOK
<1>3. QED
  BY <1>1, <1>2, AmountAssumption DEF Transfer

\* The event of one transfer is written, with allocations that explain it.
LEMMA EventWritten ==
  ASSUME BankInv, NEW t \in Transfers, NEW row \in SepayEvent,
         transfer[t] # NoTransfer,
         row.payout + row.other =
           (IF row.status = "unmatched" THEN 0 ELSE transfer[t].amount),
         event' = [event EXCEPT ![t] = row], transfer' = transfer,
         checking' \subseteq Transfers
  PROVE  BankInv'
<1>1. BankTypeOK'
  BY DEF BankInv, BankTypeOK
<1>2. \A u \in Transfers : event'[u] = IF u = t THEN row ELSE event[u]
  BY DEF BankInv, BankTypeOK
<1>3. EventsAreExplained'
  BY <1>2 DEF BankInv, EventsAreExplained
<1>4. QED
  BY <1>1, <1>3 DEF BankInv

\* A transfer that is made was not recorded.
LEMMA BankKeepsInv ==
  ASSUME MoneyInv, BankInv, NEW t \in Transfers, Bank(t)
  PROVE  MoneyInv' /\ BankInv'
<1>1. PICK direction \in {"in", "out"}, code \in Requests \cup {NoRequest},
           a \in TransferAmounts : MakeTransfer(t, direction, code, a)
  BY DEF Bank
<1> DEFINE row == [direction |-> direction, code |-> code, amount |-> a]
<1>2. row \in Transfer /\ row # NoTransfer
  BY RowAssumption DEF Transfer
<1>3. event[t] = NoEvent
  BY <1>1 DEF MakeTransfer, BankInv, EventsAreExplained
<1>4. /\ transfer' = [transfer EXCEPT ![t] = row]
      /\ event' = event /\ checking' = checking
  BY <1>1 DEF MakeTransfer
<1> HIDE DEF row
<1>5. BankTypeOK'
  BY <1>2, <1>4 DEF BankInv, BankTypeOK
<1>6. EventsAreExplained'
  BY <1>3, <1>4 DEF BankInv, BankTypeOK, EventsAreExplained
<1>7. MoneyInv'
  BY <1>1, MoneyUntouched DEF MakeTransfer
<1>8. QED
  BY <1>5, <1>6, <1>7 DEF BankInv

\* The webhook pays out what it found again under the lock.
LEMMA WebhookKeepsInv ==
  ASSUME MoneyInv, BankInv, NEW t \in Transfers, Webhook(t)
  PROVE  MoneyInv' /\ BankInv'
<1>1. CASE FindRequest(t)
  <2>1. MoneyInv'
    BY <1>1, MoneyUntouched DEF FindRequest
  <2>2. BankInv'
    BY <1>1 DEF FindRequest, BankInv, BankTypeOK, EventsAreExplained
  <2>3. QED
    BY <2>1, <2>2
<1>2. CASE RecordUnmatched(t)
  <2>1. MoneyInv'
    BY <1>2, MoneyUntouched DEF RecordUnmatched
  <2>2. /\ Unmatched \in SepayEvent /\ Unmatched.status = "unmatched"
        /\ Unmatched.payout + Unmatched.other = 0
    BY DEF Unmatched, SepayEvent
  <2>3. /\ event' = [event EXCEPT ![t] = Unmatched] /\ transfer' = transfer
        /\ transfer[t] # NoTransfer /\ checking' \subseteq Transfers
    BY <1>2 DEF RecordUnmatched, Unrecorded, BankInv, BankTypeOK
  <2>4. QED
    BY <2>1, <2>2, <2>3, EventWritten
<1>3. CASE MatchTransfer(t)
  <2> DEFINE r == transfer[t].code
  <2> DEFINE row == [status |-> "matched", request |-> r,
                     payout |-> transfer[t].amount, other |-> 0]
  <2>1. /\ transfer[t] # NoTransfer /\ r # NoRequest /\ Open(r)
        /\ Settle(r, transfer[t].amount, 0)
        /\ event' = [event EXCEPT ![t] = row] /\ transfer' = transfer
        /\ checking' = checking \ {t}
    BY <1>3 DEF MatchTransfer, Unrecorded, Matches
  <2>2. transfer[t] \in Transfer
    BY <2>1 DEF BankInv, BankTypeOK
  <2>3. r \in Requests /\ transfer[t].amount \in Nat
    BY <2>1, <2>2, AmountAssumption DEF Transfer
  <2>4. MoneyInv'
    BY <2>1, <2>3, SettleKeepsInv
  <2>5. /\ row \in SepayEvent /\ row.status # "unmatched"
        /\ row.payout + row.other = transfer[t].amount
    BY <2>3 DEF SepayEvent
  <2>6. checking' \subseteq Transfers
    BY <2>1 DEF BankInv, BankTypeOK
  <2> HIDE DEF row
  <2>7. BankInv'
    BY <2>1, <2>5, <2>6, EventWritten
  <2>8. QED
    BY <2>4, <2>7
<1>4. QED
  BY <1>1, <1>2, <1>3 DEF Webhook

\* An administrator explains all of a transfer.
LEMMA ReconciliationKeepsInv ==
  ASSUME MoneyInv, BankInv, NEW t \in Transfers, Reconciliation(t)
  PROVE  MoneyInv' /\ BankInv'
<1> DEFINE amount == transfer[t].amount
<1>1. Waiting(t)
  BY DEF Reconciliation, AssignIncomingEvent, AssignOutgoingEvent,
         MarkEventOutOfScope
<1>2. /\ event[t] \in SepayEvent /\ transfer[t] # NoTransfer
      /\ amount \in Nat \ {0}
  BY <1>1, EventIsRow DEF Waiting
<1>3. event[t].payout = 0 /\ event[t].other = 0
  <2>1. event[t].payout + event[t].other = 0
    BY <1>1 DEF Waiting, BankInv, EventsAreExplained
  <2>2. event[t].payout \in Nat /\ event[t].other \in Nat
    BY <1>2 DEF SepayEvent
  <2>3. QED
    BY <2>1, <2>2
<1>4. checking \subseteq Transfers
  BY DEF BankInv, BankTypeOK
<1>5. ASSUME NEW w \in PersonalWallets, AssignIncomingEvent(t, w)
      PROVE  MoneyInv' /\ BankInv'
  <2> DEFINE row == [event[t] EXCEPT !.status = "matched", !.other = amount]
  <2>1. row \in SepayEvent /\ row.status = "matched"
        /\ row.payout + row.other = amount
    <3>1. row \in SepayEvent /\ row.status = "matched"
          /\ row.payout = event[t].payout /\ row.other = amount
      BY <1>2 DEF SepayEvent
    <3>2. QED
      BY <1>2, <1>3, <3>1
  <2>2. /\ event' = [event EXCEPT ![t] = row] /\ transfer' = transfer
        /\ checking' = checking
    BY <1>5 DEF AssignIncomingEvent
  <2> HIDE DEF row
  <2>3. BankInv'
    BY <1>2, <1>4, <2>1, <2>2, EventWritten
  <2>4. w \in Wallets
    BY DEF Wallets
  <2>5. /\ available' = [available EXCEPT ![w] = available[w] + amount]
        /\ earned' = [earned EXCEPT ![w] = earned[w] + amount]
        /\ UNCHANGED <<withdrawable, reserved, platform, request, today>>
    BY <1>5 DEF AssignIncomingEvent, requestVars
  <2>6. available[w] \in Nat /\ withdrawable[w] \in Nat
    BY <2>4 DEF MoneyInv, MoneyTypeOK
  <2>7. available' \in [Wallets -> Nat] /\ earned' \in [Wallets -> Int]
    <3>1. available[w] + amount \in Nat /\ earned[w] + amount \in Int
      BY <1>2, <2>4, <2>6 DEF MoneyInv, MoneyTypeOK
    <3>2. QED
      BY <2>5, <3>1 DEF MoneyInv, MoneyTypeOK
  <2>8. \A v \in Wallets : withdrawable'[v] <= available'[v]
    BY <1>2, <2>5, <2>6 DEF MoneyInv, MoneyTypeOK, RefundsAreAccepted
  <2>9. MoneyInv'
    BY <2>5, <2>7, <2>8, BalancesMove DEF MoneyInv, MoneyTypeOK
  <2>10. QED
    BY <2>3, <2>9
<1>6. ASSUME NEW r \in Requests, AssignOutgoingEvent(t, r)
      PROVE  MoneyInv' /\ BankInv'
  <2> DEFINE payout == IF amount < Remaining(r) THEN amount ELSE Remaining(r)
  <2> DEFINE row == [event[t] EXCEPT !.status = "matched", !.request = r,
                       !.payout = payout, !.other = amount - payout]
  <2>1. /\ event' = [event EXCEPT ![t] = row] /\ transfer' = transfer
        /\ checking' = checking /\ Open(r) /\ Settle(r, payout, 0)
    BY <1>6 DEF AssignOutgoingEvent
  <2>2. payout \in Nat /\ amount - payout \in Nat
    <3>1. /\ request[r].amount \in Nat /\ request[r].paid \in Nat
          /\ request[r].paid <= request[r].amount
      BY <2>1, RequestIsRow DEF MoneyInv, PaidOrReturned, Open
    <3>2. QED
      BY <1>2, <3>1 DEF Remaining
  <2> HIDE DEF payout
  <2>3. MoneyInv'
    BY <2>1, <2>2, SettleKeepsInv
  <2>4. row \in SepayEvent /\ row.status = "matched"
        /\ row.payout = payout /\ row.other = amount - payout
    BY <1>2, <2>2 DEF SepayEvent
  <2>5. row.payout + row.other = amount
    BY <1>2, <2>2, <2>4
  <2> HIDE DEF row
  <2>6. BankInv'
    BY <1>2, <1>4, <2>1, <2>4, <2>5, EventWritten
  <2>7. QED
    BY <2>3, <2>6
<1>7. CASE MarkEventOutOfScope(t)
  <2> DEFINE row == [event[t] EXCEPT !.status = "out_of_scope", !.other = amount]
  <2>1. row \in SepayEvent /\ row.status = "out_of_scope"
        /\ row.payout + row.other = amount
    <3>1. row \in SepayEvent /\ row.status = "out_of_scope"
          /\ row.payout = event[t].payout /\ row.other = amount
      BY <1>2 DEF SepayEvent
    <3>2. QED
      BY <1>2, <1>3, <3>1
  <2>2. /\ event' = [event EXCEPT ![t] = row] /\ transfer' = transfer
        /\ checking' = checking
    BY <1>7 DEF MarkEventOutOfScope
  <2> HIDE DEF row
  <2>3. BankInv'
    BY <1>2, <1>4, <2>1, <2>2, EventWritten
  <2>4. MoneyInv'
    BY <1>7, MoneyUntouched DEF MarkEventOutOfScope
  <2>5. QED
    BY <2>3, <2>4
<1>8. QED
  BY <1>5, <1>6, <1>7 DEF Reconciliation

\* What the owner and the administrator do with a request.
LEMMA WithdrawalKeepsInv ==
  ASSUME MoneyInv, BankInv, NEW r \in Requests, Withdrawal(r)
  PROVE  MoneyInv' /\ BankInv'
<1>1. BankInv'
  <2>1. UNCHANGED bankVars
    BY DEF Withdrawal, CreateWithdrawal, ReversePendingWithdrawal,
           ConfirmManualPayout, FinalizePartialWithdrawal
  <2>2. QED
    BY <2>1, BankUntouched
<1>2. CASE ConfirmManualPayout(r)
  <2>1. Open(r) /\ Settle(r, Remaining(r), Remaining(r))
    BY <1>2 DEF ConfirmManualPayout
  <2>2. Remaining(r) \in Nat
    BY <2>1, RequestIsRow DEF MoneyInv, PaidOrReturned, Open, Remaining
  <2>3. QED
    BY <1>1, <2>1, <2>2, SettleKeepsInv
<1>3. QED
  BY <1>1, <1>2, CreateKeepsInv, ReverseKeepsInv, FinalizeKeepsInv DEF Withdrawal

-----------------------------------------------------------------------------
(* The invariant *)

LEMMA InitIsRight == Init => WithdrawalInv
<1> SUFFICES ASSUME Init PROVE WithdrawalInv
  OBVIOUS
<1>1. TypeOK
  BY DEF Init, TypeOK
<1>2. QED
  BY <1>1 DEF Init, WithdrawalInv, ReservedIsOwed, RefundsAreAccepted,
     EventsAreExplained, PaidOrReturned, HasOpenRequest, Open, Made

LEMMA StepKeepsInv == WithdrawalInv /\ [Next]_vars => WithdrawalInv'
<1> SUFFICES ASSUME MoneyInv, BankInv, [Next]_vars
             PROVE  MoneyInv' /\ BankInv'
  BY InvHasTwoParts DEF WithdrawalInv, MoneyInv, BankInv, TypeOK, MoneyTypeOK,
     BankTypeOK
<1>1. CASE Platform
  <2>1. UNCHANGED bankVars
    BY <1>1 DEF Platform, Earn, Spend, NewDay
  <2>2. QED
    BY <1>1, <2>1, PlatformKeepsInv, BankUntouched
<1>2. CASE \E r \in Requests : Withdrawal(r)
  BY <1>2, WithdrawalKeepsInv
<1>3. CASE \E t \in Transfers : Bank(t) \/ Webhook(t) \/ Reconciliation(t)
  BY <1>3, BankKeepsInv, WebhookKeepsInv, ReconciliationKeepsInv
<1>4. CASE UNCHANGED vars
  BY <1>4, MoneyUntouched, BankUntouched DEF vars
<1>5. QED
  BY <1>1, <1>2, <1>3, <1>4 DEF Next

\* The inductive invariant, in every state the module reaches.
THEOREM WithdrawalsCorrect == Spec => []WithdrawalInv
BY InitIsRight, StepKeepsInv, PTL DEF Spec

\* No balance of a wallet becomes negative.
THEOREM WithdrawalsTypeCorrect == Spec => []TypeOK
<1>1. WithdrawalInv => TypeOK
  BY DEF WithdrawalInv
<1>2. QED
  BY <1>1, WithdrawalsCorrect, PTL

\* What a wallet has reserved is what its one open request still has to pay.
THEOREM ReserveIsOwed == Spec => []ReservedIsOwed
<1>1. WithdrawalInv => ReservedIsOwed
  BY DEF WithdrawalInv
<1>2. QED
  BY <1>1, WithdrawalsCorrect, PTL

\* The withdrawable part of a wallet never exceeds its balance, so that
\* postLedgerEntry turns no refund down.
THEOREM RefundsGoThrough == Spec => []RefundsAreAccepted
<1>1. WithdrawalInv => RefundsAreAccepted
  BY DEF WithdrawalInv
<1>2. QED
  BY <1>1, WithdrawalsCorrect, PTL

\* The allocations of a bank transfer explain all of it or none of it.
THEOREM TransfersAreExplained == Spec => []EventsAreExplained
<1>1. WithdrawalInv => EventsAreExplained
  BY DEF WithdrawalInv
<1>2. QED
  BY <1>1, WithdrawalsCorrect, PTL

\* No request pays out more than it asked for, and none that was taken back has
\* paid anything.
THEOREM NothingPaidIsReturned == Spec => []PaidOrReturned
<1>1. WithdrawalInv => PaidOrReturned
  BY DEF WithdrawalInv
<1>2. QED
  BY <1>1, WithdrawalsCorrect, PTL

-----------------------------------------------------------------------------
(* Conservation of money *)

\* The ledgers behind the sums, over a table of requests: the table of a step
\* and the one after it give two values of each.
PaidLedger(req, S) == [s \in S |-> req[s].paid]
FeeLedger(req, S) == [s \in S |-> req[s].fee]
GrossLedger(req, S) == [s \in S |-> req[s].amount + req[s].fee]

KeptOf(w) == {r \in RequestsOf(w) : request[r].status # "rejected"}

LEMMA SumsAreLedgers ==
  ASSUME NEW w
  PROVE  /\ PaidTo(w) = SumFunction(PaidLedger(request, RequestsOf(w)))
         /\ FeesOf(w) = SumFunction(FeeLedger(request, KeptOf(w)))
BY DEF PaidTo, FeesOf, Fees, PaidLedger, FeeLedger, KeptOf

LEMMA SumsAreLedgersAfter ==
  ASSUME NEW w
  PROVE  /\ PaidTo(w)' = SumFunction(PaidLedger(request', RequestsOf(w)'))
         /\ FeesOf(w)' = SumFunction(FeeLedger(request', KeptOf(w)'))
BY DEF PaidTo, FeesOf, Fees, PaidLedger, FeeLedger, KeptOf

\* Of a table whose rows are rows, the ledgers are ledgers of amounts.
LEMMA LedgersOfRows ==
  ASSUME NEW req, NEW S, S \subseteq Requests, \A s \in S : req[s] \in Request
  PROVE  /\ IsFiniteSet(S)
         /\ PaidLedger(req, S) \in [S -> Int]
         /\ FeeLedger(req, S) \in [S -> Int]
         /\ GrossLedger(req, S) \in [S -> Int]
         /\ SumFunction(PaidLedger(req, S)) \in Int
         /\ SumFunction(FeeLedger(req, S)) \in Int
         /\ SumFunction(GrossLedger(req, S)) \in Int
<1>1. IsFiniteSet(S)
  BY FiniteAssumption, FS_Subset
<1>2. \A s \in S : req[s].paid \in Int /\ req[s].fee \in Int /\ req[s].amount \in Int
  BY DEF Request
<1>3. /\ PaidLedger(req, S) \in [S -> Int] /\ FeeLedger(req, S) \in [S -> Int]
      /\ GrossLedger(req, S) \in [S -> Int]
  BY <1>2 DEF PaidLedger, FeeLedger, GrossLedger
<1>4. QED
  BY <1>1, <1>3, LedgerIsInteger

\* In table new, row r joins the rows of S, which are those of table req.
RowJoins(r, S, req, new) ==
  /\ S \subseteq Requests /\ r \in Requests /\ r \notin S
  /\ \A s \in S : req[s] \in Request /\ new[s] = req[s]
  /\ new[r] \in Request

\* The sums of table new exceed those of table req by what r pays and costs.
SumsGrow(r, S, req, new) ==
  /\ SumFunction(PaidLedger(new, S \cup {r}))
       = SumFunction(PaidLedger(req, S)) + new[r].paid
  /\ SumFunction(FeeLedger(new, S \cup {r}))
       = SumFunction(FeeLedger(req, S)) + new[r].fee
  /\ SumFunction(GrossLedger(new, S \cup {r}))
       = SumFunction(GrossLedger(req, S)) + (new[r].amount + new[r].fee)

LEMMA LedgersWith ==
  ASSUME NEW r, NEW S, NEW req, NEW new, RowJoins(r, S, req, new)
  PROVE  SumsGrow(r, S, req, new)
<1> USE DEF RowJoins
<1> DEFINE T == S \cup {r}
<1>1. /\ IsFiniteSet(S) /\ PaidLedger(req, S) \in [S -> Int]
      /\ FeeLedger(req, S) \in [S -> Int] /\ GrossLedger(req, S) \in [S -> Int]
  BY LedgersOfRows
<1>2. /\ PaidLedger(new, T) \in [T -> Int] /\ FeeLedger(new, T) \in [T -> Int]
      /\ GrossLedger(new, T) \in [T -> Int]
  BY LedgersOfRows
<1>3. /\ \A s \in S : PaidLedger(new, T)[s] = PaidLedger(req, S)[s]
      /\ \A s \in S : FeeLedger(new, T)[s] = FeeLedger(req, S)[s]
      /\ \A s \in S : GrossLedger(new, T)[s] = GrossLedger(req, S)[s]
      /\ PaidLedger(new, T)[r] = new[r].paid
      /\ FeeLedger(new, T)[r] = new[r].fee
      /\ GrossLedger(new, T)[r] = new[r].amount + new[r].fee
  BY DEF PaidLedger, FeeLedger, GrossLedger
<1>4. \A f \in [S -> Int], g \in [T -> Int] :
        (\A s \in S : g[s] = f[s]) => SumFunction(g) = SumFunction(f) + g[r]
  BY <1>1, LedgerWith DEF RowJoins
<1>5. /\ SumFunction(PaidLedger(new, T))
           = SumFunction(PaidLedger(req, S)) + PaidLedger(new, T)[r]
      /\ SumFunction(FeeLedger(new, T))
           = SumFunction(FeeLedger(req, S)) + FeeLedger(new, T)[r]
      /\ SumFunction(GrossLedger(new, T))
           = SumFunction(GrossLedger(req, S)) + GrossLedger(new, T)[r]
  BY <1>1, <1>2, <1>3, <1>4
<1>6. QED
  BY <1>3, <1>5 DEF SumsGrow

\* The ledgers of rows that stay are what they were.
LEMMA LedgersStay ==
  ASSUME NEW req, NEW new, NEW S, \A s \in S : new[s] = req[s]
  PROVE  /\ PaidLedger(new, S) = PaidLedger(req, S)
         /\ FeeLedger(new, S) = FeeLedger(req, S)
         /\ GrossLedger(new, S) = GrossLedger(req, S)
BY DEF PaidLedger, FeeLedger, GrossLedger

LEMMA RequestsOfAreRows ==
  ASSUME MoneyTypeOK, NEW w
  PROVE  /\ RequestsOf(w) \subseteq Requests /\ KeptOf(w) \subseteq RequestsOf(w)
         /\ \A s \in RequestsOf(w) : request[s] \in Request
         /\ PaidTo(w) \in Int /\ FeesOf(w) \in Int
<1>1. /\ RequestsOf(w) \subseteq Requests /\ KeptOf(w) \subseteq RequestsOf(w)
      /\ \A s \in RequestsOf(w) : request[s] \in Request
  BY RequestIsRow DEF RequestsOf, KeptOf
<1>2. QED
  BY <1>1, LedgersOfRows, SumsAreLedgers

\* A request of w is made or changed: the sums of other wallets stay.
LEMMA SumsOfOthers ==
  ASSUME NEW r \in Requests, NEW w, NEW v, v # w,
         request'[r].wallet = w, Made(r) => request[r].wallet = w,
         \A s \in Requests : s # r => request'[s] = request[s]
  PROVE  PaidTo(v)' = PaidTo(v) /\ FeesOf(v)' = FeesOf(v)
<1>1. /\ RequestsOf(v)' = RequestsOf(v) /\ KeptOf(v)' = KeptOf(v)
      /\ \A s \in RequestsOf(v) : request'[s] = request[s]
      /\ \A s \in KeptOf(v) : request'[s] = request[s]
  BY DEF RequestsOf, KeptOf, Made
<1>2. /\ PaidLedger(request', RequestsOf(v)) = PaidLedger(request, RequestsOf(v))
      /\ FeeLedger(request', KeptOf(v)) = FeeLedger(request, KeptOf(v))
  BY <1>1, LedgersStay
<1>3. QED
  BY <1>1, <1>2, SumsAreLedgers, SumsAreLedgersAfter

\* A new request adds its fee, one that is changed the payout.
LEMMA SumsOfNewRequest ==
  ASSUME MoneyTypeOK, NEW r \in Requests, ~Made(r), NEW w,
         request'[r] \in Request, request'[r].wallet = w,
         request'[r].status # "rejected",
         \A s \in Requests : s # r => request'[s] = request[s]
  PROVE  /\ PaidTo(w)' = PaidTo(w) + request'[r].paid
         /\ FeesOf(w)' = FeesOf(w) + request'[r].fee
<1>1. request'[r] # NoRequest
  BY RowAssumption
<1>2. /\ RequestsOf(w)' = RequestsOf(w) \cup {r} /\ KeptOf(w)' = KeptOf(w) \cup {r}
      /\ r \notin RequestsOf(w) /\ r \notin KeptOf(w)
      /\ \A s \in RequestsOf(w) : request'[s] = request[s]
  BY <1>1 DEF RequestsOf, KeptOf, Made
<1>3. /\ RowJoins(r, RequestsOf(w), request, request')
      /\ RowJoins(r, KeptOf(w), request, request')
  BY <1>2, RequestsOfAreRows DEF RowJoins
<1>4. /\ SumFunction(PaidLedger(request', RequestsOf(w) \cup {r}))
           = SumFunction(PaidLedger(request, RequestsOf(w))) + request'[r].paid
      /\ SumFunction(FeeLedger(request', KeptOf(w) \cup {r}))
           = SumFunction(FeeLedger(request, KeptOf(w))) + request'[r].fee
  <2>1. /\ SumsGrow(r, RequestsOf(w), request, request')
        /\ SumsGrow(r, KeptOf(w), request, request')
    BY <1>3, LedgersWith
  <2>2. QED
    BY <2>1 DEF SumsGrow
<1>5. QED
  BY <1>2, <1>4, SumsAreLedgers, SumsAreLedgersAfter

LEMMA SumsOfChangedRequest ==
  ASSUME MoneyTypeOK, NEW r \in Requests, Made(r),
         request[r].status # "rejected", NEW w, request[r].wallet = w,
         request'[r] \in Request, request'[r].wallet = w,
         request'[r].fee = request[r].fee,
         \A s \in Requests : s # r => request'[s] = request[s]
  PROVE  /\ PaidTo(w)' = PaidTo(w) - request[r].paid + request'[r].paid
         /\ FeesOf(w)' = IF request'[r].status = "rejected"
                         THEN FeesOf(w) - request[r].fee ELSE FeesOf(w)
<1> DEFINE R == RequestsOf(w) \ {r}
<1> DEFINE K == KeptOf(w) \ {r}
<1>1. request'[r] # NoRequest
  BY RowAssumption
<1>2. /\ RequestsOf(w) = R \cup {r} /\ RequestsOf(w)' = R \cup {r}
      /\ KeptOf(w) = K \cup {r}
      /\ KeptOf(w)' = IF request'[r].status = "rejected" THEN K ELSE K \cup {r}
  BY <1>1 DEF RequestsOf, KeptOf, Made
<1>3. /\ R \subseteq Requests /\ K \subseteq Requests /\ r \notin R /\ r \notin K
      /\ \A s \in R : request[s] \in Request /\ request'[s] = request[s]
      /\ \A s \in K : request[s] \in Request /\ request'[s] = request[s]
      /\ request[r] \in Request
  BY <1>2, RequestsOfAreRows
<1> HIDE DEF R, K
<1>4. /\ SumFunction(PaidLedger(request, R \cup {r}))
           = SumFunction(PaidLedger(request, R)) + request[r].paid
      /\ SumFunction(FeeLedger(request, K \cup {r}))
           = SumFunction(FeeLedger(request, K)) + request[r].fee
  <2>1. RowJoins(r, R, request, request) /\ RowJoins(r, K, request, request)
    BY <1>3 DEF RowJoins
  <2>2. SumsGrow(r, R, request, request) /\ SumsGrow(r, K, request, request)
    BY <2>1, LedgersWith
  <2>3. QED
    BY <2>2 DEF SumsGrow
<1>5. /\ SumFunction(PaidLedger(request', R \cup {r}))
           = SumFunction(PaidLedger(request, R)) + request'[r].paid
      /\ SumFunction(FeeLedger(request', K \cup {r}))
           = SumFunction(FeeLedger(request, K)) + request'[r].fee
  <2>1. RowJoins(r, R, request, request') /\ RowJoins(r, K, request, request')
    BY <1>3 DEF RowJoins
  <2>2. SumsGrow(r, R, request, request') /\ SumsGrow(r, K, request, request')
    BY <2>1, LedgersWith
  <2>3. QED
    BY <2>2 DEF SumsGrow
<1>6. FeeLedger(request', K) = FeeLedger(request, K)
  BY <1>3, LedgersStay
<1>7. /\ SumFunction(PaidLedger(request, R)) \in Int
      /\ SumFunction(FeeLedger(request, K)) \in Int
      /\ request[r].paid \in Int /\ request'[r].paid \in Int
      /\ request[r].fee \in Int
  BY <1>3, LedgersOfRows DEF Request
<1>8. /\ PaidTo(w)' = SumFunction(PaidLedger(request', R \cup {r}))
      /\ PaidTo(w) = SumFunction(PaidLedger(request, R \cup {r}))
      /\ FeesOf(w) = SumFunction(FeeLedger(request, K \cup {r}))
      /\ request'[r].status = "rejected" =>
           FeesOf(w)' = SumFunction(FeeLedger(request', K))
      /\ request'[r].status # "rejected" =>
           FeesOf(w)' = SumFunction(FeeLedger(request', K \cup {r}))
  BY <1>2, SumsAreLedgers, SumsAreLedgersAfter
<1>9. QED
  BY <1>4, <1>5, <1>6, <1>7, <1>8

\* What a wallet accounts for: all but the two sums moves with its balances.
Accounted(w) == available[w] + reserved[w] + PaidTo(w) + FeesOf(w)

\* A step that makes or changes a request of w, and moves money in w only.
LEMMA OneWalletMoves ==
  ASSUME WalletConserved, NEW r \in Requests, NEW w \in Wallets,
         request'[r].wallet = w, Made(r) => request[r].wallet = w,
         \A s \in Requests : s # r => request'[s] = request[s],
         \A v \in Wallets : v # w => /\ available'[v] = available[v]
                                     /\ reserved'[v] = reserved[v],
         earned' = earned, Accounted(w)' = Accounted(w)
  PROVE  WalletConserved'
<1>1. ASSUME NEW v \in Wallets PROVE Accounted(v)' = Accounted(v)
  <2>1. CASE v = w
    BY <2>1
  <2>2. CASE v # w
    <3>1. PaidTo(v)' = PaidTo(v) /\ FeesOf(v)' = FeesOf(v)
      BY <2>2, SumsOfOthers
    <3>2. QED
      BY <2>2, <3>1 DEF Accounted
  <2>3. QED
    BY <2>1, <2>2
<1>2. \A v \in Wallets : earned[v] = Accounted(v)
  BY DEF WalletConserved, Accounted
<1>3. \A v \in Wallets : earned'[v] = Accounted(v)'
  BY <1>1, <1>2
<1>4. QED
  BY <1>3 DEF WalletConserved, Accounted

\* Requests that stay keep the sums.
LEMMA BalancesMoveAlike ==
  ASSUME MoneyTypeOK, WalletConserved, request' = request, reserved' = reserved,
         \A w \in Wallets : earned'[w] - earned[w] = available'[w] - available[w],
         available' \in [Wallets -> Nat], earned' \in [Wallets -> Int]
  PROVE  WalletConserved'
<1>1. ASSUME NEW w \in Wallets
      PROVE  /\ PaidTo(w)' = PaidTo(w) /\ FeesOf(w)' = FeesOf(w)
             /\ PaidTo(w) \in Int /\ FeesOf(w) \in Int
  BY RequestsOfAreRows DEF PaidTo, FeesOf, Fees, RequestsOf, Made
<1>2. QED
  BY <1>1 DEF WalletConserved, MoneyTypeOK

\* What a payout does to the request: its row stays a row.
LEMMA SettledRow ==
  ASSUME MoneyTypeOK, NEW r \in Requests, Made(r), NEW amount \in Nat,
         NEW manual \in Nat, Settle(r, amount, manual)
  PROVE  /\ request'[r] \in Request /\ request'[r] # NoRequest
         /\ request'[r].wallet = request[r].wallet
         /\ request'[r].amount = request[r].amount
         /\ request'[r].fee = request[r].fee
         /\ request'[r].paid = request[r].paid + amount
         /\ request'[r].manual = request[r].manual + manual
         /\ request'[r].status \in {"paid", "partially_paid"}
         /\ \A s \in Requests : s # r => request'[s] = request[s]
<1> DEFINE paid == request[r].paid + amount
<1> DEFINE hand == request[r].manual + manual
<1> DEFINE status == IF paid = request[r].amount THEN "paid" ELSE "partially_paid"
<1>1. /\ request[r] \in Request /\ paid \in Nat /\ hand \in Nat
      /\ status \in {"paid", "partially_paid"}
  BY RequestIsRow
<1>2. /\ request'[r] = [request[r] EXCEPT !.paid = paid, !.manual = hand,
                                          !.status = status]
      /\ \A s \in Requests : s # r => request'[s] = request[s]
  BY DEF Settle, MoneyTypeOK
<1> HIDE DEF paid, hand, status
<1>3. /\ request'[r] \in Request
      /\ request'[r].wallet = request[r].wallet
      /\ request'[r].amount = request[r].amount
      /\ request'[r].fee = request[r].fee
      /\ request'[r].paid = paid /\ request'[r].manual = hand
      /\ request'[r].status = status
  BY <1>1, <1>2 DEF Request
<1>4. QED
  BY <1>1, <1>2, <1>3, RowAssumption DEF paid, hand

LEMMA SettleConserves ==
  ASSUME MoneyInv, WalletConserved, NEW r \in Requests, Open(r),
         NEW amount \in Nat, NEW manual \in Nat, Settle(r, amount, manual)
  PROVE  WalletConserved'
<1>1. PICK w \in Wallets : w = request[r].wallet
  BY RequestIsRow DEF MoneyInv, Open
<1>2. /\ MoneyTypeOK /\ Made(r) /\ request[r].status # "rejected"
      /\ request[r].paid \in Nat
  BY RequestIsRow DEF MoneyInv, Open
<1>3. /\ request'[r] \in Request /\ request'[r].wallet = w
      /\ request'[r].fee = request[r].fee
      /\ request'[r].paid = request[r].paid + amount
      /\ request'[r].status # "rejected"
      /\ \A s \in Requests : s # r => request'[s] = request[s]
  BY <1>1, <1>2, SettledRow
<1>4. /\ PaidTo(w)' = PaidTo(w) - request[r].paid + request'[r].paid
      /\ FeesOf(w)' = FeesOf(w)
  BY <1>1, <1>2, <1>3, SumsOfChangedRequest
<1>5. PaidTo(w) \in Int /\ FeesOf(w) \in Int
  BY <1>2, RequestsOfAreRows
<1>6. /\ reserved'[w] = reserved[w] - amount /\ reserved[w] \in Nat
      /\ available' = available /\ earned' = earned /\ available[w] \in Nat
      /\ \A v \in Wallets : v # w => reserved'[v] = reserved[v]
  BY <1>1, <1>2 DEF Settle, MoneyTypeOK
<1>7. Accounted(w)' = Accounted(w)
  BY <1>2, <1>3, <1>4, <1>5, <1>6 DEF Accounted
<1>8. QED
  BY <1>1, <1>3, <1>6, <1>7, OneWalletMoves

LEMMA CreateConserves ==
  ASSUME MoneyInv, WalletConserved, NEW r \in Requests, NEW w \in Wallets,
         NEW gross \in GrossAmounts, CreateWithdrawal(r, w, gross)
  PROVE  WalletConserved'
<1> DEFINE fee == Fee(w, gross)
<1> DEFINE row == [wallet |-> w, amount |-> gross - fee, fee |-> fee, paid |-> 0,
                   manual |-> 0, status |-> "pending"]
<1>1. MoneyTypeOK /\ ~Made(r) /\ gross \in Nat /\ fee \in 0..gross
  BY FeeIsPart, AmountAssumption DEF CreateWithdrawal, MoneyInv
<1>2. request'[r] = row /\ \A s \in Requests : s # r => request'[s] = request[s]
  BY <1>1 DEF CreateWithdrawal, MoneyTypeOK
<1>3. row \in Request
  BY <1>1 DEF Request
<1>4. /\ PaidTo(w)' = PaidTo(w) + 0
      /\ FeesOf(w)' = FeesOf(w) + fee
  BY <1>1, <1>2, <1>3, SumsOfNewRequest
<1>5. PaidTo(w) \in Int /\ FeesOf(w) \in Int
  BY <1>1, RequestsOfAreRows
<1>6. /\ reserved'[w] = reserved[w] + (gross - fee)
      /\ available'[w] = available[w] - gross
      /\ reserved[w] \in Nat /\ available[w] \in Nat /\ earned' = earned
      /\ \A v \in Wallets : v # w => /\ available'[v] = available[v]
                                     /\ reserved'[v] = reserved[v]
  BY <1>1 DEF CreateWithdrawal, MoneyTypeOK
<1> HIDE DEF fee
<1>7. Accounted(w)' = Accounted(w)
  BY <1>1, <1>4, <1>5, <1>6 DEF Accounted
<1>8. QED
  BY <1>1, <1>2, <1>6, <1>7, OneWalletMoves

LEMMA ReverseConserves ==
  ASSUME MoneyInv, WalletConserved, NEW r \in Requests, ReversePendingWithdrawal(r)
  PROVE  WalletConserved'
<1>1. MoneyTypeOK /\ Made(r) /\ request[r].status = "pending"
  BY DEF ReversePendingWithdrawal, MoneyInv
<1>2. PICK w \in Wallets : w = request[r].wallet
  BY <1>1, RequestIsRow
<1>3. /\ request[r] \in Request /\ request[r].amount \in Nat
      /\ request[r].fee \in Nat /\ request[r].paid \in Nat
  BY <1>1, RequestIsRow
<1>4. /\ request'[r] = [request[r] EXCEPT !.status = "rejected"]
      /\ \A s \in Requests : s # r => request'[s] = request[s]
  BY <1>1 DEF ReversePendingWithdrawal, MoneyTypeOK
<1>5. /\ request'[r] \in Request /\ request'[r].wallet = w
      /\ request'[r].fee = request[r].fee /\ request'[r].paid = request[r].paid
      /\ request'[r].status = "rejected"
  BY <1>2, <1>3, <1>4 DEF Request
<1>6. /\ PaidTo(w)' = PaidTo(w) - request[r].paid + request'[r].paid
      /\ FeesOf(w)' = FeesOf(w) - request[r].fee
  BY <1>1, <1>2, <1>4, <1>5, SumsOfChangedRequest
<1>7. PaidTo(w) \in Int /\ FeesOf(w) \in Int
  BY <1>1, RequestsOfAreRows
<1>8. /\ reserved'[w] = reserved[w] - request[r].amount
      /\ available'[w] = available[w] + (request[r].amount + request[r].fee)
      /\ reserved[w] \in Nat /\ available[w] \in Nat /\ earned' = earned
      /\ \A v \in Wallets : v # w => /\ available'[v] = available[v]
                                     /\ reserved'[v] = reserved[v]
  BY <1>1, <1>2 DEF ReversePendingWithdrawal, MoneyTypeOK
<1>9. Accounted(w)' = Accounted(w)
  BY <1>3, <1>5, <1>6, <1>7, <1>8 DEF Accounted
<1>10. QED
  BY <1>2, <1>4, <1>5, <1>8, <1>9, OneWalletMoves

LEMMA FinalizeConserves ==
  ASSUME MoneyInv, WalletConserved, NEW r \in Requests, FinalizePartialWithdrawal(r)
  PROVE  WalletConserved'
<1>1. MoneyTypeOK /\ Made(r) /\ request[r].status = "partially_paid"
  BY DEF FinalizePartialWithdrawal, MoneyInv
<1>2. PICK w \in Wallets : w = request[r].wallet
  BY <1>1, RequestIsRow
<1>3. /\ request[r] \in Request /\ request[r].fee \in Nat
      /\ request[r].paid \in Nat /\ Remaining(r) \in Int
  BY <1>1, RequestIsRow DEF Remaining
<1>4. /\ request'[r] = [request[r] EXCEPT !.status = "paid"]
      /\ \A s \in Requests : s # r => request'[s] = request[s]
  BY <1>1 DEF FinalizePartialWithdrawal, MoneyTypeOK
<1>5. /\ request'[r] \in Request /\ request'[r].wallet = w
      /\ request'[r].fee = request[r].fee /\ request'[r].paid = request[r].paid
      /\ request'[r].status = "paid"
  BY <1>2, <1>3, <1>4 DEF Request
<1>6. /\ PaidTo(w)' = PaidTo(w) - request[r].paid + request'[r].paid
      /\ FeesOf(w)' = FeesOf(w)
  BY <1>1, <1>2, <1>4, <1>5, SumsOfChangedRequest
<1>7. PaidTo(w) \in Int /\ FeesOf(w) \in Int
  BY <1>1, RequestsOfAreRows
<1>8. /\ reserved'[w] = reserved[w] - Remaining(r)
      /\ available'[w] = available[w] + Remaining(r)
      /\ reserved[w] \in Nat /\ available[w] \in Nat /\ earned' = earned
      /\ \A v \in Wallets : v # w => /\ available'[v] = available[v]
                                     /\ reserved'[v] = reserved[v]
  BY <1>1, <1>2 DEF FinalizePartialWithdrawal, MoneyTypeOK
<1>9. Accounted(w)' = Accounted(w)
  BY <1>3, <1>5, <1>6, <1>7, <1>8 DEF Accounted
<1>10. QED
  BY <1>2, <1>4, <1>5, <1>8, <1>9, OneWalletMoves

\* What the platform pays into a wallet or takes from it is earned or spent.
LEMMA PlatformConserves ==
  ASSUME MoneyInv, WalletConserved, Platform
  PROVE  WalletConserved'
<1>1. MoneyTypeOK /\ MoneyTypeOK'
  BY PlatformKeepsInv DEF MoneyInv
<1>2. request' = request /\ reserved' = reserved
  BY DEF Platform, Earn, Spend, NewDay, requestVars, walletVars
<1>3. \A w \in Wallets : earned'[w] - earned[w] = available'[w] - available[w]
  <2>1. ASSUME NEW w \in Wallets, NEW a \in GrossAmounts, NEW refund \in BOOLEAN,
               Earn(w, a, refund)
        PROVE  \A v \in Wallets : earned'[v] - earned[v] = available'[v] - available[v]
    BY <1>1, <2>1, AmountAssumption DEF Earn, MoneyTypeOK
  <2>2. ASSUME NEW w \in Wallets, NEW a \in GrossAmounts, Spend(w, a)
        PROVE  \A v \in Wallets : earned'[v] - earned[v] = available'[v] - available[v]
    <3>1. /\ available' = [available EXCEPT ![w] = available[w] - a]
          /\ earned' = [earned EXCEPT ![w] = earned[w] - a]
      BY <2>2 DEF Spend
    <3>2. QED
      BY <1>1, <3>1, AmountAssumption DEF MoneyTypeOK
  <2>3. CASE NewDay
    BY <1>1, <2>3 DEF NewDay, walletVars, MoneyTypeOK
  <2>4. QED
    BY <2>1, <2>2, <2>3 DEF Platform
<1>4. QED
  BY <1>1, <1>2, <1>3, BalancesMoveAlike DEF MoneyTypeOK

LEMMA TransferConserves ==
  ASSUME MoneyInv, BankInv, WalletConserved, NEW t \in Transfers,
         Bank(t) \/ Webhook(t) \/ Reconciliation(t)
  PROVE  WalletConserved'
<1>1. MoneyTypeOK /\ MoneyTypeOK'
  BY BankKeepsInv, WebhookKeepsInv, ReconciliationKeepsInv DEF MoneyInv
<1>2. ASSUME UNCHANGED walletVars, UNCHANGED requestVars
      PROVE  WalletConserved'
  BY <1>1, <1>2, BalancesMoveAlike DEF walletVars, requestVars, MoneyTypeOK
<1>3. ASSUME NEW r \in Requests, NEW amount \in Nat, Open(r), Settle(r, amount, 0)
      PROVE  WalletConserved'
  BY <1>3, SettleConserves
<1>4. CASE MatchTransfer(t)
  <2>1. /\ transfer[t] # NoTransfer /\ transfer[t].code # NoRequest
        /\ Open(transfer[t].code)
        /\ Settle(transfer[t].code, transfer[t].amount, 0)
    BY <1>4 DEF MatchTransfer, Unrecorded, Matches
  <2>2. transfer[t].code \in Requests /\ transfer[t].amount \in Nat
    BY <2>1, AmountAssumption DEF BankInv, BankTypeOK, Transfer
  <2>3. QED
    BY <1>3, <2>1, <2>2
<1>5. ASSUME NEW w \in PersonalWallets, AssignIncomingEvent(t, w)
      PROVE  WalletConserved'
  <2>1. transfer[t].amount \in Nat /\ w \in Wallets
    BY <1>5, EventIsRow DEF AssignIncomingEvent, Waiting, Wallets
  <2>2. /\ request' = request /\ reserved' = reserved
        /\ available' = [available EXCEPT ![w] = available[w] + transfer[t].amount]
        /\ earned' = [earned EXCEPT ![w] = earned[w] + transfer[t].amount]
    BY <1>5 DEF AssignIncomingEvent, requestVars
  <2>3. \A v \in Wallets : earned'[v] - earned[v] = available'[v] - available[v]
    BY <1>1, <2>1, <2>2 DEF MoneyTypeOK
  <2>4. QED
    BY <1>1, <2>2, <2>3, BalancesMoveAlike DEF MoneyTypeOK
<1>6. ASSUME NEW r \in Requests, AssignOutgoingEvent(t, r)
      PROVE  WalletConserved'
  <2> DEFINE payout == IF transfer[t].amount < Remaining(r)
                       THEN transfer[t].amount ELSE Remaining(r)
  <2>1. Open(r) /\ Settle(r, payout, 0) /\ transfer[t].amount \in Nat
    BY <1>6, EventIsRow DEF AssignOutgoingEvent, Waiting
  <2>2. Remaining(r) \in Nat
    BY <2>1, RequestIsRow DEF MoneyInv, PaidOrReturned, Open, Remaining
  <2>3. payout \in Nat
    BY <2>1, <2>2
  <2> HIDE DEF payout
  <2>4. QED
    BY <1>3, <2>1, <2>3
<1>7. QED
  BY <1>2, <1>4, <1>5, <1>6
  DEF Bank, Webhook, Reconciliation, MakeTransfer, FindRequest,
      RecordUnmatched, MarkEventOutOfScope

LEMMA RequestConserves ==
  ASSUME MoneyInv, WalletConserved, NEW r \in Requests, Withdrawal(r)
  PROVE  WalletConserved'
<1>1. CASE ConfirmManualPayout(r)
  <2>1. Open(r) /\ Settle(r, Remaining(r), Remaining(r))
    BY <1>1 DEF ConfirmManualPayout
  <2>2. Remaining(r) \in Nat
    BY <2>1, RequestIsRow DEF MoneyInv, PaidOrReturned, Open, Remaining
  <2>3. QED
    BY <2>1, <2>2, SettleConserves
<1>2. QED
  BY <1>1, CreateConserves, ReverseConserves, FinalizeConserves DEF Withdrawal

\* What a wallet has earned is in it, was kept as fee, or was paid out: no
\* handler of withdrawals or of bank transfers makes or loses money.
THEOREM EarningsAreConserved == Spec => []WalletConserved
<1>1. Init => WalletConserved
  <2> SUFFICES ASSUME Init, NEW w \in Wallets
               PROVE  earned[w] = available[w] + reserved[w] + PaidTo(w) + FeesOf(w)
    BY DEF WalletConserved
  <2>1. RequestsOf(w) = {} /\ KeptOf(w) = {}
    BY DEF Init, RequestsOf, KeptOf, Made
  <2>2. PaidTo(w) = 0 /\ FeesOf(w) = 0
    BY <2>1, SumsAreLedgers, LedgerIsEmpty DEF PaidLedger, FeeLedger
  <2>3. QED
    BY <2>2 DEF Init
<1>2. WithdrawalInv /\ WalletConserved /\ [Next]_vars => WalletConserved'
  <2> SUFFICES ASSUME MoneyInv, BankInv, WalletConserved, [Next]_vars
               PROVE  WalletConserved'
    BY InvHasTwoParts
  <2>1. CASE Platform
    BY <2>1, PlatformConserves
  <2>2. CASE \E r \in Requests : Withdrawal(r)
    BY <2>2, RequestConserves
  <2>3. CASE \E t \in Transfers : Bank(t) \/ Webhook(t) \/ Reconciliation(t)
    BY <2>3, TransferConserves
  <2>4. CASE UNCHANGED vars
    BY <2>4, BalancesMoveAlike
    DEF vars, walletVars, requestVars, MoneyInv, MoneyTypeOK
  <2>5. QED
    BY <2>1, <2>2, <2>3, <2>4 DEF Next
<1>3. QED
  BY <1>1, <1>2, WithdrawalsCorrect, PTL DEF Spec

-----------------------------------------------------------------------------
(* Payouts and the transfers they were made by *)

\* An event that waits is not matched, and one that is names a request that was
\* made.  Without it a new request could be born with payouts.
EventsNameRequests ==
  \A t \in Transfers : event[t] # NoEvent =>
    /\ event[t].status = "unmatched" => event[t].request = NoRequest
    /\ event[t].request # NoRequest => Made(event[t].request)

PayoutInv == PayoutsAreExplained /\ EventsNameRequests

PayoutLedger(evt, S) == [t \in S |-> evt[t].payout]

LEMMA PayoutsAreLedgers ==
  ASSUME NEW r
  PROVE  /\ PaidByEvents(r) = SumFunction(PayoutLedger(event, EventsOf(r)))
         /\ PaidByEvents(r)' = SumFunction(PayoutLedger(event', EventsOf(r)'))
BY DEF PaidByEvents, PayoutLedger

LEMMA PayoutsAreAmounts ==
  ASSUME BankTypeOK, NEW r \in Requests
  PROVE  PaidByEvents(r) \in Int
<1>1. IsFiniteSet(EventsOf(r))
  BY FiniteAssumption, FS_Subset DEF EventsOf
<1>2. \A t \in EventsOf(r) : event[t].payout \in Int
  BY DEF EventsOf, BankTypeOK, SepayEvent
<1>3. PayoutLedger(event, EventsOf(r)) \in [EventsOf(r) -> Int]
  BY <1>2 DEF PayoutLedger
<1>4. QED
  BY <1>1, <1>3, LedgerIsInteger, PayoutsAreLedgers

\* The event of a transfer is written for another request than r, or for none.
LEMMA PayoutsOfOthers ==
  ASSUME BankTypeOK, NEW t \in Transfers, NEW row, event' = [event EXCEPT ![t] = row],
         NEW r \in Requests, t \notin EventsOf(r), row.request # r
  PROVE  PaidByEvents(r)' = PaidByEvents(r)
<1>1. EventsOf(r)' = EventsOf(r) /\ \A u \in EventsOf(r) : event'[u] = event[u]
  BY DEF EventsOf, BankTypeOK
<1>2. PayoutLedger(event', EventsOf(r)) = PayoutLedger(event, EventsOf(r))
  BY <1>1 DEF PayoutLedger
<1>3. QED
  BY <1>1, <1>2, PayoutsAreLedgers

\* It is written for r.
LEMMA PayoutsOfMatched ==
  ASSUME BankTypeOK, NEW t \in Transfers, NEW row \in SepayEvent,
         event' = [event EXCEPT ![t] = row],
         NEW r \in Requests, t \notin EventsOf(r), row.request = r
  PROVE  PaidByEvents(r)' = PaidByEvents(r) + row.payout
<1> DEFINE S == EventsOf(r)
<1> DEFINE T == EventsOf(r)'
<1>1. row # NoEvent
  BY RowAssumption
<1>2. /\ T = S \cup {t} /\ \A u \in S : event'[u] = event[u] /\ event[u] \in SepayEvent
      /\ event'[t] = row
  BY <1>1 DEF EventsOf, BankTypeOK
<1>3. IsFiniteSet(S)
  BY FiniteAssumption, FS_Subset DEF EventsOf
<1>4. t \notin S
  OBVIOUS
<1> HIDE DEF S, T
<1>5. /\ PayoutLedger(event, S) \in [S -> Int]
      /\ PayoutLedger(event', T) \in [T -> Int]
      /\ \A u \in S : PayoutLedger(event', T)[u] = PayoutLedger(event, S)[u]
      /\ PayoutLedger(event', T)[t] = row.payout
  BY <1>2 DEF PayoutLedger, SepayEvent
<1>6. \A f \in [S -> Int], g \in [T -> Int] :
        (\A u \in S : g[u] = f[u]) => SumFunction(g) = SumFunction(f) + g[t]
  <2>1. T = S \cup {t}
    BY <1>2
  <2>2. QED
    BY <1>3, <1>4, <2>1, LedgerWith
<1>7. SumFunction(PayoutLedger(event', T))
        = SumFunction(PayoutLedger(event, S)) + row.payout
  BY <1>5, <1>6
<1>8. QED
  BY <1>7, PayoutsAreLedgers DEF S, T

\* The webhook or an administrator pays a request out for a transfer that was
\* not matched before.
LEMMA PayoutForTransfer ==
  ASSUME MoneyTypeOK, BankTypeOK, PayoutInv, NEW r \in Requests, Made(r),
         NEW amount \in Nat, Settle(r, amount, 0), NEW t \in Transfers,
         event[t] = NoEvent \/ event[t].request = NoRequest,
         NEW row \in SepayEvent, row.request = r, row.payout = amount,
         row.status # "unmatched", event' = [event EXCEPT ![t] = row]
  PROVE  PayoutInv'
<1>1. \A s \in Requests : t \notin EventsOf(s)
  BY RowAssumption DEF EventsOf
<1>2. /\ request'[r].paid = request[r].paid + amount
      /\ request'[r].manual = request[r].manual + 0
      /\ request'[r] # NoRequest
      /\ \A s \in Requests : s # r => request'[s] = request[s]
      /\ request[r].paid \in Nat /\ request[r].manual \in Nat
  BY SettledRow, RequestIsRow
<1>3. ASSUME NEW s \in Requests, Made(s)'
      PROVE  request'[s].paid = request'[s].manual + PaidByEvents(s)'
  <2>1. Made(s)
    BY <1>2, <1>3 DEF Made
  <2>2. PaidByEvents(s) \in Int
    BY PayoutsAreAmounts
  <2>3. request[s].paid = request[s].manual + PaidByEvents(s)
    BY <2>1 DEF PayoutInv, PayoutsAreExplained
  <2>4. CASE s = r
    <3>1. PaidByEvents(r)' = PaidByEvents(r) + amount
      BY <1>1, PayoutsOfMatched
    <3>2. QED
      BY <1>2, <2>2, <2>3, <2>4, <3>1
  <2>5. CASE s # r
    <3>1. PaidByEvents(s)' = PaidByEvents(s)
      BY <1>1, <2>5, PayoutsOfOthers
    <3>2. QED
      BY <1>2, <2>3, <2>5, <3>1
  <2>6. QED
    BY <2>4, <2>5
<1>4. \A u \in Transfers : event'[u] = IF u = t THEN row ELSE event[u]
  BY DEF BankTypeOK
<1>5. \A s : Made(s) /\ s \in Requests => Made(s)'
  BY <1>2 DEF Made
<1>6. ASSUME NEW u \in Transfers, event'[u] # NoEvent
      PROVE  /\ event'[u].status = "unmatched" => event'[u].request = NoRequest
             /\ event'[u].request # NoRequest => request'[event'[u].request] # NoRequest
  <2>1. CASE u = t
    BY <1>2, <1>4, <2>1 DEF Made
  <2>2. CASE u # t
    <3>1. event[u] \in SepayEvent /\ event'[u] = event[u]
      BY <1>4, <1>6, <2>2 DEF BankTypeOK
    <3>2. /\ event[u].status = "unmatched" => event[u].request = NoRequest
          /\ event[u].request # NoRequest => Made(event[u].request)
      BY <1>6, <3>1 DEF PayoutInv, EventsNameRequests
    <3>3. event[u].request \in Requests \cup {NoRequest}
      BY <3>1 DEF SepayEvent
    <3>4. QED
      BY <1>2, <3>1, <3>2, <3>3 DEF Made
  <2>3. QED
    BY <2>1, <2>2
<1>7. QED
  BY <1>3, <1>6 DEF PayoutInv, PayoutsAreExplained, EventsNameRequests, Made

\* An event is written that names no request.
LEMMA EventWithoutRequest ==
  ASSUME MoneyTypeOK, BankTypeOK, PayoutInv, request' = request,
         NEW t \in Transfers, event[t] = NoEvent \/ event[t].request = NoRequest,
         NEW row \in SepayEvent, row.request = NoRequest,
         event' = [event EXCEPT ![t] = row]
  PROVE  PayoutInv'
<1>1. \A s \in Requests : t \notin EventsOf(s)
  BY RowAssumption DEF EventsOf
<1>2. \A s \in Requests : PaidByEvents(s)' = PaidByEvents(s)
  BY <1>1, RowAssumption, PayoutsOfOthers
<1>3. \A u \in Transfers : event'[u] = IF u = t THEN row ELSE event[u]
  BY DEF BankTypeOK
<1>4. PayoutsAreExplained'
  BY <1>2 DEF PayoutInv, PayoutsAreExplained, Made
<1>5. EventsNameRequests'
  BY <1>3 DEF PayoutInv, EventsNameRequests, Made
<1>6. QED
  BY <1>4, <1>5 DEF PayoutInv

\* A request is made or changed, and no event: what was paid and what was
\* confirmed by hand move together.
LEMMA RequestWithoutEvent ==
  ASSUME MoneyTypeOK, BankTypeOK, PayoutInv, NEW r \in Requests,
         request'[r] # NoRequest, event' = event,
         \A s \in Requests : s # r => request'[s] = request[s],
         request'[r].paid \in Int, request'[r].manual \in Int,
         request'[r].paid - request'[r].manual
           = (IF Made(r) THEN request[r].paid - request[r].manual ELSE 0)
  PROVE  PayoutInv'
<1>1. \A s : EventsOf(s)' = EventsOf(s)
  BY DEF EventsOf
<1>2. \A s : PaidByEvents(s)' = PaidByEvents(s)
  BY <1>1 DEF PaidByEvents
<1>3. PaidByEvents(r) = IF Made(r) THEN request[r].paid - request[r].manual ELSE 0
  <2>1. CASE Made(r)
    BY <2>1, PayoutsAreAmounts, RequestIsRow DEF PayoutInv, PayoutsAreExplained
  <2>2. CASE ~Made(r)
    <3>1. EventsOf(r) = {}
      BY <2>2, RowAssumption DEF EventsOf, PayoutInv, EventsNameRequests
    <3>2. QED
      BY <2>2, <3>1, PayoutsAreLedgers, LedgerIsEmpty DEF PayoutLedger
  <2>3. QED
    BY <2>1, <2>2
<1>4. request'[r].paid = request'[r].manual + PaidByEvents(r)
  BY <1>3, PayoutsAreAmounts
<1>5. ASSUME NEW s \in Requests, Made(s)', s # r
      PROVE  request'[s].paid = request'[s].manual + PaidByEvents(s)
  BY <1>5 DEF Made, PayoutInv, PayoutsAreExplained
<1>6. PayoutsAreExplained'
  BY <1>2, <1>4, <1>5 DEF PayoutsAreExplained
<1>7. EventsNameRequests'
  <2> SUFFICES ASSUME NEW t \in Transfers, event[t] # NoEvent
               PROVE  /\ event[t].status = "unmatched" => event[t].request = NoRequest
                      /\ event[t].request # NoRequest
                           => request'[event[t].request] # NoRequest
    BY DEF EventsNameRequests, Made
  <2>1. event[t].request \in Requests \cup {NoRequest}
    BY DEF BankTypeOK, SepayEvent
  <2>2. /\ event[t].status = "unmatched" => event[t].request = NoRequest
        /\ event[t].request # NoRequest => request[event[t].request] # NoRequest
    BY DEF PayoutInv, EventsNameRequests, Made
  <2>3. QED
    BY <2>1, <2>2
<1>8. QED
  BY <1>6, <1>7 DEF PayoutInv

LEMMA RequestKeepsPayouts ==
  ASSUME MoneyInv, BankInv, PayoutInv, NEW r \in Requests, Withdrawal(r)
  PROVE  PayoutInv'
<1>1. MoneyTypeOK /\ BankTypeOK
  BY DEF MoneyInv, BankInv
<1>2. event' = event
  BY DEF Withdrawal, CreateWithdrawal, ReversePendingWithdrawal, ConfirmManualPayout,
         FinalizePartialWithdrawal, bankVars
<1>3. ASSUME NEW w \in Wallets, NEW a \in GrossAmounts, CreateWithdrawal(r, w, a)
      PROVE  PayoutInv'
  <2> DEFINE row == [wallet |-> w, amount |-> a - Fee(w, a), fee |-> Fee(w, a),
                     paid |-> 0, manual |-> 0, status |-> "pending"]
  <2>1. row \in Request
    BY <1>1, FeeIsPart, AmountAssumption DEF Request
  <2>2. /\ ~Made(r) /\ request'[r] = row
        /\ \A s \in Requests : s # r => request'[s] = request[s]
    BY <1>1, <1>3 DEF CreateWithdrawal, MoneyTypeOK
  <2>3. row # NoRequest /\ row.paid = 0 /\ row.manual = 0
    BY <2>1, RowAssumption
  <2> HIDE DEF row
  <2>4. QED
    BY <1>1, <1>2, <2>2, <2>3, RequestWithoutEvent
<1>4. ASSUME NEW status \in {"rejected", "paid"}, Made(r),
             request' = [request EXCEPT ![r].status = status]
      PROVE  PayoutInv'
  <2>1. /\ request[r] \in Request /\ request[r].paid \in Nat
        /\ request[r].manual \in Nat
    BY <1>1, <1>4, RequestIsRow
  <2>2. /\ request'[r] = [request[r] EXCEPT !.status = status]
        /\ \A s \in Requests : s # r => request'[s] = request[s]
    BY <1>1, <1>4 DEF MoneyTypeOK
  <2>3. /\ request'[r] \in Request /\ request'[r].paid = request[r].paid
        /\ request'[r].manual = request[r].manual
    BY <2>1, <2>2 DEF Request
  <2>4. QED
    BY <1>1, <1>2, <1>4, <2>1, <2>2, <2>3, RowAssumption, RequestWithoutEvent
<1>5. CASE ConfirmManualPayout(r)
  <2>1. Made(r) /\ Settle(r, Remaining(r), Remaining(r))
    BY <1>5 DEF ConfirmManualPayout, Open
  <2>2. /\ Remaining(r) \in Nat /\ request[r].paid \in Nat
        /\ request[r].manual \in Nat
    BY <1>5, <2>1, RequestIsRow
    DEF ConfirmManualPayout, MoneyInv, PaidOrReturned, Remaining
  <2>3. /\ request'[r] # NoRequest
        /\ request'[r].paid = request[r].paid + Remaining(r)
        /\ request'[r].manual = request[r].manual + Remaining(r)
        /\ \A s \in Requests : s # r => request'[s] = request[s]
    BY <1>1, <2>1, <2>2, SettledRow
  <2>4. QED
    BY <1>1, <1>2, <2>1, <2>2, <2>3, RequestWithoutEvent
<1>6. CASE ReversePendingWithdrawal(r)
  BY <1>4, <1>6 DEF ReversePendingWithdrawal
<1>7. CASE FinalizePartialWithdrawal(r)
  BY <1>4, <1>7 DEF FinalizePartialWithdrawal
<1>8. QED
  BY <1>3, <1>5, <1>6, <1>7 DEF Withdrawal

LEMMA TransferKeepsPayouts ==
  ASSUME MoneyInv, BankInv, PayoutInv, NEW t \in Transfers,
         Bank(t) \/ Webhook(t) \/ Reconciliation(t)
  PROVE  PayoutInv'
<1>1. MoneyTypeOK /\ BankTypeOK
  BY DEF MoneyInv, BankInv
<1>2. ASSUME UNCHANGED <<request, event>> PROVE PayoutInv'
  BY <1>2 DEF PayoutInv, PayoutsAreExplained, EventsNameRequests, PaidByEvents,
              EventsOf, Made
<1>3. CASE RecordUnmatched(t)
  <2>1. Unmatched \in SepayEvent /\ Unmatched.request = NoRequest
    BY DEF Unmatched, SepayEvent
  <2>2. /\ event[t] = NoEvent /\ event' = [event EXCEPT ![t] = Unmatched]
        /\ request' = request
    BY <1>3 DEF RecordUnmatched, Unrecorded, requestVars
  <2>3. QED
    BY <1>1, <2>1, <2>2, EventWithoutRequest
<1>4. CASE MatchTransfer(t)
  <2> DEFINE row == [status |-> "matched", request |-> transfer[t].code,
                     payout |-> transfer[t].amount, other |-> 0]
  <2>1. /\ transfer[t] # NoTransfer /\ transfer[t].code # NoRequest
        /\ Made(transfer[t].code) /\ event[t] = NoEvent
        /\ Settle(transfer[t].code, transfer[t].amount, 0)
        /\ event' = [event EXCEPT ![t] = row]
    BY <1>4 DEF MatchTransfer, Unrecorded, Matches, Open
  <2>2. transfer[t].code \in Requests /\ transfer[t].amount \in Nat
    BY <2>1, AmountAssumption DEF BankInv, BankTypeOK, Transfer
  <2>3. /\ row \in SepayEvent /\ row.request = transfer[t].code
        /\ row.payout = transfer[t].amount /\ row.status # "unmatched"
    BY <2>2 DEF SepayEvent
  <2> HIDE DEF row
  <2>4. QED
    BY <1>1, <2>1, <2>2, <2>3, PayoutForTransfer
<1>5. ASSUME Waiting(t)
      PROVE  /\ event[t] \in SepayEvent /\ event[t].request = NoRequest
             /\ transfer[t].amount \in Nat
  BY <1>5, EventIsRow DEF Waiting, PayoutInv, EventsNameRequests
<1>6. ASSUME NEW status \in {"matched", "out_of_scope"}, Waiting(t),
             event' = [event EXCEPT ![t].status = status,
                                    ![t].other = transfer[t].amount],
             request' = request
      PROVE  PayoutInv'
  <2> DEFINE row == [event[t] EXCEPT !.status = status, !.other = transfer[t].amount]
  <2>1. event' = [event EXCEPT ![t] = row]
    BY <1>6
  <2>2. row \in SepayEvent /\ row.request = NoRequest
    BY <1>5, <1>6 DEF SepayEvent
  <2> HIDE DEF row
  <2>3. QED
    BY <1>1, <1>5, <1>6, <2>1, <2>2, EventWithoutRequest
<1>7. ASSUME NEW r \in Requests, AssignOutgoingEvent(t, r)
      PROVE  PayoutInv'
  <2> DEFINE payout == IF transfer[t].amount < Remaining(r)
                       THEN transfer[t].amount ELSE Remaining(r)
  <2> DEFINE row == [event[t] EXCEPT !.status = "matched", !.request = r,
                       !.payout = payout, !.other = transfer[t].amount - payout]
  <2>1. /\ Waiting(t) /\ Open(r) /\ Made(r) /\ Settle(r, payout, 0)
        /\ event' = [event EXCEPT ![t] = row]
    BY <1>7 DEF AssignOutgoingEvent, Open
  <2>2. payout \in Nat /\ transfer[t].amount - payout \in Nat
    <3>1. Remaining(r) \in Nat
      BY <2>1, RequestIsRow DEF MoneyInv, PaidOrReturned, Remaining
    <3>2. QED
      BY <1>5, <2>1, <3>1
  <2> HIDE DEF payout
  <2>3. /\ row \in SepayEvent /\ row.request = r
        /\ row.payout = payout /\ row.status # "unmatched"
    BY <1>5, <2>1, <2>2 DEF SepayEvent
  <2> HIDE DEF row
  <2>4. QED
    BY <1>1, <1>5, <2>1, <2>2, <2>3, PayoutForTransfer
<1>8. CASE \E w \in PersonalWallets : AssignIncomingEvent(t, w)
  BY <1>6, <1>8 DEF AssignIncomingEvent, requestVars
<1>9. CASE MarkEventOutOfScope(t)
  BY <1>6, <1>9 DEF MarkEventOutOfScope, requestVars
<1>10. QED
  BY <1>2, <1>3, <1>4, <1>7, <1>8, <1>9
  DEF Bank, Webhook, Reconciliation, MakeTransfer, FindRequest, requestVars

\* Every payout of a request was confirmed by hand or is the payout of one bank
\* transfer: no transfer pays two requests, and none pays a request twice.
THEOREM PayoutsHaveTransfers == Spec => []PayoutsAreExplained
<1>1. Init => PayoutInv
  BY DEF Init, PayoutInv, PayoutsAreExplained, EventsNameRequests, Made
<1>2. WithdrawalInv /\ PayoutInv /\ [Next]_vars => PayoutInv'
  <2> SUFFICES ASSUME MoneyInv, BankInv, PayoutInv, [Next]_vars
               PROVE  PayoutInv'
    BY InvHasTwoParts
  <2>1. CASE UNCHANGED <<request, event>>
    BY <2>1 DEF PayoutInv, PayoutsAreExplained, EventsNameRequests, PaidByEvents,
                EventsOf, Made
  <2>2. CASE \E r \in Requests : Withdrawal(r)
    BY <2>2, RequestKeepsPayouts
  <2>3. CASE \E t \in Transfers : Bank(t) \/ Webhook(t) \/ Reconciliation(t)
    BY <2>3, TransferKeepsPayouts
  <2>4. QED
    BY <2>1, <2>2, <2>3
    DEF Next, vars, Platform, Earn, Spend, NewDay, requestVars, bankVars
<1>3. PayoutInv => PayoutsAreExplained
  BY DEF PayoutInv
<1>4. QED
  BY <1>1, <1>2, <1>3, WithdrawalsCorrect, PTL DEF Spec

-----------------------------------------------------------------------------
(* The daily allowance *)

\* FeesAreFair over a table of requests
Fair(req, S) ==
  LET error == 100 * SumFunction(FeeLedger(req, S))
                 - Over(SumFunction(GrossLedger(req, S)), 0)
  IN  error \in -(50 * Cardinality(S))..(50 * Cardinality(S))

\* The fees of the day are fair with the open request and without it: it is the
\* last one that was made, so that taking it back leaves fair fees, whoever got
\* the allowance.
FairInv ==
  \A w \in PersonalWallets :
    /\ Fair(request, KeptToday(w))
    /\ \A r \in KeptToday(w) : Open(r) => Fair(request, KeptToday(w) \ {r})

LEMMA FairInvIsFair == FairInv => AllowanceIsGivenOnce
BY DEF FairInv, AllowanceIsGivenOnce, FeesAreFair, Fair, Fees, Gross, FeeLedger,
       GrossLedger

\* Only fees and amounts count.
LEMMA FairStays ==
  ASSUME NEW req, NEW new, NEW S,
         \A s \in S : new[s].fee = req[s].fee /\ new[s].amount = req[s].amount
  PROVE  Fair(new, S) <=> Fair(req, S)
<1>1. /\ FeeLedger(new, S) = FeeLedger(req, S)
      /\ GrossLedger(new, S) = GrossLedger(req, S)
  BY DEF FeeLedger, GrossLedger
<1>2. QED
  BY <1>1 DEF Fair

\* Splitting an amount does not split the allowance.
LEMMA OverAdds ==
  ASSUME NEW taken \in Nat, NEW gross \in Nat
  PROVE  /\ Over(taken + gross, 0) = Over(taken, 0) + Over(gross, taken)
         /\ Over(taken, 0) \in Nat /\ Over(gross, taken) \in Nat
BY BoundAssumption DEF Over

\* one per cent, rounded
Percent(n) == (n + 50) \div 100

\* A request whose fee is one per cent, rounded, of what it takes over.
LEMMA FairWith ==
  ASSUME NEW r, NEW S, NEW req, NEW new, RowJoins(r, S, req, new),
         SumFunction(GrossLedger(req, S)) \in Nat,
         new[r].fee = Percent(Over(new[r].amount + new[r].fee,
                                   SumFunction(GrossLedger(req, S)))),
         Fair(req, S)
  PROVE  Fair(new, S \cup {r})
<1> DEFINE T == S \cup {r}
<1> DEFINE G == SumFunction(GrossLedger(req, S))
<1> DEFINE F == SumFunction(FeeLedger(req, S))
<1> DEFINE g == new[r].amount + new[r].fee
<1>1. /\ SumFunction(FeeLedger(new, T)) = F + new[r].fee
      /\ SumFunction(GrossLedger(new, T)) = G + g
  <2>1. SumsGrow(r, S, req, new)
    BY LedgersWith
  <2>2. QED
    BY <2>1 DEF SumsGrow
<1>2. G \in Nat /\ F \in Int /\ g \in Nat /\ new[r].fee \in Nat
  BY LedgersOfRows DEF RowJoins, Request
<1>3. /\ IsFiniteSet(S) /\ Cardinality(T) = Cardinality(S) + 1
      /\ Cardinality(S) \in Nat
  BY FiniteAssumption, FS_Subset, FS_AddElement, FS_CardinalityType DEF RowJoins
<1>4. 100 * F - Over(G, 0) \in -(50 * Cardinality(S))..(50 * Cardinality(S))
  BY DEF Fair
<1>5. new[r].fee = Percent(Over(g, G))
  OBVIOUS
<1> HIDE DEF T, G, F, g
<1>6. /\ Over(G + g, 0) = Over(G, 0) + Over(g, G)
      /\ Over(G, 0) \in Nat /\ Over(g, G) \in Nat
  BY <1>2, OverAdds
<1>7. 100 * new[r].fee - Over(g, G) \in -50..50
  <2>1. \A n \in Nat : 100 * ((n + 50) \div 100) - n \in -50..50
    OBVIOUS
  <2>2. QED
    BY <1>5, <1>6, <2>1 DEF Percent
<1>8. 100 * (F + new[r].fee) - Over(G + g, 0)
        = (100 * F - Over(G, 0)) + (100 * new[r].fee - Over(g, G))
  BY <1>2, <1>6
<1>9. 100 * (F + new[r].fee) - Over(G + g, 0)
        \in -(50 * (Cardinality(S) + 1))..(50 * (Cardinality(S) + 1))
  <2> DEFINE a == 100 * F - Over(G, 0)
  <2> DEFINE b == 100 * new[r].fee - Over(g, G)
  <2> DEFINE c == Cardinality(S)
  <2>1. a \in -(50 * c)..(50 * c) /\ b \in -50..50 /\ c \in Nat
    BY <1>3, <1>4, <1>7
  <2> HIDE DEF a, b, c
  <2>2. a + b \in -(50 * (c + 1))..(50 * (c + 1))
    BY <2>1
  <2>3. QED
    BY <1>8, <2>2 DEF a, b, c
<1>10. QED
  BY <1>1, <1>3, <1>9 DEF Fair, T

LEMMA NothingIsFair == ASSUME NEW req PROVE Fair(req, {})
<1>1. FeeLedger(req, {}) = [s \in {} |-> 0] /\ GrossLedger(req, {}) = [s \in {} |-> 0]
  BY DEF FeeLedger, GrossLedger
<1>2. /\ SumFunction(FeeLedger(req, {})) = 0
      /\ SumFunction(GrossLedger(req, {})) = 0
  BY LedgerIsEmpty DEF FeeLedger, GrossLedger
<1>3. Over(0, 0) = 0 /\ Cardinality({}) = 0
  BY BoundAssumption, FS_EmptySet DEF Over
<1>4. QED
  BY <1>2, <1>3 DEF Fair

\* The requests of the day keep their fees and amounts, none is taken back and
\* none is opened.
LEMMA FeesOfTheDayStay ==
  ASSUME MoneyTypeOK, FairInv, today' = today,
         \A s \in today : /\ request'[s].wallet = request[s].wallet
                          /\ request'[s].fee = request[s].fee
                          /\ request'[s].amount = request[s].amount
                          /\ (request'[s].status = "rejected"
                                <=> request[s].status = "rejected")
                          /\ Open(s)' => Open(s)
  PROVE  FairInv'
<1> SUFFICES ASSUME NEW w \in PersonalWallets
             PROVE  /\ Fair(request', KeptToday(w)')
                    /\ \A r \in KeptToday(w)' :
                         Open(r)' => Fair(request', KeptToday(w)' \ {r})
  BY DEF FairInv
<1>1. KeptToday(w)' = KeptToday(w) /\ KeptToday(w) \subseteq today
  BY DEF KeptToday
<1>2. Fair(request', KeptToday(w))
  BY <1>1, FairStays DEF FairInv
<1>3. ASSUME NEW r \in KeptToday(w), Open(r)'
      PROVE  Fair(request', KeptToday(w) \ {r})
  <2>1. Open(r)
    BY <1>1, <1>3
  <2>2. Fair(request, KeptToday(w) \ {r})
    BY <2>1 DEF FairInv
  <2>3. QED
    BY <1>1, <2>2, FairStays
<1>4. QED
  BY <1>1, <1>2, <1>3

LEMMA CreateIsFair ==
  ASSUME MoneyInv, FairInv, NEW r \in Requests, NEW w \in Wallets,
         NEW gross \in GrossAmounts, CreateWithdrawal(r, w, gross)
  PROVE  FairInv'
<1> DEFINE fee == Fee(w, gross)
<1> DEFINE row == [wallet |-> w, amount |-> gross - fee, fee |-> fee, paid |-> 0,
                   manual |-> 0, status |-> "pending"]
<1>1. /\ MoneyTypeOK /\ ~Made(r) /\ ~HasOpenRequest(w)
      /\ gross \in Nat /\ fee \in 0..gross
  BY FeeIsPart, AmountAssumption DEF CreateWithdrawal, MoneyInv
<1>2. /\ request'[r] = row /\ today' = today \cup {r}
      /\ \A s \in Requests : s # r => request'[s] = request[s]
  BY <1>1 DEF CreateWithdrawal, MoneyTypeOK
<1>3. row \in Request /\ row.amount + row.fee = gross /\ row.fee = fee
  BY <1>1 DEF Request
<1>4. r \notin today /\ today \subseteq Requests
  BY <1>1 DEF MoneyTypeOK, Made
<1> SUFFICES ASSUME NEW v \in PersonalWallets
             PROVE  /\ Fair(request', KeptToday(v)')
                    /\ \A s \in KeptToday(v)' :
                         Open(s)' => Fair(request', KeptToday(v)' \ {s})
  BY DEF FairInv
<1>5. \A s \in KeptToday(v) : s \in Requests /\ s # r /\ request'[s] = request[s]
  BY <1>2, <1>4 DEF KeptToday
<1>6. /\ Fair(request, KeptToday(v))
      /\ \A s \in KeptToday(v) : Open(s) => Fair(request, KeptToday(v) \ {s})
  BY DEF FairInv
<1>7. Fair(request', KeptToday(v))
  BY <1>5, <1>6, FairStays
<1>8. CASE v # w
  <2>1. KeptToday(v)' = KeptToday(v)
    BY <1>2, <1>4, <1>8 DEF KeptToday
  <2>2. ASSUME NEW s \in KeptToday(v), Open(s)'
        PROVE  Fair(request', KeptToday(v) \ {s})
    <3>1. Open(s)
      BY <1>5, <2>2 DEF Open, Made
    <3>2. QED
      BY <1>5, <1>6, <3>1, FairStays
  <2>3. QED
    BY <1>7, <2>1, <2>2
<1>9. CASE v = w
  <2>1. KeptToday(v)' = KeptToday(v) \cup {r}
    BY <1>2, <1>4, <1>9 DEF KeptToday
  <2>2. /\ KeptToday(v) \subseteq Requests /\ r \notin KeptToday(v)
        /\ \A s \in KeptToday(v) : request[s] \in Request
    BY <1>1, <1>5, TodayIsMade, RequestIsRow
  <2>3. /\ SumFunction(GrossLedger(request, KeptToday(v))) \in Nat
        /\ SumFunction(GrossLedger(request, KeptToday(v))) = WithdrawnToday(v)
    BY <1>1, TodayIsMade DEF WithdrawnToday, Gross, GrossLedger
  <2>4. fee = Percent(Over(gross, WithdrawnToday(v)))
    BY <1>9 DEF Fee, Percent
  <2> HIDE DEF fee
  <2>5. Fair(request', KeptToday(v) \cup {r})
    <3>1. request'[r].fee
            = Percent(Over(request'[r].amount + request'[r].fee,
                           SumFunction(GrossLedger(request, KeptToday(v)))))
      BY <1>2, <1>3, <2>3, <2>4
    <3>2. request'[r] \in Request
      BY <1>2, <1>3
    <3>3. RowJoins(r, KeptToday(v), request, request')
      BY <1>5, <2>2, <3>2 DEF RowJoins
    <3>4. QED
      BY <1>6, <2>3, <3>1, <3>3, FairWith
  <2>6. ASSUME NEW s \in KeptToday(v)', Open(s)'
        PROVE  Fair(request', KeptToday(v)' \ {s})
    <3>1. s = r
      <4>1. ASSUME s \in KeptToday(v) PROVE FALSE
        <5>1. Open(s) /\ s \in Requests /\ request[s].wallet = w
          BY <1>5, <1>9, <2>6, <4>1 DEF Open, Made, KeptToday
        <5>2. QED
          BY <1>1, <5>1 DEF HasOpenRequest
      <4>2. QED
        BY <2>1, <2>6, <4>1
    <3>2. KeptToday(v)' \ {s} = KeptToday(v)
      BY <2>1, <2>2, <3>1
    <3>3. QED
      BY <1>7, <3>2
  <2>7. QED
    BY <2>1, <2>5, <2>6
<1>10. QED
  BY <1>8, <1>9

LEMMA ReverseIsFair ==
  ASSUME MoneyInv, FairInv, NEW r \in Requests, ReversePendingWithdrawal(r)
  PROVE  FairInv'
<1>1. MoneyTypeOK /\ Open(r) /\ Made(r)
  BY DEF ReversePendingWithdrawal, Open, MoneyInv
<1>2. /\ request[r] \in Request
      /\ request'[r] = [request[r] EXCEPT !.status = "rejected"]
      /\ today' = today
      /\ \A s \in Requests : s # r => request'[s] = request[s]
  BY <1>1, RequestIsRow DEF ReversePendingWithdrawal, MoneyTypeOK
<1>3. /\ request'[r].wallet = request[r].wallet
      /\ request'[r].status = "rejected"
  BY <1>2 DEF Request
<1> SUFFICES ASSUME NEW v \in PersonalWallets
             PROVE  /\ Fair(request', KeptToday(v)')
                    /\ \A s \in KeptToday(v)' :
                         Open(s)' => Fair(request', KeptToday(v)' \ {s})
  BY DEF FairInv
<1>4. /\ KeptToday(v)' = KeptToday(v) \ {r}
      /\ \A s \in KeptToday(v) \ {r} : request'[s] = request[s] /\ s \in Requests
  <2>1. today \subseteq Requests
    BY <1>1 DEF MoneyTypeOK
  <2>2. QED
    BY <1>2, <1>3, <2>1 DEF KeptToday
<1>5. Fair(request, KeptToday(v) \ {r})
  <2>1. CASE r \in KeptToday(v)
    BY <1>1, <2>1 DEF FairInv
  <2>2. CASE r \notin KeptToday(v)
    <3>1. KeptToday(v) \ {r} = KeptToday(v)
      BY <2>2
    <3>2. QED
      BY <3>1 DEF FairInv
  <2>3. QED
    BY <2>1, <2>2
<1>6. Fair(request', KeptToday(v) \ {r})
  BY <1>4, <1>5, FairStays
<1>7. ASSUME NEW s \in KeptToday(v) \ {r}, Open(s)'
      PROVE  Fair(request', (KeptToday(v) \ {r}) \ {s})
  <2>1. Open(s) /\ s \in Requests
    BY <1>4, <1>7 DEF Open, Made
  <2>2. CASE r \in KeptToday(v)
    <3>1. request[s].wallet = request[r].wallet
      BY <1>7, <2>2 DEF KeptToday
    <3>2. QED
      BY <1>1, <1>7, <2>1, <3>1 DEF MoneyInv, ReservedIsOwed
  <2>3. CASE r \notin KeptToday(v)
    <3>1. /\ (KeptToday(v) \ {r}) \ {s} = KeptToday(v) \ {s}
          /\ \A u \in KeptToday(v) \ {s} : request'[u] = request[u]
      BY <1>4, <2>3
    <3>2. Fair(request, KeptToday(v) \ {s})
      BY <2>1, <1>7 DEF FairInv
    <3>3. QED
      BY <3>1, <3>2, FairStays
  <2>4. QED
    BY <2>2, <2>3
<1>8. QED
  BY <1>4, <1>6, <1>7

\* A payout, and the end of a payout in part, leave fee and amount.
LEMMA PayoutIsFair ==
  ASSUME MoneyInv, FairInv, NEW r \in Requests, Open(r), today' = today,
         \/ \E amount, manual \in Nat : Settle(r, amount, manual)
         \/ FinalizePartialWithdrawal(r)
  PROVE  FairInv'
<1>1. MoneyTypeOK /\ Made(r) /\ request[r].status # "rejected"
  BY DEF MoneyInv, Open
<1>2. /\ request'[r].wallet = request[r].wallet
      /\ request'[r].fee = request[r].fee /\ request'[r].amount = request[r].amount
      /\ request'[r].status # "rejected"
      /\ \A s \in Requests : s # r => request'[s] = request[s]
  <2>1. CASE FinalizePartialWithdrawal(r)
    <3>1. /\ request[r] \in Request
          /\ request'[r] = [request[r] EXCEPT !.status = "paid"]
          /\ \A s \in Requests : s # r => request'[s] = request[s]
      BY <1>1, <2>1, RequestIsRow DEF FinalizePartialWithdrawal, MoneyTypeOK
    <3>2. QED
      BY <3>1 DEF Request
  <2>2. CASE \E amount, manual \in Nat : Settle(r, amount, manual)
    BY <1>1, <2>2, SettledRow
  <2>3. QED
    BY <2>1, <2>2
<1>3. today \subseteq Requests
  BY <1>1 DEF MoneyTypeOK
<1>4. ASSUME NEW s \in today
      PROVE  /\ request'[s].wallet = request[s].wallet
             /\ request'[s].fee = request[s].fee
             /\ request'[s].amount = request[s].amount
             /\ (request'[s].status = "rejected" <=> request[s].status = "rejected")
             /\ Open(s)' => Open(s)
  <2>1. CASE s = r
    BY <1>1, <1>2, <2>1
  <2>2. CASE s # r
    BY <1>2, <1>3, <2>2 DEF Open, Made
  <2>3. QED
    BY <2>1, <2>2
<1>5. QED
  BY <1>1, <1>4, FeesOfTheDayStay

\* BR-FIN-21: however a player splits the withdrawals of a day, and whichever
\* are taken back, the fees that are kept are one per cent of what the day's
\* withdrawals exceed the allowance by, but for the rounding of each.
THEOREM AllowanceIsFair == Spec => []AllowanceIsGivenOnce
<1>1. Init => FairInv
  <2> SUFFICES ASSUME Init, NEW w \in PersonalWallets
               PROVE  KeptToday(w) = {}
    BY NothingIsFair DEF FairInv
  <2>1. QED
    BY DEF Init, KeptToday
<1>2. WithdrawalInv /\ FairInv /\ [Next]_vars => FairInv'
  <2> SUFFICES ASSUME MoneyInv, BankInv, FairInv, [Next]_vars
               PROVE  FairInv'
    BY InvHasTwoParts
  <2>1. MoneyTypeOK
    BY DEF MoneyInv
  <2>2. ASSUME UNCHANGED requestVars PROVE FairInv'
    BY <2>1, <2>2, FeesOfTheDayStay DEF requestVars, Open, Made
  <2>3. CASE NewDay
    <3>1. \A w : KeptToday(w)' = {}
      BY <2>3 DEF NewDay, KeptToday
    <3>2. QED
      BY <3>1, NothingIsFair DEF FairInv
  <2>4. ASSUME NEW r \in Requests, Open(r), NEW amount \in Nat, NEW manual \in Nat,
               Settle(r, amount, manual)
        PROVE  FairInv'
    <3>1. today' = today
      BY <2>4 DEF Settle
    <3>2. QED
      BY <2>4, <3>1, PayoutIsFair
  <2>5. CASE \E r \in Requests : Withdrawal(r)
    <3> SUFFICES ASSUME NEW r \in Requests, Withdrawal(r) PROVE FairInv'
      BY <2>5
    <3>1. CASE ConfirmManualPayout(r)
      <4>1. Open(r) /\ Settle(r, Remaining(r), Remaining(r))
        BY <3>1 DEF ConfirmManualPayout
      <4>2. Remaining(r) \in Nat
        BY <4>1, RequestIsRow DEF MoneyInv, PaidOrReturned, Open, Remaining
      <4>3. QED
        BY <2>4, <4>1, <4>2
    <3>2. CASE FinalizePartialWithdrawal(r)
      BY <3>2, PayoutIsFair DEF FinalizePartialWithdrawal, Open
    <3>3. QED
      BY <3>1, <3>2, CreateIsFair, ReverseIsFair DEF Withdrawal
  <2>6. CASE \E t \in Transfers : Bank(t) \/ Webhook(t) \/ Reconciliation(t)
    <3> SUFFICES ASSUME NEW t \in Transfers,
                        Bank(t) \/ Webhook(t) \/ Reconciliation(t)
                 PROVE  FairInv'
      BY <2>6
    <3>1. CASE MatchTransfer(t)
      <4>1. /\ transfer[t] # NoTransfer /\ transfer[t].code # NoRequest
            /\ Open(transfer[t].code)
            /\ Settle(transfer[t].code, transfer[t].amount, 0)
        BY <3>1 DEF MatchTransfer, Unrecorded, Matches
      <4>2. transfer[t].code \in Requests /\ transfer[t].amount \in Nat
        BY <4>1, AmountAssumption DEF BankInv, BankTypeOK, Transfer
      <4>3. QED
        BY <2>4, <4>1, <4>2
    <3>2. ASSUME NEW r \in Requests, AssignOutgoingEvent(t, r)
          PROVE  FairInv'
      <4> DEFINE payout == IF transfer[t].amount < Remaining(r)
                           THEN transfer[t].amount ELSE Remaining(r)
      <4>1. Open(r) /\ Settle(r, payout, 0) /\ transfer[t].amount \in Nat
        BY <3>2, EventIsRow DEF AssignOutgoingEvent, Waiting
      <4>2. Remaining(r) \in Nat
        BY <4>1, RequestIsRow DEF MoneyInv, PaidOrReturned, Open, Remaining
      <4>3. payout \in Nat
        BY <4>1, <4>2
      <4> HIDE DEF payout
      <4>4. QED
        BY <2>4, <4>1, <4>3
    <3>3. QED
      BY <2>2, <3>1, <3>2
      DEF Bank, Webhook, Reconciliation, MakeTransfer, FindRequest,
          RecordUnmatched, AssignIncomingEvent, MarkEventOutOfScope
  <2>7. QED
    BY <2>2, <2>3, <2>5, <2>6 DEF Next, vars, Platform, Earn, Spend
<1>3. QED
  BY <1>1, <1>2, FairInvIsFair, WithdrawalsCorrect, PTL DEF Spec

=============================================================================
