---------------------------- MODULE MCWithdrawals ----------------------------
(* Small instances of Withdrawals. *)
EXTENDS Withdrawals, TLC

\* more than the daily allowance of 100, by less than the half of 100 that is
\* rounded up
MCGrossAmounts == {130}

\* less than a request asks for, and all of it
MCTransferAmounts == {40, 130}

Symmetry == Permutations(Requests) \cup Permutations(Transfers)
=============================================================================
