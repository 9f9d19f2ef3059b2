---------------------------- MODULE MCBookingSaga ----------------------------
(* Small instances of BookingSaga. *)
EXTENDS BookingSaga, TLC

\* a transfer that is short, exact or too much
MCAmounts == {Price - 1, Price, Price + 1}

ExactAmount == {Price}

\* an amount that the commission rate does not divide
MCPartialRefunds == {5}

Symmetry == Permutations(Bookings) \cup Permutations(Transfers)
              \cup Permutations(Intents)
=============================================================================
