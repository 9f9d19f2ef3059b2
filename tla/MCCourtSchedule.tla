--------------------------- MODULE MCCourtSchedule ---------------------------
(* Small instances of CourtSchedule. *)
EXTENDS CourtSchedule, TLC

\* an hour, and two hours that contain it: ranges that are equal and overlap
MCRanges == {<<2, 3>>, <<2, 4>>}

MCOneRange == {<<2, 3>>}

Symmetry == Permutations(HoldIds) \cup Permutations(Users)
              \cup Permutations(Courts)
=============================================================================
