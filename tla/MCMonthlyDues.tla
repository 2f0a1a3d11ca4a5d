----------------------------- MODULE MCMonthlyDues -----------------------------
(* Instances of MonthlyDues for TLC. *)
EXTENDS MonthlyDues, TLC

Symmetry == Permutations(Requests) \cup Permutations(Schedules)

=============================================================================
