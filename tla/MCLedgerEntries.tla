---------------------------- MODULE MCLedgerEntries ----------------------------
(* Instances of LedgerEntries for TLC. *)
EXTENDS LedgerEntries, TLC

Symmetry ==
    Permutations(Requests) \cup Permutations(Rows) \cup Permutations(Groups)
        \cup Permutations(Parties) \cup Permutations(Dates)

=============================================================================
