------------------------------ MODULE PostingBook ------------------------------
(***************************************************************************)
(* What postings promise, without requests or commits: an item waits to be *)
(* posted, is posted as part of one posting together with the others of    *)
(* its list, and comes back only when that posting is deleted as a whole.  *)
(***************************************************************************)
CONSTANTS Items, Postings

VARIABLE slot   \* "absent", "open", or the posting that holds the item

Init == slot = [i \in Items |-> "absent"]

Choose(S) ==
    /\ slot' = [i \in Items |-> IF i \in S /\ slot[i] = "absent" THEN "open" ELSE slot[i]]

Withdraw(i) ==
    /\ slot[i] = "open"
    /\ slot' = [slot EXCEPT ![i] = "absent"]

\* all of the list or nothing, and never into a posting that exists
Post(p, S) ==
    /\ S # {}
    /\ \A i \in S : slot[i] = "open"
    /\ \A i \in Items : slot[i] # p
    /\ slot' = [i \in Items |-> IF i \in S THEN p ELSE slot[i]]

Release(p) ==
    /\ slot' = [i \in Items |-> IF slot[i] = p THEN "open" ELSE slot[i]]

Next ==
    \/ \E S \in SUBSET Items : Choose(S)
    \/ \E i \in Items : Withdraw(i)
    \/ \E p \in Postings, S \in SUBSET Items : Post(p, S)
    \/ \E p \in Postings : Release(p)

Spec == Init /\ [][Next]_slot

=============================================================================
