-------------------------- MODULE MCSettlementSlices --------------------------
(* Two slices of the behaviours of Spec, told apart by the account that the *)
(* partner has or gets.  With a1, there from the start: requests that       *)
(* overlap, of the handlers that add, price, post and release items.  With  *)
(* another: requests of every handler, one at a time, on documents that     *)
(* have a value.                                                            *)
EXTENDS Settlement, FiniteSets, TLC

CONSTANT a1

ASSUME SliceAssumption == a1 \in Accounts

SliceSymmetry ==
    {p @@ q @@ s : p \in Permutations(Requests), q \in Permutations(Items),
                   s \in Permutations(Postings)}

\* with the account there from the start
L == INSTANCE Settlement WITH Linked <- TRUE

Posting == opening[a1] # None
Busy(p) == {r \in Requests : p[r] # "idle"}

SliceInit ==
    \/ /\ L!Init /\ account = a1 /\ capital = 0
       /\ \A i, j \in Items : i # j => qty[i] + qty[j] <= 2
    \/ Init /\ \A i \in Items : qty[i] # 0

InPosting ==
    \A r \in Requests :
        /\ pc[r] = "idle" =>
              pc'[r] \in {"idle", "addItems", "setItemRate", "postItems", "deletePosting"}
    /\ \A i, j \in Items : i # j => qty'[i] + qty'[j] <= 2
InSerial ==
    /\ opening'[a1] = None
    /\ Cardinality(Busy(pc')) <= 1
    /\ \A i \in Items : qty'[i] # 0

InSlice == IF Posting THEN InPosting ELSE InSerial

SliceSpec == SliceInit /\ [][Next]_vars

\* ExactBetweenRequests, of the requests that come one at a time
ExactWhenSerial == ~Posting => ExactBetweenRequests

=============================================================================
