---------------------------- MODULE SettlementProofs ----------------------------
(***************************************************************************)
(* What MCSettlement checks on small instances, proved of Settlement for   *)
(* every set of requests, items, postings and so on.                       *)
(***************************************************************************)
EXTENDS MCSettlementSlices, TLAPS, FiniteSetTheorems

LEMMA BlankType == Blank \in LocalState
  BY DEF Blank, LocalState

\* What a step may write into the locals of a request.
LEMMA LocalTypes ==
  ASSUME NEW m \in LocalState
  PROVE  /\ \A a \in Accounts \cup {None}, c \in Capitals :
                [m EXCEPT !.account = a, !.capital = c] \in LocalState
         /\ \A a \in Accounts : [m EXCEPT !.account = a] \in LocalState
         /\ \A k \in Key : [m EXCEPT !.key = k] \in LocalState
         /\ \A k \in Key, x \in Rates : [m EXCEPT !.key = k, !.rate = x] \in LocalState
         /\ \A p \in Postings : [m EXCEPT !.posting = p] \in LocalState
         /\ \A f \in [Items -> Nat] : [m EXCEPT !.ready = f] \in LocalState
         /\ \A n \in Nat : [m EXCEPT !.last = n] \in LocalState
         /\ \A f \in [Key -> Int] :
                [m EXCEPT !.unread = {"money"}, !.want = f] \in LocalState
         /\ \A f \in [Key -> Int], s \in {"items", "money"} :
                [m EXCEPT !.unread = @ \ {s}, !.want = f] \in LocalState
         /\ \A f \in [Key -> Int \cup {None}] : [m EXCEPT !.have = f] \in LocalState
         /\ \A K \in SUBSET Key : [m EXCEPT !.lost = @ \cup K] \in LocalState
<1>1. \A a \in Accounts \cup {None}, c \in Capitals :
         [m EXCEPT !.account = a, !.capital = c] \in LocalState
  BY DEF LocalState
<1>2. \A a \in Accounts : [m EXCEPT !.account = a] \in LocalState
  BY DEF LocalState
<1>3. \A k \in Key : [m EXCEPT !.key = k] \in LocalState
  BY DEF LocalState
<1>4. \A k \in Key, x \in Rates : [m EXCEPT !.key = k, !.rate = x] \in LocalState
  BY DEF LocalState
<1>5. \A p \in Postings : [m EXCEPT !.posting = p] \in LocalState
  BY DEF LocalState
<1>6. \A f \in [Items -> Nat] : [m EXCEPT !.ready = f] \in LocalState
  BY DEF LocalState
<1>7. \A n \in Nat : [m EXCEPT !.last = n] \in LocalState
  BY DEF LocalState
<1>8. \A f \in [Key -> Int] : [m EXCEPT !.unread = {"money"}, !.want = f] \in LocalState
  BY DEF LocalState
<1>9. \A f \in [Key -> Int], s \in {"items", "money"} :
         [m EXCEPT !.unread = @ \ {s}, !.want = f] \in LocalState
  BY DEF LocalState
<1>10. \A f \in [Key -> Int \cup {None}] : [m EXCEPT !.have = f] \in LocalState
  BY DEF LocalState
<1>11. \A K \in SUBSET Key : [m EXCEPT !.lost = @ \cup K] \in LocalState
  BY DEF LocalState
<1> QED BY <1>1, <1>2, <1>3, <1>4, <1>5, <1>6, <1>7, <1>8, <1>9, <1>10, <1>11

\* What the settlement wants in the account is a number for every key.
LEMMA WantedType == TypeOK => \A k \in Key : Wanted(k) \in Int
  BY DEF TypeOK, Wanted, Due, MoneyEffect, Key

LEMMA LosingType ==
  ASSUME NEW K \in SUBSET Key, NEW m \in [Requests -> LocalState]
  PROVE  Losing(K, m) \in [Requests -> LocalState]
<1>1. \A q \in Requests : [m[q] EXCEPT !.lost = @ \cup K] \in LocalState
  BY LocalTypes
<1> QED BY <1>1 DEF Losing

\* A request that goes on to the sync keeps two of its locals.
LEMMA SyncType ==
  ASSUME TypeOK, NEW r \in Requests, NEW l \in Labels, Sync(r, l)
  PROVE  pc' \in [Requests -> Labels] /\ mem' \in [Requests -> LocalState]
<1>1. mem[r] \in LocalState
  BY DEF TypeOK
<1>2. \A m \in LocalState :
         [Blank EXCEPT !.account = m.account, !.capital = m.capital] \in LocalState
  BY BlankType DEF LocalState
<1> QED BY <1>1, <1>2 DEF TypeOK, Sync, GotoWith, Goto

\* The two ways in which the account is written, apart from apply.
LEMMA DeleteSourceType ==
  ASSUME TypeOK, NEW r \in Requests, NEW k, DeleteSource(r, k),
         k \in Key
  PROVE  /\ live' \subseteq Key
         /\ holder' \in [Key -> Accounts \cup {None}]
         /\ entry' \in [Key -> Int]
         /\ pc' \in [Requests -> Labels]
         /\ mem' \in [Requests -> LocalState]
<1>1. [mem EXCEPT ![r] = Blank] \in [Requests -> LocalState]
  BY BlankType DEF TypeOK
<1>2. mem' \in [Requests -> LocalState]
  BY <1>1, LosingType DEF DeleteSource
<1>3. pc' \in [Requests -> Labels]
  BY DEF TypeOK, DeleteSource, Goto, Labels
<1>4. live' \subseteq Key
  BY DEF TypeOK, DeleteSource
<1>5. holder' \in [Key -> Accounts \cup {None}] /\ entry' \in [Key -> Int]
  BY DEF TypeOK, DeleteSource
<1> QED BY <1>2, <1>3, <1>4, <1>5

THEOREM InitType == Init => TypeOK
<1> SUFFICES ASSUME Init PROVE TypeOK
  OBVIOUS
<1>1. -capital \in Int
  BY SettlementAssumption DEF Init
<1>2. opening \in [Accounts -> Int \cup {None}]
  BY <1>1 DEF Init
<1> QED BY <1>2, BlankType DEF Init, TypeOK, Labels, Key

LEMMA NextType == TypeOK /\ [Next]_vars => TypeOK'
<1> SUFFICES ASSUME TypeOK, [Next]_vars PROVE TypeOK'
  OBVIOUS
<1>0. \A r \in Requests : mem[r] \in LocalState
  BY DEF TypeOK
<1>1. ASSUME NEW r \in Requests, NEW h \in AllHandlers, Begin(r, h) PROVE TypeOK'
  <2>1. [Blank EXCEPT !.account = account, !.capital = capital] \in LocalState
    BY BlankType, LocalTypes DEF TypeOK
  <2>2. FirstStep(h) \in Labels
    BY DEF FirstStep, Labels
  <2> QED BY <1>1, <2>1, <2>2
          DEF TypeOK, Begin, GotoWith, Goto, book, money, party, ledger
<1>2. ASSUME NEW r \in Requests, AddItems(r) PROVE TypeOK'
  BY <1>2 DEF TypeOK, AddItems, Keep, Goto, Labels, money, party, ledger, Key
<1>3. ASSUME NEW r \in Requests, CheckUnposted(r) PROVE TypeOK'
  <2>1. \A x \in Rates, i \in Key : /\ [mem[r] EXCEPT !.key = i, !.rate = x] \in LocalState
                                    /\ [mem[r] EXCEPT !.key = i] \in LocalState
    BY <1>0, LocalTypes
  <2>2. mem' \in [Requests -> LocalState]
    <3>1. \E m \in LocalState : mem' = [mem EXCEPT ![r] = m]
      <4>1. CASE pc[r] = "setItemRate"
        <5>1. PICK x \in Rates, i \in Items :
                 mem' = [mem EXCEPT ![r] = [mem[r] EXCEPT !.key = i, !.rate = x]]
          BY <1>3, <4>1 DEF CheckUnposted, GotoWith
        <5> QED BY <2>1, <5>1 DEF Key
      <4>2. CASE pc[r] = "removeItem"
        <5>1. PICK i \in Items : mem' = [mem EXCEPT ![r] = [mem[r] EXCEPT !.key = i]]
          BY <1>3, <4>2 DEF CheckUnposted, GotoWith
        <5>2. [mem[r] EXCEPT !.key = i] \in LocalState
          BY <1>0, LocalTypes DEF Key
        <5> QED BY <5>1, <5>2
      <4> QED BY <1>3, <4>1, <4>2 DEF CheckUnposted
    <3>2. mem \in [Requests -> LocalState]
      BY DEF TypeOK
    <3> QED BY <3>1, <3>2
  <2>3. pc' \in [Requests -> Labels]
    BY <1>3 DEF TypeOK, CheckUnposted, GotoWith, Goto, Labels
  <2> QED BY <1>3, <2>2, <2>3 DEF TypeOK, CheckUnposted, book, money, party, ledger
<1>4. ASSUME NEW r \in Requests, WriteRate(r) PROVE TypeOK'
  <2>1. mem[r].rate \in Rates \cup {0}
    BY <1>0 DEF LocalState
  <2>2. pc' \in [Requests -> Labels] /\ mem' \in [Requests -> LocalState]
    BY <1>4, SyncType DEF WriteRate, Labels
  <2> QED BY <1>4, <2>1, <2>2 DEF TypeOK, WriteRate, money, party, ledger
<1>5. ASSUME NEW r \in Requests, WriteRemove(r) PROVE TypeOK'
  <2>1. mem[r].key \in Key
    BY <1>5 DEF TypeOK, WriteRemove
  <2>2. DeleteSource(r, mem[r].key)
    BY <1>5 DEF WriteRemove
  <2>3. /\ live' \subseteq Key
        /\ holder' \in [Key -> Accounts \cup {None}]
        /\ entry' \in [Key -> Int]
        /\ pc' \in [Requests -> Labels]
        /\ mem' \in [Requests -> LocalState]
    BY <2>1, <2>2, DeleteSourceType
  <2> QED BY <1>5, <2>3 DEF TypeOK, WriteRemove, money, party
<1>6. ASSUME NEW r \in Requests, PostList(r) PROVE TypeOK'
  <2> DEFINE R == [i \in Items |-> IF Ready(i) THEN rate[i] * qty[i] ELSE 0]
  <2>1. \A i \in Items : rate[i] \in Nat /\ qty[i] \in Nat
    <3>1. Rates \cup {0} \subseteq Nat /\ Quantities \subseteq Nat
      BY SettlementAssumption
    <3> QED BY <3>1 DEF TypeOK
  <2>2. \A a, b \in Nat : a * b \in Nat
    OBVIOUS
  <2>3. R \in [Items -> Nat]
    BY <2>1, <2>2
  <2> HIDE DEF R
  <2>4. [mem[r] EXCEPT !.ready = R] \in LocalState
    BY <1>0, <2>3, LocalTypes
  <2>5. pc' = [pc EXCEPT ![r] = "postNumber"]
        /\ mem' = [mem EXCEPT ![r] = [mem[r] EXCEPT !.ready = R]]
    BY <1>6 DEF PostList, GotoWith, Goto, R
  <2> QED BY <1>6, <2>4, <2>5
          DEF TypeOK, PostList, Labels, book, money, party, ledger
<1>7. ASSUME NEW r \in Requests, PostNumber(r) PROVE TypeOK'
  <2>1. LastNumber \subseteq Nat
    BY DEF LastNumber, Greatest, TypeOK
  <2>2. \A n \in Nat : [mem[r] EXCEPT !.last = n] \in LocalState
    BY <1>0, LocalTypes
  <2> QED BY <1>7, <2>1, <2>2
          DEF TypeOK, PostNumber, GotoWith, Goto, Labels, book, money, party, ledger
<1>8. ASSUME NEW r \in Requests, PostWrite(r) PROVE TypeOK'
  <2>1. mem[r].last + 1 \in Nat /\ mem[r].ready \in [Items -> Nat]
    BY <1>0 DEF LocalState
  <2>2. pc' \in [Requests -> Labels] /\ mem' \in [Requests -> LocalState]
    BY <1>8, SyncType DEF PostWrite, Labels
  <2> QED BY <1>8, <2>1, <2>2 DEF TypeOK, PostWrite, money, party, ledger
<1>9. ASSUME NEW r \in Requests, FindPosting(r) PROVE TypeOK'
  <2>1. \A p \in Postings : [mem[r] EXCEPT !.posting = p] \in LocalState
    BY <1>0, LocalTypes
  <2> QED BY <1>9, <2>1
          DEF TypeOK, FindPosting, GotoWith, Goto, Labels, book, money, party, ledger
<1>10. ASSUME NEW r \in Requests, WriteUnpost(r) PROVE TypeOK'
  <2>1. pc' \in [Requests -> Labels] /\ mem' \in [Requests -> LocalState]
    BY <1>10, SyncType DEF WriteUnpost, Labels
  <2> QED BY <1>10, <2>1 DEF TypeOK, WriteUnpost, money, party, ledger
<1>11. ASSUME NEW r \in Requests, NEW k \in Movements \cup Payments, NEW e \in Int,
              CreateSource(r, k, e)
       PROVE  TypeOK'
  BY <1>11 DEF TypeOK, CreateSource, Keep, Goto, Labels, party, ledger, Key
<1>12. ASSUME NEW r \in Requests, AddCapitalMovement(r) \/ AddPayment(r) PROVE TypeOK'
  <2>1. \A a \in Amounts : -a \in Int /\ \A sign \in {1, -1} : sign * a \in Int
    <3>1. Amounts \subseteq Nat
      BY SettlementAssumption
    <3> QED BY <3>1
  <2>2. ASSUME NEW k \in Movements, NEW a \in Amounts, NEW sign \in {1, -1},
               CreateSource(r, k, sign * a)
        PROVE  TypeOK'
    BY <1>11, <2>1, <2>2
  <2>3. ASSUME NEW k \in Payments, NEW a \in Amounts, CreateSource(r, k, -a) PROVE TypeOK'
    BY <1>11, <2>1, <2>3
  <2> QED BY <1>12, <2>2, <2>3 DEF AddCapitalMovement, AddPayment
<1>13. ASSUME NEW r \in Requests, FindMoney(r) PROVE TypeOK'
  <2>1. \A k \in Key : [mem[r] EXCEPT !.key = k] \in LocalState
    BY <1>0, LocalTypes
  <2> QED BY <1>13, <2>1
          DEF TypeOK, FindMoney, GotoWith, Goto, Labels, book, money, party, ledger
<1>14. ASSUME NEW r \in Requests, WriteDelete(r) PROVE TypeOK'
  <2>1. mem[r].key \in Key
    BY <1>14 DEF TypeOK, WriteDelete
  <2>2. DeleteSource(r, mem[r].key)
    BY <1>14 DEF WriteDelete
  <2>3. /\ live' \subseteq Key
        /\ holder' \in [Key -> Accounts \cup {None}]
        /\ entry' \in [Key -> Int]
        /\ pc' \in [Requests -> Labels]
        /\ mem' \in [Requests -> LocalState]
    BY <2>1, <2>2, DeleteSourceType
  <2>4. effect' \in [Movements \cup Payments -> Int]
    <3>1. effect' = [effect EXCEPT ![mem[r].key] = 0]
      BY <1>14 DEF WriteDelete
    <3>2. effect \in [Movements \cup Payments -> Int]
      BY DEF TypeOK
    <3>3. ASSUME NEW f \in [Movements \cup Payments -> Int], NEW k
          PROVE  [f EXCEPT ![k] = 0] \in [Movements \cup Payments -> Int]
      <4>1. CASE k \in Movements \cup Payments
        BY <4>1
      <4>2. CASE k \notin Movements \cup Payments
        <5>1. [f EXCEPT ![k] = 0] = f
          BY <4>2
        <5> QED BY <5>1
      <4> QED BY <4>1, <4>2
    <3> QED BY <3>1, <3>2, <3>3
  <2> QED BY <1>14, <2>3, <2>4 DEF TypeOK, WriteDelete, party
<1>15. ASSUME NEW r \in Requests, UpdatePartner(r) PROVE TypeOK'
  BY <1>15 DEF TypeOK, UpdatePartner, Keep, Goto, Labels, book, money, ledger
<1>16. ASSUME NEW r \in Requests, Reread(r) PROVE TypeOK'
  <2>1. [mem[r] EXCEPT !.account = account, !.capital = capital] \in LocalState
    BY <1>0, LocalTypes DEF TypeOK
  <2> QED BY <1>16, <2>1
          DEF TypeOK, Reread, GotoWith, Goto, Labels, book, money, party, ledger
<1>17. ASSUME NEW r \in Requests, ListItems(r) PROVE TypeOK'
  <2> DEFINE W == [k \in Key |-> IF k \in Items THEN Due(k) ELSE 0]
  <2>1. W \in [Key -> Int]
    BY DEF TypeOK, Due
  <2> HIDE DEF W
  <2>2. [mem[r] EXCEPT !.unread = {"money"}, !.want = W] \in LocalState
    BY <1>0, <2>1, LocalTypes
  <2>3. pc' = [pc EXCEPT ![r] = "ensure"]
        /\ mem' = [mem EXCEPT ![r] = [mem[r] EXCEPT !.unread = {"money"}, !.want = W]]
    BY <1>17 DEF ListItems, GotoWith, Goto, W
  <2> QED BY <1>17, <2>2, <2>3
          DEF TypeOK, ListItems, Labels, book, money, party, ledger
<1>18. ASSUME NEW r \in Requests, EnsureUpdate(r) PROVE TypeOK'
  <2>1. -mem[r].capital \in Int
    <3>1. Capitals \cup {0} \subseteq Nat
      BY SettlementAssumption
    <3>2. mem[r].capital \in Nat
      BY <1>0, <3>1 DEF LocalState
    <3> QED BY <3>2
  <2>2. opening' \in [Accounts -> Int \cup {None}]
    BY <1>18, <2>1 DEF TypeOK, EnsureUpdate
  <2> QED BY <1>18, <2>2
          DEF TypeOK, EnsureUpdate, Keep, Goto, Labels, book, money, ledger
<1>19. ASSUME NEW r \in Requests, EnsureCreate(r) PROVE TypeOK'
  <2>1. -mem[r].capital \in Int
    <3>1. Capitals \cup {0} \subseteq Nat
      BY SettlementAssumption
    <3>2. mem[r].capital \in Nat
      BY <1>0, <3>1 DEF LocalState
    <3> QED BY <3>2
  <2>2. \A a \in Accounts : [mem[r] EXCEPT !.account = a] \in LocalState
    BY <1>0, LocalTypes
  <2>3. opening' \in [Accounts -> Int \cup {None}]
    BY <1>19, <2>1 DEF TypeOK, EnsureCreate
  <2>4. mem' \in [Requests -> LocalState] /\ pc' \in [Requests -> Labels]
    BY <1>19, <2>2 DEF TypeOK, EnsureCreate, GotoWith, Goto, Labels
  <2> QED BY <1>19, <2>3, <2>4 DEF TypeOK, EnsureCreate, book, money, ledger
<1>20. ASSUME NEW r \in Requests, EnsureLink(r) PROVE TypeOK'
  <2>1. mem[r].account \in Accounts \cup {None}
    BY <1>0 DEF LocalState
  <2> QED BY <1>20, <2>1
          DEF TypeOK, EnsureLink, Keep, Goto, Labels, book, money, ledger
<1>21. ASSUME NEW r \in Requests, NEW s \in {"items", "money"}, ReadSource(r, s) PROVE TypeOK'
  <2> DEFINE W == [k \in Key |->
                IF (s = "items") = (k \in Items) THEN Wanted(k) ELSE mem[r].want[k]]
  <2>1. W \in [Key -> Int]
    BY <1>0, WantedType DEF LocalState
  <2> HIDE DEF W
  <2>2. [mem[r] EXCEPT !.unread = @ \ {s}, !.want = W] \in LocalState
    BY <1>0, <2>1, LocalTypes
  <2>3. pc' = [pc EXCEPT ![r] = "read"]
        /\ mem' = [mem EXCEPT ![r] = [mem[r] EXCEPT !.unread = @ \ {s}, !.want = W]]
    BY <1>21 DEF ReadSource, GotoWith, Goto, W
  <2> QED BY <1>21, <2>2, <2>3
          DEF TypeOK, ReadSource, Labels, book, money, party, ledger
<1>22. ASSUME NEW r \in Requests, ReadExisting(r) PROVE TypeOK'
  <2> DEFINE H == [k \in Key |-> IF holder[k] = mem[r].account THEN entry[k] ELSE None]
  <2>1. H \in [Key -> Int \cup {None}]
    BY DEF TypeOK
  <2> HIDE DEF H
  <2>2. [mem[r] EXCEPT !.have = H] \in LocalState
    BY <1>0, <2>1, LocalTypes
  <2>3. pc' = [pc EXCEPT ![r] = "apply"]
        /\ mem' = [mem EXCEPT ![r] = [mem[r] EXCEPT !.have = H]]
    BY <1>22 DEF ReadExisting, GotoWith, Goto, H
  <2> QED BY <1>22, <2>2, <2>3
          DEF TypeOK, ReadExisting, Labels, book, money, party, ledger
<1>23. ASSUME NEW r \in Requests, Apply(r) PROVE TypeOK'
  <2>1. [mem EXCEPT ![r] = Blank] \in [Requests -> LocalState]
    BY BlankType DEF TypeOK
  <2>2. Extra(r) \ mem[r].lost \subseteq Key
    BY DEF Extra
  <2>3. mem' \in [Requests -> LocalState]
    BY <1>23, <2>1, <2>2, LosingType DEF Apply
  <2>4. mem[r].account \in Accounts \cup {None} /\ mem[r].want \in [Key -> Int]
    BY <1>0 DEF LocalState
  <2>5. holder' \in [Key -> Accounts \cup {None}] /\ entry' \in [Key -> Int]
    BY <1>23, <2>4 DEF Apply, TypeOK
  <2> QED BY <1>23, <2>3, <2>5 DEF TypeOK, Apply, Goto, Labels, book, money, party
<1>24. ASSUME NEW r \in Requests, Refuse(r) \/ CutOff(r) PROVE TypeOK'
  BY <1>24, BlankType DEF TypeOK, Refuse, CutOff, End, GotoWith, Goto, Labels, book, money, party, ledger
<1>25. ASSUME NEW i \in Items, NEW q \in Quantities, EditDocument(i, q) PROVE TypeOK'
  BY <1>25 DEF TypeOK, EditDocument, money, party, ledger
<1>26. CASE UNCHANGED vars
  BY <1>26 DEF TypeOK, vars, book, money, party, ledger
<1> QED
  BY <1>1, <1>2, <1>3, <1>4, <1>5, <1>6, <1>7, <1>8, <1>9, <1>10, <1>12, <1>13, <1>14,
     <1>15, <1>16, <1>17, <1>18, <1>19, <1>20, <1>21, <1>22, <1>23, <1>24, <1>25, <1>26
  DEF Next, Step

-----------------------------------------------------------------------------
(* The steps that write what the postings and the account are made of.     *)

Writes(r) ==
    \/ AddItems(r) \/ WriteRemove(r) \/ PostWrite(r) \/ WriteUnpost(r)
    \/ AddCapitalMovement(r) \/ AddPayment(r) \/ WriteDelete(r) \/ Apply(r)

LEMMA OtherSteps ==
  ASSUME [Next]_vars
  PROVE  \/ \E r \in Requests : Writes(r)
         \/ UNCHANGED <<live, posting, frozen, number, spent, holder, entry>>
<1>1. ASSUME NEW r \in Requests, NEW h \in AllHandlers, Begin(r, h)
      PROVE  UNCHANGED <<live, posting, frozen, number, spent, holder, entry>>
  BY <1>1 DEF Begin, book, ledger
<1>2. ASSUME NEW r \in Requests, Step(r) \/ CutOff(r), ~Writes(r)
      PROVE  UNCHANGED <<live, posting, frozen, number, spent, holder, entry>>
  BY <1>2 DEF Step, Writes, CheckUnposted, WriteRate, PostList, PostNumber, FindPosting,
              FindMoney, UpdatePartner, Reread, ListItems, EnsureUpdate, EnsureCreate,
              EnsureLink, ReadSource, ReadExisting, Refuse, CutOff, book, ledger
<1>3. ASSUME NEW i \in Items, NEW q \in Quantities, EditDocument(i, q)
      PROVE  UNCHANGED <<live, posting, frozen, number, spent, holder, entry>>
  BY <1>3 DEF EditDocument, ledger
<1> QED BY <1>1, <1>2, <1>3 DEF Next, vars, book, ledger

\* What a request that is about to write has read: the row it deletes is a
\* movement or a payment, the list it posts is not empty.
Prepared(r) ==
    /\ pc[r] = "writeDelete" => mem[r].key \in Movements \cup Payments
    /\ pc[r] \in {"postNumber", "postWrite"} => Listed(r) # {}
    /\ pc[r] \in {"removeItem", "writeRemove"} => "removeItem" \in Handlers

AllPrepared == \A r \in Requests : Prepared(r)

\* A step of one request leaves what another has prepared as it is.
LEMMA OthersStay ==
  ASSUME TypeOK, NEW r \in Requests, NEW q \in Requests, q # r, Prepared(q),
         \/ \E h \in AllHandlers : Begin(r, h)
         \/ Step(r) \/ CutOff(r)
  PROVE  Prepared(q)'
<1>1. pc \in [Requests -> Labels] /\ mem \in [Requests -> LocalState]
  BY DEF TypeOK
<1>2. pc'[q] = pc[q]
  BY <1>1 DEF Step, Begin, AddItems, CheckUnposted, WriteRate, WriteRemove, DeleteSource,
        PostList, PostNumber, PostWrite, FindPosting, WriteUnpost, AddCapitalMovement,
        AddPayment, CreateSource, FindMoney, WriteDelete, UpdatePartner, Reread, ListItems,
        EnsureUpdate, EnsureCreate, EnsureLink, ReadSource, ReadExisting, Apply, Refuse,
        CutOff, End, Keep, Sync, GotoWith, Goto
<1>3. mem'[q].key = mem[q].key /\ mem'[q].ready = mem[q].ready
  <2>1. ASSUME NEW K, NEW l \in LocalState, mem' = Losing(K, [mem EXCEPT ![r] = l])
        PROVE  mem'[q].key = mem[q].key /\ mem'[q].ready = mem[q].ready
    <3>1. [mem EXCEPT ![r] = l][q] = mem[q]
      BY <1>1
    <3>2. mem'[q] = mem[q] \/ mem'[q] = [mem[q] EXCEPT !.lost = @ \cup K]
      BY <2>1, <3>1 DEF Losing
    <3>3. mem[q] \in LocalState
      BY <1>1
    <3> QED BY <3>2, <3>3 DEF LocalState
  <2>2. CASE WriteRemove(r) \/ WriteDelete(r) \/ Apply(r)
    BY <2>1, <2>2, BlankType DEF WriteRemove, WriteDelete, DeleteSource, Apply
  <2>3. CASE ~(WriteRemove(r) \/ WriteDelete(r) \/ Apply(r))
    <3>1. mem'[q] = mem[q]
      BY <1>1, <2>3 DEF Step, Begin, AddItems, CheckUnposted, WriteRate,
        PostList, PostNumber, PostWrite, FindPosting, WriteUnpost, AddCapitalMovement,
        AddPayment, CreateSource, FindMoney, UpdatePartner, Reread, ListItems,
        EnsureUpdate, EnsureCreate, EnsureLink, ReadSource, ReadExisting, Refuse,
        CutOff, End, Keep, Sync, GotoWith, Goto
    <3> QED BY <3>1
  <2> QED BY <2>2, <2>3
<1> QED BY <1>2, <1>3 DEF Prepared, Listed

LEMMA PreparedNext == TypeOK /\ AllPrepared /\ [Next]_vars => AllPrepared'
<1> SUFFICES ASSUME TypeOK, AllPrepared, [Next]_vars, NEW q \in Requests
             PROVE  Prepared(q)'
  BY DEF AllPrepared
<1>0. Prepared(q) /\ pc \in [Requests -> Labels] /\ mem \in [Requests -> LocalState]
  BY DEF TypeOK, AllPrepared
<1>1. ASSUME NEW r \in Requests, NEW h \in AllHandlers, Begin(r, h) PROVE Prepared(q)'
  <2>1. CASE q # r
    BY <1>0, <1>1, <2>1, OthersStay
  <2>2. CASE q = r
    <3>1. pc'[r] = FirstStep(h) /\ h \in Handlers
      BY <1>0, <1>1 DEF Begin, GotoWith, Goto
    <3> QED BY <2>2, <3>1 DEF Prepared, FirstStep, AllHandlers
  <2> QED BY <2>1, <2>2
<1>2. ASSUME NEW r \in Requests, Step(r) \/ CutOff(r) PROVE Prepared(q)'
  <2>1. CASE q # r
    BY <1>0, <1>2, <2>1, OthersStay
  <2>2. CASE q = r /\ CheckUnposted(r)
    <3>1. \/ pc'[r] = "writeRate"
          \/ pc'[r] = "writeRemove" /\ pc[r] = "removeItem"
      BY <1>0, <2>2 DEF CheckUnposted, GotoWith, Goto
    <3> QED BY <1>0, <2>2, <3>1 DEF Prepared
  <2>3. CASE q = r /\ FindMoney(r)
    <3>1. PICK k \in Movements \cup Payments : GotoWith(r, "writeDelete", [mem[r] EXCEPT !.key = k])
      BY <2>3 DEF FindMoney
    <3>2. pc'[r] = "writeDelete" /\ mem'[r].key = k
      BY <1>0, <3>1 DEF GotoWith, Goto, LocalState
    <3> QED BY <2>3, <3>2 DEF Prepared
  <2>4. CASE q = r /\ PostList(r)
    <3> DEFINE R == [i \in Items |-> IF Ready(i) THEN rate[i] * qty[i] ELSE 0]
    <3>1. pc'[r] = "postNumber" /\ mem'[r] = [mem[r] EXCEPT !.ready = R]
      BY <1>0, <2>4 DEF PostList, GotoWith, Goto
    <3>2. PICK i \in Items : Ready(i)
      BY <2>4 DEF PostList
    <3>3. R[i] > 0
      BY <3>2 DEF Ready
    <3> HIDE DEF R
    <3>4. mem'[r].ready = R
      BY <1>0, <3>1 DEF LocalState
    <3>5. i \in Listed(r)'
      BY <3>3, <3>4 DEF Listed
    <3> QED BY <2>4, <3>1, <3>5 DEF Prepared
  <2>5. CASE q = r /\ PostNumber(r)
    <3>1. PICK n \in LastNumber : GotoWith(r, "postWrite", [mem[r] EXCEPT !.last = n])
      BY <2>5 DEF PostNumber
    <3>2. pc'[r] = "postWrite" /\ mem'[r].ready = mem[r].ready /\ pc[r] = "postNumber"
      BY <1>0, <2>5, <3>1 DEF PostNumber, GotoWith, Goto, LocalState
    <3> QED BY <1>0, <2>5, <3>2 DEF Prepared, Listed
  <2>6. CASE q = r /\ ~(CheckUnposted(r) \/ FindMoney(r) \/ PostList(r) \/ PostNumber(r))
    <3>1. pc'[r] \in {"idle", "ensure", "list", "reread", "link", "read", "apply", "writeUnpost"}
      BY <1>0, <1>2, <2>6 DEF Step, AddItems, WriteRate, WriteRemove, DeleteSource,
        PostWrite, FindPosting, WriteUnpost, AddCapitalMovement,
        AddPayment, CreateSource, WriteDelete, UpdatePartner, Reread, ListItems,
        EnsureUpdate, EnsureCreate, EnsureLink, ReadSource, ReadExisting, Apply, Refuse,
        CutOff, End, Keep, Sync, GotoWith, Goto
    <3> QED BY <2>6, <3>1 DEF Prepared
  <2> QED BY <2>1, <2>2, <2>3, <2>4, <2>5, <2>6
<1>3. ASSUME NEW i \in Items, NEW x \in Quantities, EditDocument(i, x) PROVE Prepared(q)'
  BY <1>0, <1>3 DEF EditDocument, Prepared, Listed
<1>4. CASE UNCHANGED vars
  BY <1>0, <1>4 DEF vars, Prepared, Listed
<1> QED BY <1>1, <1>2, <1>3, <1>4 DEF Next

-----------------------------------------------------------------------------
(* Safety.                                                                 *)

\* A posting that has a number was created once.
NumberedSpent == \A p \in Postings : number[p] # 0 => p \in spent

\* The inductive invariant: the named properties, with what a request that is
\* about to write has read, and that the id of a posting is never used again.
IInv ==
    /\ TypeOK /\ AllPrepared /\ NumberedSpent
    /\ RowsHaveSources /\ PostedItemsHavePostings /\ NumbersDistinct

THEOREM InitInv == Init => IInv
<1> SUFFICES ASSUME Init PROVE IInv
  OBVIOUS
<1>1. TypeOK
  BY InitType
<1>2. AllPrepared
  BY DEF Init, AllPrepared, Prepared
<1>3. NumberedSpent /\ NumbersDistinct
  BY DEF Init, NumberedSpent, NumbersDistinct
<1>4. RowsHaveSources /\ PostedItemsHavePostings
  BY DEF Init, RowsHaveSources, PostedItemsHavePostings
<1> QED BY <1>1, <1>2, <1>3, <1>4 DEF IInv

LEMMA DeleteSourceRows ==
  ASSUME TypeOK, RowsHaveSources, NEW r, NEW k, DeleteSource(r, k)
  PROVE  RowsHaveSources'
  BY DEF TypeOK, RowsHaveSources, DeleteSource

LEMMA RowsNext == IInv /\ [Next]_vars => RowsHaveSources'
<1> SUFFICES ASSUME IInv, [Next]_vars PROVE RowsHaveSources'
  OBVIOUS
<1>0. TypeOK /\ RowsHaveSources
  BY DEF IInv
<1>1. ASSUME NEW r \in Requests, AddItems(r) PROVE RowsHaveSources'
  BY <1>0, <1>1 DEF AddItems, RowsHaveSources, ledger
<1>2. ASSUME NEW r \in Requests, PostWrite(r) \/ WriteUnpost(r) PROVE RowsHaveSources'
  BY <1>0, <1>2 DEF PostWrite, WriteUnpost, RowsHaveSources, ledger
<1>3. ASSUME NEW r \in Requests, AddCapitalMovement(r) \/ AddPayment(r) PROVE RowsHaveSources'
  BY <1>0, <1>3 DEF AddCapitalMovement, AddPayment, CreateSource, RowsHaveSources, ledger
<1>4. ASSUME NEW r \in Requests, WriteRemove(r) \/ WriteDelete(r) PROVE RowsHaveSources'
  BY <1>0, <1>4, DeleteSourceRows DEF WriteRemove, WriteDelete
<1>5. ASSUME NEW r \in Requests, Apply(r) PROVE RowsHaveSources'
  <2>1. live' = live
    BY <1>5 DEF Apply, book
  <2>2. ASSUME NEW k \in Key, holder'[k] # None PROVE k \in live
    <3>1. CASE k \in Missing(r)
      BY <1>5, <3>1 DEF Apply, Applicable, Creatable
    <3>2. CASE k \notin Missing(r)
      BY <1>0, <1>5, <2>2, <3>2 DEF Apply, RowsHaveSources, TypeOK
    <3> QED BY <3>1, <3>2
  <2> QED BY <2>1, <2>2 DEF RowsHaveSources
<1>6. CASE UNCHANGED <<live, posting, frozen, number, spent, holder, entry>>
  BY <1>0, <1>6 DEF RowsHaveSources
<1> QED BY <1>1, <1>2, <1>3, <1>4, <1>5, <1>6, OtherSteps DEF Writes

LEMMA PostingsNext ==
  IInv /\ [Next]_vars => (PostedItemsHavePostings /\ NumbersDistinct /\ NumberedSpent)'
<1> SUFFICES ASSUME IInv, [Next]_vars
             PROVE  (PostedItemsHavePostings /\ NumbersDistinct /\ NumberedSpent)'
  OBVIOUS
<1>0. TypeOK /\ AllPrepared /\ PostedItemsHavePostings /\ NumbersDistinct /\ NumberedSpent
  BY DEF IInv
<1> DEFINE Inv == PostedItemsHavePostings /\ NumbersDistinct /\ NumberedSpent
<1>1. ASSUME live \subseteq live', UNCHANGED <<posting, frozen, number, spent>> PROVE Inv'
  BY <1>0, <1>1 DEF PostedItemsHavePostings, NumbersDistinct, NumberedSpent
<1>2. ASSUME NEW r \in Requests,
             AddItems(r) \/ AddCapitalMovement(r) \/ AddPayment(r) \/ Apply(r)
      PROVE  Inv'
  BY <1>1, <1>2 DEF AddItems, AddCapitalMovement, AddPayment, CreateSource, Apply, book
<1>3. ASSUME NEW r \in Requests, WriteRemove(r) PROVE Inv'
  <2> DEFINE k == mem[r].key
  <2>1. /\ live' = live \ {k}
        /\ posting' = [posting EXCEPT ![k] = None]
        /\ frozen' = [frozen EXCEPT ![k] = 0]
        /\ number' = number /\ spent' = spent
    BY <1>3 DEF WriteRemove, DeleteSource
  <2> HIDE DEF k
  <2>2. PostedItemsHavePostings'
    BY <1>0, <2>1 DEF TypeOK, PostedItemsHavePostings
  <2> QED BY <1>0, <2>1, <2>2 DEF NumbersDistinct, NumberedSpent
<1>4. ASSUME NEW r \in Requests, WriteDelete(r) PROVE Inv'
  <2>1. mem[r].key \notin Items
    BY <1>0, <1>4, SettlementAssumption DEF WriteDelete, AllPrepared, Prepared
  <2>2. live' = live \ {mem[r].key} /\ UNCHANGED <<posting, frozen, number, spent>>
    BY <1>4 DEF WriteDelete, DeleteSource
  <2> QED BY <1>0, <2>1, <2>2 DEF PostedItemsHavePostings, NumbersDistinct, NumberedSpent
<1>5. ASSUME NEW r \in Requests, WriteUnpost(r) PROVE Inv'
  <2>1. PostedItemsHavePostings'
    BY <1>0, <1>5 DEF WriteUnpost, Held, TypeOK, PostedItemsHavePostings
  <2>2. NumbersDistinct' /\ NumberedSpent'
    BY <1>0, <1>5 DEF WriteUnpost, TypeOK, NumbersDistinct, NumberedSpent
  <2> QED BY <2>1, <2>2
<1>6. ASSUME NEW r \in Requests, PostWrite(r) PROVE Inv'
  <2> DEFINE n == mem[r].last + 1
  <2>1. n \in Nat /\ n # 0 /\ mem[r].ready \in [Items -> Nat]
    <3>1. mem[r] \in LocalState
      BY <1>0 DEF TypeOK
    <3> QED BY <3>1 DEF LocalState
  <2>2. PICK p \in Postings \ spent :
          /\ spent' = spent \cup {p}
          /\ number' = [number EXCEPT ![p] = n]
          /\ posting' = [i \in Items |-> IF i \in Listed(r) THEN p ELSE posting[i]]
    BY <1>6 DEF PostWrite
  <2>3. frozen' = [i \in Items |-> IF i \in Listed(r) THEN mem[r].ready[i] ELSE frozen[i]]
        /\ live' = live
    BY <1>6 DEF PostWrite
  <2>4. NumberFree(n) /\ \A i \in Listed(r) : i \in live
    BY <1>6 DEF PostWrite, Postable, StillUnposted
  <2> HIDE DEF n
  <2>5. PostedItemsHavePostings'
    BY <1>0, <2>1, <2>2, <2>3, <2>4 DEF TypeOK, PostedItemsHavePostings, Listed
  <2>6. NumbersDistinct' /\ NumberedSpent'
    BY <1>0, <2>1, <2>2, <2>4 DEF TypeOK, NumbersDistinct, NumberedSpent, NumberFree
  <2> QED BY <2>5, <2>6
<1>7. CASE UNCHANGED <<live, posting, frozen, number, spent, holder, entry>>
  BY <1>1, <1>7
<1> QED BY <1>2, <1>3, <1>4, <1>5, <1>6, <1>7, OtherSteps DEF Writes

THEOREM NextInv == IInv /\ [Next]_vars => IInv'
  BY NextType, PreparedNext, RowsNext, PostingsNext DEF IInv

THEOREM Invariance == Spec => []IInv
  BY InitInv, NextInv, PTL DEF Spec

\* Every column and local of a request keeps its type.
THEOREM TypeCorrect == Spec => []TypeOK
<1>1. IInv => TypeOK
  BY DEF IInv
<1> QED BY <1>1, Invariance, PTL

\* No row of the account outlives the row of the settlement it stands for,
\* whatever overlaps and wherever a request is cut off.
THEOREM NoOrphanRows == Spec => []RowsHaveSources
<1>1. IInv => RowsHaveSources
  BY DEF IInv
<1> QED BY <1>1, Invariance, PTL

\* No item is archived under a posting that does not exist, or without an amount.
THEOREM NoStrandedItems == Spec => []PostedItemsHavePostings
<1>1. IInv => PostedItemsHavePostings
  BY DEF IInv
<1> QED BY <1>1, Invariance, PTL

\* Concurrent postings never share a number.
THEOREM DistinctNumbers == Spec => []NumbersDistinct
<1>1. IInv => NumbersDistinct
  BY DEF IInv
<1> QED BY <1>1, Invariance, PTL

-----------------------------------------------------------------------------
(* A posted amount is fixed.                                               *)

LEMMA FrozenStep ==
  IInv /\ [Next]_vars =>
    \A i \in Items : posting[i] # None /\ posting'[i] # None => frozen'[i] = frozen[i]
<1> SUFFICES ASSUME IInv, [Next]_vars, NEW i \in Items,
                    posting[i] # None, posting'[i] # None
             PROVE  frozen'[i] = frozen[i]
  OBVIOUS
<1>0. TypeOK
  BY DEF IInv
<1>1. ASSUME NEW r \in Requests,
             AddItems(r) \/ AddCapitalMovement(r) \/ AddPayment(r) \/ WriteDelete(r) \/ Apply(r)
      PROVE  frozen'[i] = frozen[i]
  BY <1>1 DEF AddItems, AddCapitalMovement, AddPayment, CreateSource, WriteDelete, Apply, book
<1>2. ASSUME NEW r \in Requests, WriteRemove(r) PROVE frozen'[i] = frozen[i]
  BY <1>0, <1>2 DEF WriteRemove, TypeOK
<1>3. ASSUME NEW r \in Requests, PostWrite(r) PROVE frozen'[i] = frozen[i]
  BY <1>0, <1>3 DEF PostWrite, Postable, StillUnposted, TypeOK
<1>4. ASSUME NEW r \in Requests, WriteUnpost(r) PROVE frozen'[i] = frozen[i]
  BY <1>0, <1>4 DEF WriteUnpost, TypeOK
<1>5. CASE UNCHANGED <<live, posting, frozen, number, spent, holder, entry>>
  BY <1>5
<1> QED BY <1>1, <1>2, <1>3, <1>4, <1>5, OtherSteps DEF Writes

\* While an item stays posted its amount stays what it was when it was posted,
\* whoever edits its rate or its document meanwhile.
THEOREM PostedAmountsFixed == Spec => FrozenWhilePosted
  BY FrozenStep, Invariance, PTL DEF Spec, FrozenWhilePosted

-----------------------------------------------------------------------------
(* Postings as a book.  Both results are about handlers other than         *)
(* removeItem: it looks at postingId before it deletes, and another request *)
(* may post the item in between.                                           *)

KeepsItems == "removeItem" \notin Handlers

LEMMA NothingRemoved ==
  ASSUME KeepsItems, IInv, NEW r \in Requests, WriteRemove(r)
  PROVE  FALSE
  BY DEF KeepsItems, IInv, AllPrepared, Prepared, WriteRemove

LEMMA NotEmptyStep == KeepsItems /\ IInv /\ PostingsNotEmpty /\ [Next]_vars => PostingsNotEmpty'
<1> SUFFICES ASSUME KeepsItems, IInv, PostingsNotEmpty, [Next]_vars,
                    NEW p \in Postings, number'[p] # 0
             PROVE  \E i \in Items : posting'[i] = p
  BY DEF PostingsNotEmpty
<1>0. TypeOK
  BY DEF IInv
<1>1. ASSUME posting' = posting, number' = number PROVE \E i \in Items : posting'[i] = p
  BY <1>1 DEF PostingsNotEmpty
<1>2. ASSUME NEW r \in Requests,
             AddItems(r) \/ AddCapitalMovement(r) \/ AddPayment(r) \/ WriteDelete(r) \/ Apply(r)
      PROVE  \E i \in Items : posting'[i] = p
  BY <1>1, <1>2 DEF AddItems, AddCapitalMovement, AddPayment, CreateSource, WriteDelete,
                    Apply, book
<1>3. ASSUME NEW r \in Requests, PostWrite(r) PROVE \E i \in Items : posting'[i] = p
  <2>1. PICK n \in Postings \ spent :
          /\ number' = [number EXCEPT ![n] = mem[r].last + 1]
          /\ posting' = [i \in Items |-> IF i \in Listed(r) THEN n ELSE posting[i]]
    BY <1>3 DEF PostWrite
  <2>2. CASE p = n
    <3>1. PICK i \in Listed(r) : TRUE
      BY <1>3 DEF IInv, AllPrepared, Prepared, PostWrite
    <3> QED BY <2>1, <2>2, <3>1 DEF Listed
  <2>3. CASE p # n
    <3>1. PICK i \in Items : posting[i] = p
      BY <1>0, <2>1, <2>3 DEF TypeOK, PostingsNotEmpty
    <3>2. i \notin Listed(r)
      BY <1>3, <3>1, SettlementAssumption DEF PostWrite, Postable, StillUnposted
    <3> QED BY <2>1, <3>1, <3>2
  <2> QED BY <2>2, <2>3
<1>4. ASSUME NEW r \in Requests, WriteUnpost(r) PROVE \E i \in Items : posting'[i] = p
  <2>1. p # mem[r].posting
    BY <1>0, <1>4 DEF WriteUnpost, TypeOK
  <2>2. number[p] # 0
    BY <1>0, <1>4, <2>1 DEF WriteUnpost, TypeOK
  <2>3. PICK i \in Items : posting[i] = p
    BY <2>2 DEF PostingsNotEmpty
  <2> QED BY <1>4, <2>1, <2>3 DEF WriteUnpost, Held
<1>5. CASE UNCHANGED <<live, posting, frozen, number, spent, holder, entry>>
  BY <1>1, <1>5
<1> QED BY <1>2, <1>3, <1>4, <1>5, NothingRemoved, OtherSteps DEF Writes

\* A posting is never empty: no request that posts finds its list half taken
\* by another and posts the rest, and none loses its items to another.
THEOREM NoEmptyPostings == ASSUME KeepsItems PROVE Spec => []PostingsNotEmpty
<1>1. Init => PostingsNotEmpty
  BY DEF Init, PostingsNotEmpty
<1>2. IInv /\ PostingsNotEmpty /\ [Next]_vars => PostingsNotEmpty'
  BY NotEmptyStep
<1> QED BY <1>1, <1>2, Invariance, PTL DEF Spec

LEMMA BookInit == Init => Book!Init
  BY DEF Init, Book!Init, Slot

LEMMA BookStep == KeepsItems /\ IInv /\ [Next]_vars => [Book!Next]_Slot
<1> SUFFICES ASSUME KeepsItems, IInv, [Next]_vars
             PROVE  Book!Next \/ Slot' = Slot
  OBVIOUS
<1>0. /\ TypeOK /\ PostedItemsHavePostings /\ NumberedSpent
      /\ \A p \in Postings : p # "absent" /\ p # "open" /\ p # None
  BY SettlementAssumption DEF IInv
<1>1. ASSUME posting' = posting, \A i \in Items : i \in live' <=> i \in live
      PROVE  Slot' = Slot
  BY <1>1 DEF Slot
<1>2. ASSUME NEW r \in Requests, AddItems(r) PROVE Book!Next
  <2>1. PICK S \in SUBSET Items : live' = live \cup S
    BY <1>2 DEF AddItems
  <2>2. posting' = posting
    BY <1>2 DEF AddItems
  <2>3. Book!Choose(S)
    BY <1>0, <2>1, <2>2 DEF Book!Choose, Slot, PostedItemsHavePostings, TypeOK
  <2> QED BY <2>3 DEF Book!Next
<1>3. ASSUME NEW r \in Requests, AddCapitalMovement(r) \/ AddPayment(r) PROVE Slot' = Slot
  BY <1>1, <1>3, SettlementAssumption DEF AddCapitalMovement, AddPayment, CreateSource
<1>4. ASSUME NEW r \in Requests, WriteDelete(r) PROVE Slot' = Slot
  <2>1. mem[r].key \notin Items
    BY <1>4, SettlementAssumption DEF IInv, WriteDelete, AllPrepared, Prepared
  <2> QED BY <1>1, <1>4, <2>1 DEF WriteDelete, DeleteSource
<1>5. ASSUME NEW r \in Requests, Apply(r) PROVE Slot' = Slot
  BY <1>1, <1>5 DEF Apply, book
<1>6. ASSUME NEW r \in Requests, PostWrite(r) PROVE Book!Next
  <2>1. PICK p \in Postings \ spent :
          posting' = [i \in Items |-> IF i \in Listed(r) THEN p ELSE posting[i]]
    BY <1>6 DEF PostWrite
  <2>2. Listed(r) # {} /\ Listed(r) \subseteq Items /\ live' = live
    BY <1>6 DEF IInv, AllPrepared, Prepared, PostWrite, Listed
  <2>3. \A i \in Listed(r) : i \in live /\ posting[i] = None
    BY <1>6 DEF PostWrite, Postable, StillUnposted
  <2>4. \A i \in Items : posting[i] # p
    BY <1>0, <2>1 DEF PostedItemsHavePostings, NumberedSpent
  <2>5. Book!Post(p, Listed(r))
    <3>1. \A i \in Listed(r) : Slot[i] = "open"
      BY <2>2, <2>3 DEF Slot
    <3>2. \A i \in Items : Slot[i] # p
      BY <1>0, <2>4 DEF Slot
    <3>3. Slot' = [i \in Items |-> IF i \in Listed(r) THEN p ELSE Slot[i]]
      BY <1>0, <2>1, <2>2, <2>3 DEF Slot
    <3> QED BY <2>2, <3>1, <3>2, <3>3 DEF Book!Post
  <2> QED BY <2>1, <2>2, <2>5 DEF Book!Next
<1>7. ASSUME NEW r \in Requests, WriteUnpost(r) PROVE Book!Next \/ Slot' = Slot
  <2> DEFINE p == mem[r].posting
  <2>1. number[p] # 0 /\ live' = live
    BY <1>7 DEF WriteUnpost
  <2>2. posting' = [i \in Items |-> IF posting[i] = p THEN None ELSE posting[i]]
    BY <1>7 DEF WriteUnpost, Held
  <2>3. CASE p \in Postings
    <3>1. Slot' = [i \in Items |-> IF Slot[i] = p THEN "open" ELSE Slot[i]]
      BY <1>0, <2>1, <2>2, <2>3 DEF Slot, PostedItemsHavePostings
    <3> QED BY <2>3, <3>1 DEF Book!Next, Book!Release
  <2>4. CASE p \notin Postings
    <3>1. \A i \in Items : posting[i] # p \/ posting[i] = None
      BY <1>0, <2>4 DEF TypeOK
    <3>2. posting' = posting
      BY <1>0, <2>2, <3>1 DEF TypeOK
    <3> QED BY <1>1, <2>1, <3>2
  <2> QED BY <2>3, <2>4
<1>8. CASE UNCHANGED <<live, posting, frozen, number, spent, holder, entry>>
  BY <1>1, <1>8
<1> QED BY <1>2, <1>3, <1>4, <1>5, <1>6, <1>7, <1>8, NothingRemoved, OtherSteps DEF Writes

\* The requests of the settlement implement the book of postings: an item is
\* posted with the whole list it was on, and comes back with its posting.
THEOREM PostingsImplementBook == ASSUME KeepsItems PROVE Spec => BookSpec
<1>1. KeepsItems
  OBVIOUS
<1> QED BY <1>1, BookInit, BookStep, Invariance, PTL DEF Spec, BookSpec, Book!Spec

-----------------------------------------------------------------------------
(* Requests one at a time, none of them cut off: the account is exact      *)
(* between them.                                                           *)

Alone == \A p, q \in Requests : pc[p] # "idle" /\ pc[q] # "idle" => p = q

\* the places where a request has changed nothing yet
BeforeWrite ==
    AllHandlers \cup
    {"writeRate", "writeRemove", "postNumber", "postWrite", "writeUnpost", "writeDelete"}

\* what the sync wants to find of k is what is wanted, once its source is read
Read(m, k) ==
    (IF k \in Items THEN "items" ELSE "money") \notin m.unread => m.want[k] = Wanted(k)

Opened == account # None /\ opening[account] = -capital

\* What a lone request knows when it is at l with m.
KnowsAlone(l, m) ==
    /\ m.lost = {}
    /\ l \in BeforeWrite => Exact
    /\ l \in BeforeWrite \cup {"reread", "list"} => m.unread = {"items", "money"}
    /\ l \in BeforeWrite \cup {"list", "ensure", "read", "apply"} => m.account = account
    /\ l \in BeforeWrite \cup {"list", "ensure", "link", "read", "apply"} => m.capital = capital
    /\ l = "writeRemove" => m.key \in Items /\ posting[m.key] = None
    /\ l \in {"ensure", "link", "read"} => \A k \in Key : Read(m, k)
    /\ l = "link" => account = None /\ m.account \in Accounts /\ opening[m.account] = -m.capital
    /\ l \in {"read", "apply"} => Opened
    /\ l = "apply" =>
        \A k \in Key : /\ m.want[k] = Wanted(k)
                       /\ m.have[k] = IF holder[k] = account THEN entry[k] ELSE None

SerialInv ==
    /\ Alone
    /\ (\A r \in Requests : pc[r] = "idle") => Exact
    /\ \A k \in Key : holder[k] \in {None, account}
    /\ account = None /\ (\A r \in Requests : pc[r] # "link") => \A a \in Accounts : opening[a] = None
    /\ \A r \in Requests : KnowsAlone(pc[r], mem[r])

\* What Exact and the knowledge of a lone request are made of.
Same == UNCHANGED <<live, effect, posting, frozen, account, capital, opening, holder, entry>>

LEMMA SameWanted ==
  ASSUME UNCHANGED <<live, effect, posting, frozen>>, NEW k
  PROVE  Wanted(k)' = Wanted(k)
BY DEF Wanted, Due, MoneyEffect

LEMMA SameKnown ==
  ASSUME Same, NEW l, NEW m
  PROVE  /\ Exact' = Exact
         /\ KnowsAlone(l, m)' = KnowsAlone(l, m)
<1>1. \A k : Wanted(k)' = Wanted(k)
  BY SameWanted DEF Same
<1>2. Exact' = Exact
  BY <1>1 DEF Exact, Same
<1>3. Opened' = Opened
  BY DEF Opened, Same
<1>4. (\A k \in Key : Read(m, k))' = (\A k \in Key : Read(m, k))
  BY <1>1 DEF Read
<1>5. (\A k \in Key : /\ m.want[k] = Wanted(k)
                      /\ m.have[k] = IF holder[k] = account THEN entry[k] ELSE None)'
      = (\A k \in Key : /\ m.want[k] = Wanted(k)
                        /\ m.have[k] = IF holder[k] = account THEN entry[k] ELSE None)
  BY <1>1 DEF Same
<1>6. UNCHANGED <<account, capital, opening, posting>>
  BY DEF Same
<1> QED BY <1>2, <1>3, <1>4, <1>5, <1>6 DEF KnowsAlone

\* The request r moves to l with m while the others rest.
LEMMA AloneMove ==
  ASSUME TypeOK, SerialInv, Alone', NEW r \in Requests, NEW l \in Labels, NEW m \in LocalState,
         pc' = [pc EXCEPT ![r] = l], mem' = [mem EXCEPT ![r] = m],
         pc[r] # "idle" \/ l # "idle",
         KnowsAlone(l, m)', l = "idle" => Exact',
         \A k \in Key : holder'[k] \in {None, account'},
         account' = None /\ l # "link" => \A a \in Accounts : opening'[a] = None
  PROVE  SerialInv'
<1>1. pc \in [Requests -> Labels] /\ mem \in [Requests -> LocalState]
  BY DEF TypeOK
<1>2. /\ pc'[r] = l /\ mem'[r] = m
      /\ \A q \in Requests \ {r} : pc'[q] = pc[q] /\ mem'[q] = mem[q]
  BY <1>1
<1>3. \A q \in Requests \ {r} : pc[q] = "idle"
  BY <1>2 DEF SerialInv, Alone
<1>4. ASSUME NEW q \in Requests PROVE KnowsAlone(pc[q], mem[q])'
  <2>1. CASE q = r
    BY <1>2, <2>1
  <2>2. CASE q # r
    <3>1. KnowsAlone(pc[q], mem[q])
      BY DEF SerialInv
    <3>2. mem'[q].lost = {} /\ pc'[q] = "idle"
      BY <1>2, <1>3, <2>2, <3>1 DEF KnowsAlone
    <3> QED BY <3>2 DEF KnowsAlone, BeforeWrite, AllHandlers
  <2> QED BY <2>1, <2>2
<1>5. (\A q \in Requests : pc'[q] = "idle") => Exact'
  BY <1>2
<1>6. account' = None /\ (\A q \in Requests : pc'[q] # "link") => \A a \in Accounts : opening'[a] = None
  BY <1>2
<1> QED BY <1>4, <1>5, <1>6 DEF SerialInv

\* It has read something, or it begins.
LEMMA AloneReads ==
  ASSUME TypeOK, SerialInv, Alone', Same, NEW r \in Requests, NEW l \in Labels, NEW m \in LocalState,
         pc' = [pc EXCEPT ![r] = l], mem' = [mem EXCEPT ![r] = m],
         pc[r] # "idle" \/ l # "idle", pc[r] # "link",
         KnowsAlone(l, m), l = "idle" => Exact
  PROVE  SerialInv'
<1>1. KnowsAlone(l, m)' /\ (l = "idle" => Exact')
  BY SameKnown
<1>2. \A k \in Key : holder'[k] \in {None, account'}
  BY DEF SerialInv, Same
<1>3. \A q \in Requests : q # r => pc[q] = "idle"
  <2>1. pc \in [Requests -> Labels]
    BY DEF TypeOK
  <2> QED BY <2>1 DEF SerialInv, Alone
<1>4. account' = None /\ l # "link" => \A a \in Accounts : opening'[a] = None
  BY <1>3 DEF SerialInv, Same
<1> QED BY <1>1, <1>2, <1>4, AloneMove
\* What a lone request that is under way knows.
LEMMA WhereAlone ==
  ASSUME TypeOK, SerialInv, NEW r \in Requests
  PROVE  /\ pc \in [Requests -> Labels] /\ mem \in [Requests -> LocalState]
         /\ mem[r] \in LocalState /\ pc[r] \in Labels
         /\ KnowsAlone(pc[r], mem[r])
         /\ pc[r] # "idle" => \A q \in Requests \ {r} : pc[q] = "idle"
         /\ \A k \in Key : holder[k] \in {None, account}
BY DEF TypeOK, SerialInv, Alone

\* It has written something and goes on to read everything.
LEMMA AloneSyncs ==
  ASSUME TypeOK, SerialInv, Alone', NEW r \in Requests, NEW l \in {"list", "ensure"}, NEW m \in LocalState,
         pc' = [pc EXCEPT ![r] = l], mem' = [mem EXCEPT ![r] = m], pc[r] \in BeforeWrite,
         UNCHANGED <<account, capital, opening, holder>>,
         m.lost = {}, m.unread = {"items", "money"}, m.account = account, m.capital = capital
  PROVE  SerialInv'
<1>1. l \in Labels /\ l # "idle" /\ pc[r] # "idle" /\ pc[r] # "link"
  BY DEF Labels, BeforeWrite, AllHandlers
<1>2. KnowsAlone(l, m)'
  BY DEF KnowsAlone, BeforeWrite, AllHandlers, Read
<1>3. \A k \in Key : holder'[k] \in {None, account'}
  BY DEF SerialInv
<1>4. account' = None => \A a \in Accounts : opening'[a] = None
  BY <1>1, WhereAlone DEF SerialInv
<1> QED BY <1>1, <1>2, <1>3, <1>4, AloneMove

LEMMA SyncAlone ==
  ASSUME TypeOK, SerialInv, Alone', NEW r \in Requests, NEW l \in {"list", "ensure"},
         Sync(r, l), pc[r] \in BeforeWrite,
         UNCHANGED <<account, capital, opening, holder>>
  PROVE  SerialInv'
<1>1. mem[r] \in LocalState /\ mem[r].account = account /\ mem[r].capital = capital
  BY WhereAlone DEF KnowsAlone
<1>2. PICK m : m = [Blank EXCEPT !.account = mem[r].account, !.capital = mem[r].capital]
  OBVIOUS
<1>3. /\ m.lost = {} /\ m.unread = {"items", "money"}
      /\ m.account = account /\ m.capital = capital
  BY <1>1, <1>2 DEF Blank
<1>4. m \in LocalState
  BY <1>1, <1>2, BlankType DEF LocalState
<1>5. pc' = [pc EXCEPT ![r] = l] /\ mem' = [mem EXCEPT ![r] = m]
  BY <1>2 DEF Sync, GotoWith, Goto
<1> QED BY <1>3, <1>4, <1>5, AloneSyncs

LEMMA KeepAlone ==
  ASSUME TypeOK, SerialInv, Alone', NEW r \in Requests, NEW l \in {"list", "ensure"},
         Keep(r, l), pc[r] \in BeforeWrite,
         UNCHANGED <<account, capital, opening, holder>>
  PROVE  SerialInv'
<1>1. mem \in [Requests -> LocalState] /\ mem[r] \in LocalState /\ KnowsAlone(pc[r], mem[r])
  BY WhereAlone
<1>2. PICK m : m = mem[r]
  OBVIOUS
<1>3. m \in LocalState /\ mem' = [mem EXCEPT ![r] = m] /\ pc' = [pc EXCEPT ![r] = l]
  BY <1>1, <1>2 DEF Keep, Goto
<1>4. /\ m.lost = {} /\ m.unread = {"items", "money"}
      /\ m.account = account /\ m.capital = capital
  BY <1>1, <1>2 DEF KnowsAlone
<1> QED BY <1>3, <1>4, AloneSyncs

\* It has looked something up and has written nothing yet.
LEMMA FindsAlone ==
  ASSUME TypeOK, SerialInv, Alone', Same, NEW r \in Requests, NEW l \in BeforeWrite,
         NEW m \in LocalState, GotoWith(r, l, m), pc[r] \in BeforeWrite,
         m.lost = mem[r].lost, m.unread = mem[r].unread,
         m.account = mem[r].account, m.capital = mem[r].capital,
         l = "writeRemove" => m.key \in Items /\ posting[m.key] = None
  PROVE  SerialInv'
<1>1. KnowsAlone(pc[r], mem[r])
  BY WhereAlone
<1>2. l \in Labels /\ l # "idle" /\ pc[r] # "idle" /\ pc[r] # "link"
  BY DEF Labels, BeforeWrite, AllHandlers
<1>3. KnowsAlone(l, m)
  BY <1>1 DEF KnowsAlone, BeforeWrite, AllHandlers
<1> QED BY <1>2, <1>3, AloneReads DEF GotoWith, Goto

LEMMA BeginAlone ==
  ASSUME TypeOK, SerialInv, Alone', NEW r \in Requests, NEW h \in AllHandlers, Begin(r, h)
  PROVE  SerialInv'
<1>0. pc \in [Requests -> Labels] /\ mem \in [Requests -> LocalState]
  BY DEF TypeOK
<1>1. PICK l, m : l = FirstStep(h) /\ m = [Blank EXCEPT !.account = account, !.capital = capital]
  OBVIOUS
<1>2. /\ l \in AllHandlers \cup {"list", "ensure"} /\ l \in Labels
      /\ l \notin {"idle", "writeRemove", "link", "read", "apply"}
  BY <1>1 DEF FirstStep, BeforeWrite, Labels, AllHandlers
<1>3. m \in LocalState
  BY <1>1, BlankType, LocalTypes DEF TypeOK
<1>4. /\ m.lost = {} /\ m.unread = {"items", "money"}
      /\ m.account = account /\ m.capital = capital
  BY <1>1 DEF Blank
<1>5. pc' = [pc EXCEPT ![r] = l] /\ mem' = [mem EXCEPT ![r] = m] /\ pc[r] = "idle" /\ Same
  BY <1>1 DEF Begin, GotoWith, Goto, Same, book, money, party, ledger
<1>6. \A q \in Requests : pc[q] = "idle"
  BY <1>0, <1>2, <1>5 DEF Alone
<1>7. Exact
  BY <1>6 DEF SerialInv
<1>8. KnowsAlone(l, m)
  BY <1>2, <1>4, <1>7 DEF KnowsAlone, Read, BeforeWrite, AllHandlers
<1> QED BY <1>2, <1>3, <1>5, <1>8, AloneReads

LEMMA ChangesAlone ==
  ASSUME TypeOK, SerialInv, Alone', NEW r \in Requests,
         \/ AddItems(r) \/ WriteRate(r) \/ PostWrite(r) \/ WriteUnpost(r)
         \/ AddCapitalMovement(r) \/ AddPayment(r)
  PROVE  SerialInv'
<1>1. CASE AddItems(r)
  BY <1>1, KeepAlone DEF AddItems, BeforeWrite, AllHandlers, party, ledger
<1>2. CASE AddCapitalMovement(r) \/ AddPayment(r)
  <2>1. Keep(r, "ensure") /\ UNCHANGED <<party, ledger>>
    BY <1>2 DEF AddCapitalMovement, AddPayment, CreateSource
  <2>2. pc[r] \in BeforeWrite
    BY <1>2 DEF AddCapitalMovement, AddPayment, BeforeWrite, AllHandlers
  <2> QED BY <2>1, <2>2, KeepAlone DEF party, ledger
<1>3. CASE WriteRate(r)
  BY <1>3, SyncAlone DEF WriteRate, BeforeWrite, party, ledger
<1>4. CASE PostWrite(r) \/ WriteUnpost(r)
  BY <1>4, SyncAlone DEF PostWrite, WriteUnpost, BeforeWrite, party, ledger
<1> QED BY <1>1, <1>2, <1>3, <1>4

LEMMA LooksAlone ==
  ASSUME TypeOK, SerialInv, Alone', NEW r \in Requests,
         CheckUnposted(r) \/ PostList(r) \/ PostNumber(r) \/ FindPosting(r) \/ FindMoney(r)
  PROVE  SerialInv'
<1>0. mem[r] \in LocalState /\ mem'[r] \in LocalState
  <2>1. mem' \in [Requests -> LocalState]
    <3>1. [Next]_vars
      BY DEF Next, Step
    <3> QED BY <3>1, NextType DEF TypeOK
  <2> QED BY <2>1 DEF TypeOK
<1>1. Same
  BY DEF CheckUnposted, PostList, PostNumber, FindPosting, FindMoney,
         Same, book, money, party, ledger
<1>2. pc[r] \in BeforeWrite
  BY DEF CheckUnposted, PostList, PostNumber, FindPosting, FindMoney, BeforeWrite, AllHandlers
<1>3. \E l \in BeforeWrite, m \in LocalState :
        /\ GotoWith(r, l, m)
        /\ m.lost = mem[r].lost /\ m.unread = mem[r].unread
        /\ m.account = mem[r].account /\ m.capital = mem[r].capital
        /\ l = "writeRemove" => m.key \in Items /\ posting[m.key] = None
  <2>1. CASE CheckUnposted(r)
    <3>1. CASE pc[r] = "setItemRate"
      <4>1. PICK x \in Rates, i \in Items : GotoWith(r, "writeRate", [mem[r] EXCEPT !.key = i, !.rate = x])
        BY <2>1, <3>1 DEF CheckUnposted
      <4>2. [mem[r] EXCEPT !.key = i, !.rate = x] \in LocalState
        BY <1>0, LocalTypes DEF Key
      <4>3. PICK m : m = [mem[r] EXCEPT !.key = i, !.rate = x]
        OBVIOUS
      <4>4. /\ m.lost = mem[r].lost /\ m.unread = mem[r].unread
            /\ m.account = mem[r].account /\ m.capital = mem[r].capital
        BY <1>0, <4>3 DEF LocalState
      <4>5. GotoWith(r, "writeRate", m) /\ m \in LocalState /\ "writeRate" \in BeforeWrite
        BY <4>1, <4>2, <4>3 DEF BeforeWrite
      <4> QED BY <4>4, <4>5
    <3>2. CASE pc[r] = "removeItem"
      <4>1. PICK i \in Items : posting[i] = None /\ GotoWith(r, "writeRemove", [mem[r] EXCEPT !.key = i])
        BY <2>1, <3>2 DEF CheckUnposted
      <4>2. [mem[r] EXCEPT !.key = i] \in LocalState
        BY <1>0, LocalTypes DEF Key
      <4> QED BY <1>0, <4>1, <4>2 DEF BeforeWrite, LocalState
    <3> QED BY <2>1, <3>1, <3>2 DEF CheckUnposted
  <2>2. CASE PostList(r)
    <3>1. PICK R : GotoWith(r, "postNumber", [mem[r] EXCEPT !.ready = R])
      BY <2>2 DEF PostList
    <3>2. mem'[r] = [mem[r] EXCEPT !.ready = R]
      BY <3>1 DEF GotoWith, TypeOK
    <3> QED BY <1>0, <3>1, <3>2 DEF BeforeWrite, LocalState
  <2>3. CASE PostNumber(r)
    <3>1. PICK n : GotoWith(r, "postWrite", [mem[r] EXCEPT !.last = n])
      BY <2>3 DEF PostNumber
    <3>2. mem'[r] = [mem[r] EXCEPT !.last = n]
      BY <3>1 DEF GotoWith, TypeOK
    <3> QED BY <1>0, <3>1, <3>2 DEF BeforeWrite, LocalState
  <2>4. CASE FindPosting(r)
    <3>1. PICK p : GotoWith(r, "writeUnpost", [mem[r] EXCEPT !.posting = p])
      BY <2>4 DEF FindPosting
    <3>2. mem'[r] = [mem[r] EXCEPT !.posting = p]
      BY <3>1 DEF GotoWith, TypeOK
    <3> QED BY <1>0, <3>1, <3>2 DEF BeforeWrite, LocalState
  <2>5. CASE FindMoney(r)
    <3>1. PICK k : GotoWith(r, "writeDelete", [mem[r] EXCEPT !.key = k])
      BY <2>5 DEF FindMoney
    <3>2. mem'[r] = [mem[r] EXCEPT !.key = k]
      BY <3>1 DEF GotoWith, TypeOK
    <3>3. PICK m : m = [mem[r] EXCEPT !.key = k]
      OBVIOUS
    <3>4. /\ m.lost = mem[r].lost /\ m.unread = mem[r].unread
          /\ m.account = mem[r].account /\ m.capital = mem[r].capital
      BY <1>0, <3>3 DEF LocalState
    <3> QED BY <1>0, <3>1, <3>2, <3>3, <3>4 DEF BeforeWrite
  <2> QED BY <2>1, <2>2, <2>3, <2>4, <2>5
<1> QED BY <1>1, <1>2, <1>3, FindsAlone
\* A source is deleted with its row: what is left is as exact as it was.
LEMMA DeletesAlone ==
  ASSUME IInv, SerialInv, Alone', NEW r \in Requests, WriteRemove(r) \/ WriteDelete(r)
  PROVE  SerialInv'
<1>0. TypeOK /\ AllPrepared
  BY DEF IInv
<1>1. /\ mem[r] \in LocalState /\ KnowsAlone(pc[r], mem[r])
      /\ pc \in [Requests -> Labels] /\ mem \in [Requests -> LocalState]
      /\ pc[r] # "idle" => \A q \in Requests \ {r} : pc[q] = "idle"
      /\ \A k \in Key : holder[k] \in {None, account}
  BY <1>0, WhereAlone
<1>2. PICK k : k = mem[r].key
  OBVIOUS
<1>3. DeleteSource(r, k) /\ UNCHANGED party
  BY <1>2 DEF WriteRemove, WriteDelete
<1>4. pc[r] \in {"writeRemove", "writeDelete"}
  BY DEF WriteRemove, WriteDelete
<1>5. Exact
  BY <1>1, <1>4 DEF KnowsAlone, BeforeWrite
<1>6. \A q \in Requests : pc'[q] = "idle"
  BY <1>1, <1>3, <1>4 DEF DeleteSource, Goto
<1>7. mem' = [mem EXCEPT ![r] = Blank]
  <2>1. \A q \in Requests : mem'[q] = [mem EXCEPT ![r] = Blank][q]
    BY <1>3, <1>6 DEF DeleteSource, Losing
  <2>2. mem' = [q \in Requests |-> mem'[q]]
    BY <1>3 DEF DeleteSource, Losing
  <2> QED BY <1>1, <2>1, <2>2
<1>8. k \in Key
  BY <1>0, <1>2 DEF WriteRemove, WriteDelete, TypeOK
<1>9. Wanted(k)' = 0 /\ \A j \in Key \ {k} : Wanted(j)' = Wanted(j)
  <2>1. CASE WriteRemove(r)
    <3>1. k \in Items /\ live' = live \ {k} /\ effect' = effect
      BY <1>1, <1>2, <1>4, <2>1 DEF KnowsAlone, WriteRemove, DeleteSource, money
    <3>2. /\ posting' = [posting EXCEPT ![k] = None]
          /\ frozen' = [frozen EXCEPT ![k] = 0]
      BY <1>2, <2>1 DEF WriteRemove
    <3> QED BY <1>0, <3>1, <3>2, SettlementAssumption DEF Wanted, Due, MoneyEffect, Key, TypeOK
  <2>2. CASE WriteDelete(r)
    <3>1. k \in Movements \cup Payments
      BY <1>0, <1>2, <2>2 DEF AllPrepared, Prepared, WriteDelete
    <3>2. live' = live \ {k} /\ UNCHANGED <<posting, frozen>> /\ effect' = [effect EXCEPT ![k] = 0]
      BY <1>2, <2>2 DEF WriteDelete, DeleteSource
    <3> QED BY <1>0, <3>1, <3>2, SettlementAssumption DEF Wanted, Due, MoneyEffect, Key, TypeOK
  <2> QED BY <2>1, <2>2
<1>10. /\ holder'[k] = None
       /\ \A j \in Key \ {k} : holder'[j] = holder[j] /\ entry'[j] = entry[j]
  BY <1>0, <1>3, <1>8 DEF DeleteSource, TypeOK
<1>11. UNCHANGED <<account, capital, opening>>
  BY <1>3 DEF party
<1>12. Exact'
  <2>1. ASSUME NEW j \in Key
        PROVE  IF Wanted(j)' # 0 THEN holder'[j] = account' /\ entry'[j] = Wanted(j)'
                                 ELSE holder'[j] = None
    <3>1. CASE j = k
      BY <1>9, <1>10, <3>1
    <3>2. CASE j # k
      BY <1>5, <1>9, <1>10, <1>11, <3>2 DEF Exact
    <3> QED BY <3>1, <3>2
  <2> QED BY <1>5, <1>11, <2>1 DEF Exact
<1>13. KnowsAlone("idle", Blank)'
  BY DEF KnowsAlone, Blank, BeforeWrite, AllHandlers
<1>14. \A j \in Key : holder'[j] \in {None, account'}
  BY <1>1, <1>10, <1>11
<1>15. account' = None => \A a \in Accounts : opening'[a] = None
  BY <1>1, <1>4, <1>11 DEF SerialInv
<1>16. pc' = [pc EXCEPT ![r] = "idle"] /\ "idle" \in Labels /\ pc[r] # "idle"
  BY <1>3, <1>4 DEF DeleteSource, Goto, Labels
<1>17. PICK l, m : l = "idle" /\ m = Blank
  OBVIOUS
<1>18. l \in Labels /\ m \in LocalState /\ KnowsAlone(l, m)'
  BY <1>13, <1>16, <1>17, BlankType
<1> QED BY <1>0, <1>7, <1>12, <1>14, <1>15, <1>16, <1>17, <1>18, AloneMove

\* The partner's row is changed: the account is exact again after the sync.
LEMMA UpdatesAlone ==
  ASSUME TypeOK, SerialInv, Alone', NEW r \in Requests, UpdatePartner(r)
  PROVE  SerialInv'
<1>1. /\ mem \in [Requests -> LocalState] /\ mem[r] \in LocalState
      /\ KnowsAlone(pc[r], mem[r])
      /\ \A q \in Requests \ {r} : pc[q] = "idle"
      /\ \A k \in Key : holder[k] \in {None, account}
  BY WhereAlone DEF UpdatePartner
<1>2. PICK l, m : l = "reread" /\ m = mem[r]
  OBVIOUS
<1>3. l \in Labels /\ m \in LocalState
  BY <1>1, <1>2 DEF Labels
<1>4. /\ pc' = [pc EXCEPT ![r] = l] /\ mem' = [mem EXCEPT ![r] = m]
      /\ pc[r] = "updatePartner" /\ UNCHANGED <<account, opening, holder>>
  BY <1>1, <1>2 DEF UpdatePartner, Keep, Goto, ledger
<1>5. KnowsAlone(l, m)'
  BY <1>1, <1>2, <1>4 DEF KnowsAlone, BeforeWrite, AllHandlers
<1>6. \A k \in Key : holder'[k] \in {None, account'}
  BY <1>1, <1>4
<1>7. account' = None => \A a \in Accounts : opening'[a] = None
  BY <1>1, <1>4 DEF SerialInv
<1> QED BY <1>2, <1>3, <1>4, <1>5, <1>6, <1>7, AloneMove

LEMMA RereadsAlone ==
  ASSUME TypeOK, SerialInv, Alone', NEW r \in Requests, Reread(r)
  PROVE  SerialInv'
<1>1. /\ mem[r] \in LocalState /\ KnowsAlone(pc[r], mem[r])
  BY WhereAlone
<1>2. PICK l, m : l = "ensure" /\ m = [mem[r] EXCEPT !.account = account, !.capital = capital]
  OBVIOUS
<1>3. l \in Labels /\ m \in LocalState
  BY <1>1, <1>2, LocalTypes DEF Labels, TypeOK
<1>4. /\ pc' = [pc EXCEPT ![r] = l] /\ mem' = [mem EXCEPT ![r] = m]
      /\ pc[r] = "reread" /\ Same
  BY <1>2 DEF Reread, GotoWith, Goto, Same, book, money, party, ledger
<1>5. m.lost = {} /\ m.unread = {"items", "money"} /\ m.account = account /\ m.capital = capital
  BY <1>1, <1>2, <1>4 DEF KnowsAlone, LocalState
<1>6. KnowsAlone(l, m)
  BY <1>2, <1>5 DEF KnowsAlone, Read, BeforeWrite, AllHandlers
<1> QED BY <1>2, <1>3, <1>4, <1>6, AloneReads

LEMMA ListsAlone ==
  ASSUME TypeOK, SerialInv, Alone', NEW r \in Requests, ListItems(r)
  PROVE  SerialInv'
<1>1. /\ mem[r] \in LocalState /\ KnowsAlone(pc[r], mem[r])
  BY WhereAlone
<1>2. PICK W : W = [k \in Key |-> IF k \in Items THEN Due(k) ELSE 0]
  OBVIOUS
<1>3. W \in [Key -> Int] /\ \A k \in Items : W[k] = Wanted(k)
  BY <1>2 DEF Wanted, Due, TypeOK, Key
<1>4. PICK l, m : l = "ensure" /\ m = [mem[r] EXCEPT !.unread = {"money"}, !.want = W]
  OBVIOUS
<1>5. l \in Labels /\ m \in LocalState
  BY <1>1, <1>3, <1>4, LocalTypes DEF Labels
<1>6. /\ pc' = [pc EXCEPT ![r] = l] /\ mem' = [mem EXCEPT ![r] = m]
      /\ pc[r] = "list" /\ Same
  BY <1>2, <1>4 DEF ListItems, GotoWith, Goto, Same, book, money, party, ledger
<1>7. /\ m.lost = {} /\ m.unread = {"money"} /\ m.want = W
      /\ m.account = account /\ m.capital = capital
  BY <1>1, <1>4, <1>6 DEF KnowsAlone, LocalState
<1>8. \A k \in Key : Read(m, k)
  BY <1>3, <1>7 DEF Read
<1>9. KnowsAlone(l, m)
  BY <1>4, <1>7, <1>8 DEF KnowsAlone, BeforeWrite, AllHandlers
<1> QED BY <1>4, <1>5, <1>6, <1>9, AloneReads
LEMMA OpensAlone ==
  ASSUME TypeOK, SerialInv, Alone', NEW r \in Requests,
         EnsureUpdate(r) \/ EnsureCreate(r) \/ EnsureLink(r)
  PROVE  SerialInv'
<1>1. /\ mem[r] \in LocalState /\ KnowsAlone(pc[r], mem[r])
      /\ mem \in [Requests -> LocalState]
      /\ pc[r] # "idle" => \A q \in Requests \ {r} : pc[q] = "idle"
      /\ \A k \in Key : holder[k] \in {None, account}
  BY WhereAlone
<1>2. \A k : Wanted(k)' = Wanted(k)
  BY SameWanted DEF EnsureUpdate, EnsureCreate, EnsureLink, book, money
<1>3. UNCHANGED <<capital, holder>>
  BY DEF EnsureUpdate, EnsureCreate, EnsureLink, ledger
<1>4. CASE EnsureUpdate(r)
  <2>1. PICK l, m : l = "read" /\ m = mem[r]
    OBVIOUS
  <2>2. l \in Labels /\ m \in LocalState
    BY <1>1, <2>1 DEF Labels
  <2>3. /\ pc' = [pc EXCEPT ![r] = l] /\ mem' = [mem EXCEPT ![r] = m]
        /\ pc[r] = "ensure" /\ account' = account
    BY <1>1, <1>4, <2>1 DEF EnsureUpdate, Keep, Goto
  <2>4. m.account = account /\ m.capital = capital /\ m.lost = {} /\ \A k \in Key : Read(m, k)
    BY <1>1, <2>1, <2>3 DEF KnowsAlone
  <2>5. account # None /\ opening' = [opening EXCEPT ![account] = -capital]
    BY <1>4, <2>1, <2>4 DEF EnsureUpdate
  <2>6. Opened'
    BY <1>3, <2>3, <2>5 DEF Opened, TypeOK
  <2>7. (\A k \in Key : Read(m, k))'
    BY <1>2, <2>4 DEF Read
  <2>8. KnowsAlone(l, m)'
    BY <1>3, <2>1, <2>3, <2>4, <2>6, <2>7 DEF KnowsAlone, BeforeWrite, AllHandlers
  <2>9. \A k \in Key : holder'[k] \in {None, account'}
    BY <1>1, <1>3, <2>3
  <2> QED BY <2>1, <2>2, <2>3, <2>5, <2>8, <2>9, AloneMove
<1>5. CASE EnsureCreate(r)
  <2>1. PICK a \in Accounts :
          /\ opening' = [opening EXCEPT ![a] = -mem[r].capital]
          /\ GotoWith(r, "link", [mem[r] EXCEPT !.account = a])
    BY <1>5 DEF EnsureCreate
  <2>2. PICK l, m : l = "link" /\ m = [mem[r] EXCEPT !.account = a]
    OBVIOUS
  <2>3. l \in Labels /\ m \in LocalState
    BY <1>1, <2>2, LocalTypes DEF Labels
  <2>4. /\ pc' = [pc EXCEPT ![r] = l] /\ mem' = [mem EXCEPT ![r] = m]
        /\ pc[r] = "ensure" /\ account' = account
    BY <1>5, <2>1, <2>2 DEF EnsureCreate, GotoWith, Goto
  <2>5. account = None
    BY <1>1, <1>5, <2>4 DEF EnsureCreate, KnowsAlone
  <2>6. m.account = a /\ m.capital = capital /\ m.lost = {} /\ \A k \in Key : Read(m, k)
    <3>1. mem[r].capital = capital /\ mem[r].lost = {} /\ \A k \in Key : Read(mem[r], k)
      BY <1>1, <2>4 DEF KnowsAlone
    <3>2. /\ m.account = a /\ m.capital = mem[r].capital /\ m.lost = mem[r].lost
          /\ m.unread = mem[r].unread /\ m.want = mem[r].want
      BY <1>1, <2>2 DEF LocalState
    <3> QED BY <3>1, <3>2 DEF Read
  <2>7. opening'[a] = -capital
    <3>1. mem[r].capital = capital
      BY <1>1, <2>4 DEF KnowsAlone
    <3> QED BY <2>1, <3>1 DEF TypeOK
  <2>8. (\A k \in Key : Read(m, k))'
    BY <1>2, <2>6 DEF Read
  <2>9. KnowsAlone(l, m)'
    BY <1>3, <2>2, <2>4, <2>5, <2>6, <2>7, <2>8 DEF KnowsAlone, BeforeWrite, AllHandlers
  <2>10. \A k \in Key : holder'[k] \in {None, account'}
    BY <1>1, <1>3, <2>4
  <2> QED BY <2>2, <2>3, <2>4, <2>9, <2>10, AloneMove
<1>6. CASE EnsureLink(r)
  <2>1. PICK l, m : l = "read" /\ m = mem[r]
    OBVIOUS
  <2>2. l \in Labels /\ m \in LocalState
    BY <1>1, <2>1 DEF Labels
  <2>3. /\ pc' = [pc EXCEPT ![r] = l] /\ mem' = [mem EXCEPT ![r] = m]
        /\ pc[r] = "link" /\ account' = m.account /\ opening' = opening
    BY <1>1, <1>6, <2>1 DEF EnsureLink, Keep, Goto
  <2>4. /\ account = None /\ m.account \in Accounts /\ opening[m.account] = -m.capital
        /\ m.capital = capital /\ m.lost = {} /\ \A k \in Key : Read(m, k)
    BY <1>1, <2>1, <2>3 DEF KnowsAlone
  <2>5. Opened' /\ account' # None
    BY <1>3, <2>3, <2>4, SettlementAssumption DEF Opened
  <2>6. (\A k \in Key : Read(m, k))'
    BY <1>2, <2>4 DEF Read
  <2>7. KnowsAlone(l, m)'
    BY <1>3, <2>1, <2>3, <2>4, <2>5, <2>6 DEF KnowsAlone, BeforeWrite, AllHandlers
  <2>8. \A k \in Key : holder'[k] \in {None, account'}
    BY <1>1, <1>3, <2>4
  <2> QED BY <2>1, <2>2, <2>3, <2>5, <2>7, <2>8, AloneMove
<1> QED BY <1>4, <1>5, <1>6

LEMMA ReadsAlone ==
  ASSUME TypeOK, SerialInv, Alone', NEW r \in Requests, NEW s \in {"items", "money"}, ReadSource(r, s)
  PROVE  SerialInv'
<1>1. /\ mem[r] \in LocalState /\ KnowsAlone(pc[r], mem[r])
  BY WhereAlone
<1>2. PICK W : W = [k \in Key |->
                IF (s = "items") = (k \in Items) THEN Wanted(k) ELSE mem[r].want[k]]
  OBVIOUS
<1>3. W \in [Key -> Int]
  BY <1>1, <1>2, WantedType DEF LocalState
<1>4. PICK l, m : l = "read" /\ m = [mem[r] EXCEPT !.unread = @ \ {s}, !.want = W]
  OBVIOUS
<1>5. l \in Labels /\ m \in LocalState
  BY <1>1, <1>3, <1>4, LocalTypes DEF Labels
<1>6. /\ pc' = [pc EXCEPT ![r] = l] /\ mem' = [mem EXCEPT ![r] = m]
      /\ pc[r] = "read" /\ Same
  BY <1>2, <1>4 DEF ReadSource, GotoWith, Goto, Same, book, money, party, ledger
<1>7. /\ m.lost = mem[r].lost /\ m.unread = mem[r].unread \ {s} /\ m.want = W
      /\ m.account = mem[r].account /\ m.capital = mem[r].capital
  BY <1>1, <1>4 DEF LocalState
<1>8. \A k \in Key : Read(mem[r], k)
  BY <1>1, <1>6 DEF KnowsAlone
<1>9. ASSUME NEW k \in Key PROVE Read(m, k)
  <2>1. PICK t \in {"items", "money"} : t = IF k \in Items THEN "items" ELSE "money"
    OBVIOUS
  <2>2. CASE t = s
    <3>1. W[k] = Wanted(k)
      BY <1>2, <2>1, <2>2
    <3> QED BY <1>7, <3>1 DEF Read
  <2>3. CASE t # s
    <3>1. W[k] = mem[r].want[k]
      BY <1>2, <2>1, <2>3
    <3> QED BY <1>7, <1>8, <2>1, <2>3, <3>1 DEF Read
  <2> QED BY <2>2, <2>3
<1>10. KnowsAlone(l, m)
  BY <1>1, <1>4, <1>6, <1>7, <1>9 DEF KnowsAlone, BeforeWrite, AllHandlers
<1> QED BY <1>4, <1>5, <1>6, <1>10, AloneReads

LEMMA ComparesAlone ==
  ASSUME TypeOK, SerialInv, Alone', NEW r \in Requests, ReadExisting(r)
  PROVE  SerialInv'
<1>1. /\ mem[r] \in LocalState /\ KnowsAlone(pc[r], mem[r])
  BY WhereAlone
<1>2. PICK H : H = [k \in Key |-> IF holder[k] = mem[r].account THEN entry[k] ELSE None]
  OBVIOUS
<1>3. H \in [Key -> Int \cup {None}]
  BY <1>2 DEF TypeOK
<1>4. PICK l, m : l = "apply" /\ m = [mem[r] EXCEPT !.have = H]
  OBVIOUS
<1>5. l \in Labels /\ m \in LocalState
  BY <1>1, <1>3, <1>4, LocalTypes DEF Labels
<1>6. /\ pc' = [pc EXCEPT ![r] = l] /\ mem' = [mem EXCEPT ![r] = m]
      /\ pc[r] = "read" /\ mem[r].unread = {} /\ Same
  BY <1>2, <1>4 DEF ReadExisting, GotoWith, Goto, Same, book, money, party, ledger
<1>7. /\ m.lost = mem[r].lost /\ m.want = mem[r].want /\ m.have = H
      /\ m.account = mem[r].account /\ m.capital = mem[r].capital
  BY <1>1, <1>4 DEF LocalState
<1>8. mem[r].account = account /\ \A k \in Key : Read(mem[r], k)
  BY <1>1, <1>6 DEF KnowsAlone
<1>9. \A k \in Key : /\ m.want[k] = Wanted(k)
                     /\ m.have[k] = IF holder[k] = account THEN entry[k] ELSE None
  BY <1>2, <1>6, <1>7, <1>8 DEF Read
<1>10. KnowsAlone(l, m)
  BY <1>1, <1>4, <1>6, <1>7, <1>9 DEF KnowsAlone, BeforeWrite, AllHandlers
<1> QED BY <1>4, <1>5, <1>6, <1>10, AloneReads
\* A sync that read what is there can be applied.
LEMMA AppliesAlone ==
  ASSUME IInv, SerialInv, NEW r \in Requests, pc[r] = "apply"
  PROVE  /\ Applicable(r) /\ Opened
         /\ mem[r].account = account /\ mem[r].lost = {}
         /\ \A k \in Key : /\ k \in Missing(r) <=> Wanted(k) # 0 /\ holder[k] = None
                           /\ k \in Different(r) <=> /\ Wanted(k) # 0 /\ holder[k] = account
                                                     /\ entry[k] # Wanted(k)
                           /\ k \in Extra(r) <=> Wanted(k) = 0 /\ holder[k] = account
                           /\ mem[r].want[k] = Wanted(k)
<1>0. TypeOK
  BY DEF IInv
<1>1. KnowsAlone(pc[r], mem[r]) /\ \A k \in Key : holder[k] \in {None, account}
  BY <1>0, WhereAlone
<1>2. /\ mem[r].account = account /\ mem[r].lost = {} /\ Opened
      /\ \A k \in Key : /\ mem[r].want[k] = Wanted(k)
                        /\ mem[r].have[k] = IF holder[k] = account THEN entry[k] ELSE None
  BY <1>1 DEF KnowsAlone
<1>3. account # None /\ None \notin Int /\ \A k \in Key : entry[k] \in Int
  BY <1>0, <1>2, SettlementAssumption DEF Opened, TypeOK
<1>4. \A k \in Key : mem[r].have[k] = None <=> holder[k] = None
  BY <1>1, <1>2, <1>3
<1>5. ASSUME NEW k \in Key
      PROVE  /\ k \in Missing(r) <=> Wanted(k) # 0 /\ holder[k] = None
             /\ k \in Different(r) <=> Wanted(k) # 0 /\ holder[k] = account /\ entry[k] # Wanted(k)
             /\ k \in Extra(r) <=> Wanted(k) = 0 /\ holder[k] = account
  BY <1>1, <1>2, <1>3, <1>4 DEF Missing, Different, Extra
<1>6. Applicable(r)
  <2>1. \A k \in Key : Wanted(k) # 0 => k \in live
    BY DEF Wanted, Due, MoneyEffect
  <2>2. \A k \in Missing(r) : Creatable(k)
    BY <1>5, <2>1 DEF Creatable, Missing
  <2> QED BY <1>2, <2>2 DEF Applicable
<1> QED BY <1>2, <1>5, <1>6

LEMMA ApplyAlone ==
  ASSUME IInv, SerialInv, Alone', NEW r \in Requests, Apply(r)
  PROVE  SerialInv'
<1>0. TypeOK /\ pc[r] = "apply"
  BY DEF IInv, Apply
<1>1. /\ pc \in [Requests -> Labels] /\ mem \in [Requests -> LocalState]
      /\ \A q \in Requests \ {r} : pc[q] = "idle"
      /\ \A k \in Key : holder[k] \in {None, account}
  BY <1>0, WhereAlone
<1>2. /\ Opened /\ mem[r].account = account /\ mem[r].lost = {}
      /\ \A k \in Key : /\ k \in Missing(r) <=> Wanted(k) # 0 /\ holder[k] = None
                        /\ k \in Different(r) <=> /\ Wanted(k) # 0 /\ holder[k] = account
                                                  /\ entry[k] # Wanted(k)
                        /\ k \in Extra(r) <=> Wanted(k) = 0 /\ holder[k] = account
                        /\ mem[r].want[k] = Wanted(k)
  BY <1>0, AppliesAlone
<1>3. UNCHANGED <<live, effect, posting, frozen, account, capital, opening>>
  BY DEF Apply, book, money, party
<1>4. \A k : Wanted(k)' = Wanted(k)
  BY <1>3, SameWanted
<1>5. /\ holder' = [k \in Key |-> IF k \in Missing(r) THEN account
                                  ELSE IF k \in Extra(r) THEN None ELSE holder[k]]
      /\ entry' = [k \in Key |-> IF k \in Missing(r) \cup Different(r) THEN mem[r].want[k]
                                 ELSE IF k \in Extra(r) THEN 0 ELSE entry[k]]
  <2>1. Extra(r) \ mem[r].lost = Extra(r)
    BY <1>2
  <2> QED BY <1>2, <2>1 DEF Apply
<1>6. account # None
  BY <1>2 DEF Opened
<1>7. ASSUME NEW k \in Key
      PROVE  IF Wanted(k) # 0 THEN holder'[k] = account /\ entry'[k] = Wanted(k)
                              ELSE holder'[k] = None
  <2>1. CASE Wanted(k) # 0 /\ holder[k] = None
    BY <1>2, <1>5, <2>1
  <2>2. CASE Wanted(k) # 0 /\ holder[k] = account
    BY <1>2, <1>5, <1>6, <2>2
  <2>3. CASE Wanted(k) = 0
    BY <1>1, <1>2, <1>5, <1>6, <2>3
  <2> QED BY <1>1, <2>1, <2>2, <2>3
<1>8. Exact'
  BY <1>2, <1>3, <1>4, <1>7 DEF Exact, Opened
<1>9. \A k \in Key : holder'[k] \in {None, account'}
  BY <1>3, <1>7
<1>10. \A q \in Requests : pc'[q] = "idle"
  BY <1>1 DEF Apply, Goto
<1>11. mem' = [mem EXCEPT ![r] = Blank]
  <2>1. \A q \in Requests : mem'[q] = [mem EXCEPT ![r] = Blank][q]
    BY <1>10 DEF Apply, Losing
  <2>2. mem' = [q \in Requests |-> mem'[q]]
    BY DEF Apply, Losing
  <2> QED BY <1>1, <2>1, <2>2
<1>12. KnowsAlone("idle", Blank)'
  BY DEF KnowsAlone, Blank, BeforeWrite, AllHandlers
<1>13. PICK l, m : l = "idle" /\ m = Blank
  OBVIOUS
<1>14. l \in Labels /\ m \in LocalState /\ KnowsAlone(l, m)' /\ pc' = [pc EXCEPT ![r] = l]
  BY <1>12, <1>13, BlankType DEF Labels, Apply, Goto
<1>15. account' # None /\ pc[r] # "idle"
  BY <1>0, <1>3, <1>6
<1> QED BY <1>0, <1>8, <1>9, <1>11, <1>13, <1>14, <1>15, AloneMove

\* A lone request is refused before it has changed anything, if at all.
LEMMA RefusedAlone ==
  ASSUME IInv, SerialInv, Alone', NEW r \in Requests, Refuse(r)
  PROVE  SerialInv'
<1>0. TypeOK
  BY DEF IInv
<1>1. /\ KnowsAlone(pc[r], mem[r]) /\ mem[r] \in LocalState
      /\ pc[r] # "idle" => \A q \in Requests \ {r} : pc[q] = "idle"
  BY <1>0, WhereAlone
<1>2. pc[r] # "apply"
  BY AppliesAlone DEF Refuse, Refused
<1>3. ~(pc[r] = "ensure" /\ mem[r].account = None /\ \A a \in Accounts : opening[a] # None)
  <2>1. SUFFICES ASSUME pc[r] = "ensure", mem[r].account = None,
                        \A a \in Accounts : opening[a] # None
                 PROVE  FALSE
    OBVIOUS
  <2>2. account = None
    BY <1>1, <2>1 DEF KnowsAlone
  <2>3. \A q \in Requests : pc[q] # "link"
    BY <1>1, <2>1
  <2> QED BY <2>1, <2>2, <2>3, SettlementAssumption DEF SerialInv
<1>4. pc[r] \in BeforeWrite
  BY <1>2, <1>3 DEF Refuse, Refused, BeforeWrite, AllHandlers
<1>5. Exact /\ pc[r] # "idle" /\ pc[r] # "link"
  BY <1>1, <1>4 DEF KnowsAlone, BeforeWrite, AllHandlers
<1>6. PICK l, m : l = "idle" /\ m = Blank
  OBVIOUS
<1>7. /\ l \in Labels /\ m \in LocalState /\ Same
      /\ pc' = [pc EXCEPT ![r] = l] /\ mem' = [mem EXCEPT ![r] = m]
  BY <1>6, BlankType DEF Labels, Refuse, End, GotoWith, Goto, Same, book, money, party, ledger
<1>8. KnowsAlone(l, m)
  BY <1>6 DEF KnowsAlone, Blank, BeforeWrite, AllHandlers
<1> QED BY <1>0, <1>5, <1>7, <1>8, AloneReads

LEMMA SerialInit == Init => SerialInv
<1> SUFFICES ASSUME Init PROVE SerialInv
  OBVIOUS
<1>1. \A k \in Key : Wanted(k) = 0 /\ holder[k] = None
  BY DEF Init, Wanted, Due, MoneyEffect
<1>2. account # None => opening[account] = -capital
  BY DEF Init
<1>3. account = None => \A a \in Accounts : opening[a] = None
  BY SettlementAssumption DEF Init
<1>4. \A r \in Requests : pc[r] = "idle" /\ mem[r] = Blank
  BY DEF Init
<1>5. KnowsAlone("idle", Blank)
  BY DEF KnowsAlone, Blank, BeforeWrite, AllHandlers
<1> QED BY <1>1, <1>2, <1>3, <1>4, <1>5 DEF SerialInv, Alone, Exact

LEMMA SerialNext == IInv /\ SerialInv /\ [Next]_vars /\ Alone' /\ cuts' = 0 => SerialInv'
<1> SUFFICES ASSUME IInv, SerialInv, [Next]_vars, Alone', cuts' = 0 PROVE SerialInv'
  OBVIOUS
<1>0. TypeOK
  BY DEF IInv
<1>1. ASSUME NEW r \in Requests, NEW h \in AllHandlers, Begin(r, h) PROVE SerialInv'
  BY <1>0, <1>1, BeginAlone
<1>2. ASSUME NEW r \in Requests, Step(r) PROVE SerialInv'
  BY <1>0, <1>2, LooksAlone, ChangesAlone, DeletesAlone, UpdatesAlone, RereadsAlone,
     ListsAlone, OpensAlone, ReadsAlone, ComparesAlone, ApplyAlone, RefusedAlone
     DEF Step
<1>3. ASSUME NEW r \in Requests, CutOff(r) PROVE SerialInv'
  <2>1. cuts \in Nat /\ cuts' = cuts + 1
    BY <1>0, <1>3 DEF CutOff, TypeOK
  <2> QED BY <2>1
<1>4. ASSUME Same, UNCHANGED <<pc, mem>> PROVE SerialInv'
  <2>1. Exact' = Exact /\ \A l, m : KnowsAlone(l, m)' = KnowsAlone(l, m)
    BY <1>4, SameKnown
  <2>2. ASSUME NEW r \in Requests PROVE KnowsAlone(pc[r], mem[r])'
    <3>1. PICK l, m : l = pc[r] /\ m = mem[r]
      OBVIOUS
    <3>2. KnowsAlone(l, m)'
      BY <2>1, <3>1 DEF SerialInv
    <3>3. pc'[r] = l /\ mem'[r] = m
      BY <1>4, <3>1
    <3> QED BY <3>2, <3>3
  <2> QED BY <1>4, <2>1, <2>2 DEF SerialInv, Alone, Same
<1>5. ASSUME NEW i \in Items, NEW x \in Quantities, EditDocument(i, x) PROVE SerialInv'
  BY <1>4, <1>5 DEF EditDocument, Same, money, party, ledger
<1>6. CASE UNCHANGED vars
  BY <1>4, <1>6 DEF Same, vars, book, money, party, ledger
<1> QED BY <1>1, <1>2, <1>3, <1>5, <1>6 DEF Next
LEMMA CutsGrow == TypeOK /\ [Next]_vars => cuts' \in {cuts, cuts + 1} /\ (cuts' # cuts => cuts < MaxCuts)
BY DEF TypeOK, Next, vars, Begin, Step, AddItems, CheckUnposted, WriteRate, WriteRemove,
       PostList, PostNumber, PostWrite, FindPosting, WriteUnpost, AddCapitalMovement,
       AddPayment, CreateSource, FindMoney, WriteDelete, UpdatePartner, Reread, ListItems,
       EnsureUpdate, EnsureCreate, EnsureLink, ReadSource, ReadExisting, Apply, Refuse,
       CutOff, EditDocument

LEMMA SerialKept ==
  IInv /\ (cuts = 0 => SerialInv) /\ [Next]_vars /\ Alone' => (cuts' = 0 => SerialInv')
<1> SUFFICES ASSUME IInv, cuts = 0 => SerialInv, [Next]_vars, Alone', cuts' = 0
             PROVE  SerialInv'
  OBVIOUS
<1>1. cuts \in Nat /\ cuts' \in {cuts, cuts + 1}
  BY CutsGrow DEF IInv, TypeOK
<1>2. cuts = 0
  BY <1>1
<1> QED BY <1>2, SerialNext

\* Of requests that come one at a time and are not cut off: whatever handlers
\* are called, in whatever order, and whatever is edited in the documents, the
\* account shows exactly the settlement between them.
THEOREM ExactAlone == Spec /\ []Alone => [](cuts = 0 => ExactBetweenRequests)
<1> DEFINE J == cuts = 0 => SerialInv
<1>1. Init => J
  BY SerialInit
<1>2. IInv /\ J /\ [Next]_vars /\ Alone' => J'
  BY SerialKept
<1>3. J => (cuts = 0 => ExactBetweenRequests)
  BY DEF SerialInv, ExactBetweenRequests
<1> HIDE DEF J
<1> QED BY <1>1, <1>2, <1>3, Invariance, PTL DEF Spec

-----------------------------------------------------------------------------
(* The two slices of MCSettlementSlices.                                   *)

LEMMA PostingType == L!Init /\ account = a1 => TypeOK /\ Posting
<1> SUFFICES ASSUME L!Init, account = a1 PROVE TypeOK /\ Posting
  OBVIOUS
<1>1. -capital \in Int /\ None \notin Int
  BY SettlementAssumption DEF L!Init
<1>2. /\ account \in Accounts /\ opening = [b \in Accounts |-> IF b = account THEN -capital ELSE None]
      /\ capital \in Capitals
  BY DEF L!Init
<1>3. opening \in [Accounts -> Int \cup {None}] /\ Posting
  BY <1>1, <1>2 DEF Posting
<1>4. mem = [r \in Requests |-> Blank]
  BY DEF L!Init, L!Blank, Blank, L!Key, Key
<1>5. mem \in [Requests -> LocalState]
  BY <1>4, BlankType
<1> QED BY <1>2, <1>3, <1>5 DEF L!Init, L!Key, TypeOK, Labels, Key

LEMMA PostingStays == TypeOK /\ Posting /\ [Next]_vars => Posting'
<1> SUFFICES ASSUME TypeOK, Posting, [Next]_vars PROVE Posting'
  OBVIOUS
<1>1. ASSUME NEW r \in Requests, EnsureUpdate(r) \/ EnsureCreate(r) PROVE Posting'
  <2>1. mem[r] \in LocalState
    BY DEF TypeOK
  <2>2. mem[r].capital \in Int
    <3>1. Capitals \cup {0} \subseteq Int
      BY SettlementAssumption
    <3> QED BY <2>1, <3>1 DEF LocalState
  <2>3. -mem[r].capital # None
    BY <2>2, SettlementAssumption
  <2>4. \E a : opening' = [opening EXCEPT ![a] = -mem[r].capital]
    BY <1>1 DEF EnsureUpdate, EnsureCreate
  <2> QED BY <2>3, <2>4, SliceAssumption DEF Posting, TypeOK
<1>2. ASSUME opening' = opening PROVE Posting'
  BY <1>2 DEF Posting
<1> QED
  BY <1>1, <1>2
  DEF Next, vars, Begin, Step, AddItems, CheckUnposted, WriteRate, WriteRemove,
      PostList, PostNumber, PostWrite, FindPosting, WriteUnpost, AddCapitalMovement,
      AddPayment, CreateSource, FindMoney, WriteDelete, UpdatePartner, Reread, ListItems,
      EnsureLink, ReadSource, ReadExisting, Apply, Refuse, CutOff, EditDocument, party

\* A step moves one request.
LEMMA OneMoves ==
  ASSUME TypeOK, [Next]_vars
  PROVE  pc' = pc \/ \E r \in Requests : \A q \in Requests \ {r} : pc'[q] = pc[q]
<1>1. ASSUME NEW r \in Requests, Step(r) \/ CutOff(r) \/ \E h \in AllHandlers : Begin(r, h)
      PROVE  \A q \in Requests \ {r} : pc'[q] = pc[q]
  BY <1>1 DEF TypeOK, Step, Begin, AddItems, CheckUnposted, WriteRate, WriteRemove, DeleteSource,
        PostList, PostNumber, PostWrite, FindPosting, WriteUnpost, AddCapitalMovement,
        AddPayment, CreateSource, FindMoney, WriteDelete, UpdatePartner, Reread, ListItems,
        EnsureUpdate, EnsureCreate, EnsureLink, ReadSource, ReadExisting, Apply, Refuse,
        CutOff, End, Keep, Sync, GotoWith, Goto
<1> QED BY <1>1 DEF Next, vars, EditDocument

\* The run counts the requests under way: one at most means one at a time.
LEMMA CountedAlone ==
  ASSUME TypeOK, Alone, [Next]_vars, Cardinality(Busy(pc')) <= 1
  PROVE  Alone'
<1>1. SUFFICES ASSUME NEW p \in Requests, NEW q \in Requests,
                      pc'[p] # "idle", pc'[q] # "idle", p # q
               PROVE  FALSE
  BY DEF Alone
<1>2. PICK B : B = Busy(pc')
  OBVIOUS
<1>3. \E x, y : B \subseteq {x, y}
  <2>1. \A t, u \in Requests : pc[t] # "idle" /\ pc[u] # "idle" => t = u
    BY DEF Alone
  <2>2. \E x : \A u \in Requests : pc[u] # "idle" => u = x
    BY <2>1
  <2> QED BY <1>2, <2>2, OneMoves DEF Busy
<1>4. IsFiniteSet(B)
  <2>1. PICK x, y : B \subseteq {x, y}
    BY <1>3
  <2>2. IsFiniteSet({x, y})
    <3>1. IsFiniteSet({x}) /\ {x, y} = {x} \cup {y}
      BY FS_Singleton
    <3> QED BY <3>1, FS_AddElement
  <2> QED BY <2>1, <2>2, FS_Subset
<1>5. {p, q} \subseteq B
  BY <1>1, <1>2 DEF Busy
<1>6. Cardinality({p, q}) <= Cardinality(B)
  BY <1>4, <1>5, FS_Subset
<1>7. Cardinality({p, q}) = 2
  <2>1. IsFiniteSet({}) /\ Cardinality({}) = 0
    BY FS_EmptySet
  <2>2. IsFiniteSet({p}) /\ Cardinality({p}) = 1
    BY <2>1, FS_Singleton
  <2>3. {p, q} = {p} \cup {q} /\ q \notin {p}
    BY <1>1
  <2> QED BY <2>2, <2>3, FS_AddElement
<1>8. Cardinality(B) \in Nat
  BY <1>4, FS_CardinalityType
<1> QED BY <1>2, <1>6, <1>7, <1>8

\* Where no request is cut off, the slice of the run that has its requests one
\* at a time finds the account exact between them.
THEOREM ExactInSlice ==
  ASSUME MaxCuts = 0 PROVE SliceSpec /\ [][InSlice]_vars => []ExactWhenSerial
<1> DEFINE K == TypeOK /\ (Posting \/ (IInv /\ SerialInv /\ cuts = 0))
<1>1. SliceInit => K
  <2>1. L!Init /\ account = a1 => K
    BY PostingType
  <2>2. Init => cuts = 0
    BY DEF Init
  <2>3. Init => K
    BY <2>2, InitInv, InitType, SerialInit
  <2> QED BY <2>1, <2>3 DEF SliceInit
<1>2. K /\ [Next]_vars /\ [InSlice]_vars => K'
  <2> SUFFICES ASSUME K, [Next]_vars, [InSlice]_vars PROVE K'
    OBVIOUS
  <2>1. TypeOK'
    BY NextType
  <2>2. CASE Posting
    <3>1. TypeOK /\ Posting'
      BY <2>2, PostingStays
    <3> QED BY <2>1, <3>1
  <2>3. CASE ~Posting /\ UNCHANGED vars
    <3>1. IInv' /\ cuts' = cuts /\ pc' = pc
      BY <2>3, NextInv DEF vars
    <3>2. Alone'
      BY <2>3, <3>1 DEF SerialInv, Alone
    <3> QED BY <2>1, <2>3, <3>1, <3>2, SerialNext
  <2>4. CASE ~Posting /\ InSlice
    <3>1. IInv' /\ cuts' = 0
      BY <2>4, NextInv, CutsGrow DEF TypeOK
    <3>2. Alone'
      BY <2>4, CountedAlone DEF SerialInv, InSlice, InSerial
    <3> QED BY <2>1, <2>4, <3>1, <3>2, SerialNext
  <2> QED BY <2>2, <2>3, <2>4
<1>3. K => ExactWhenSerial
  BY DEF SerialInv, ExactWhenSerial, ExactBetweenRequests
<1> HIDE DEF K
<1> QED BY <1>1, <1>2, <1>3, PTL DEF SliceSpec

=============================================================================
