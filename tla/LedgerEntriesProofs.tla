-------------------------- MODULE LedgerEntriesProofs --------------------------
(***************************************************************************)
(* Facts about the money log for any rows, groups, parties, amounts and    *)
(* requests: a transfer between parties keeps both legs as long as         *)
(* creations are not undone, a transfer between treasuries keeps its rate, *)
(* and, when requests do not overlap, both sides of every entry agree and  *)
(* a collection is resolved once.                                          *)
(*                                                                         *)
(* The first two rest on what never changes in a row while it exists       *)
(* (Evolves): the side and the group of a leg, the rate of a transfer.     *)
(* What a request has read may be old, but of these it is still right      *)
(* (Knows).  The others add what a lone request knows (KnowsAlone), and    *)
(* which side of an entry it has still to write (FeesDue, Ahead).          *)
(***************************************************************************)
EXTENDS LedgerEntries, TLAPS

\* What a request holds between its statements: a row of the table, what it
\* read of it, a date for the other leg; no handler runs that is not called.
Prepared(r) ==
    /\ pc[r] \in {"update", "own", "others", "sync", "resolve", "fee", "undo", "unlog"} =>
            mem[r].row \in Rows
    /\ pc[r] \in {"update", "resolve", "fee"} => mem[r].old \in TransactionRow
    /\ pc[r] \in {"others", "sync"} => mem[r].date \in Dates
    /\ pc[r] = "undo" => "undo" \in Handlers

AllPrepared == \A r \in Requests : Prepared(r)

Debits(o)  == o.debit > 0 /\ o.credit = 0
Credits(o) == o.debit = 0 /\ o.credit > 0
SameSide(o, n) == (Debits(o) /\ Debits(n)) \/ (Credits(o) /\ Credits(n))

Exchanged(t) == Exists(t) /\ tx[t].kind = "treasuryTransfer"
GoodExchange(o) ==
    /\ o.debit = 0 /\ o.credit = 0 /\ o.cashIn = 0
    /\ o.cashOut > 0 /\ o.rate > 0
    /\ o.cashIn2 = o.rate * o.cashOut

\* Of what a request has read, the part that is still right when it writes.
Knows(r) ==
    LET m == mem[r] IN
    /\ pc[r] = "update" =>
        /\ m.row \in used
        /\ Paired(m.row) => SameSide(m.old, tx[m.row])
        /\ Exchanged(m.row) => GoodExchange(m.old) /\ m.old.rate = tx[m.row].rate
    /\ pc[r] \in {"resolve", "fee"} =>
        \A u \in m.legs \cup {m.row} : u \in used /\ ~Paired(u) /\ ~Exchanged(u)
    /\ pc[r] \in {"others", "sync"} => m.amount > 0
    /\ pc[r] = "sync" =>
        /\ \A u \in m.debits : u \in used /\ ~Exchanged(u) /\ (Paired(u) => Debits(tx[u]))
        /\ \A u \in m.credits : u \in used /\ ~Exchanged(u) /\ (Paired(u) => Credits(tx[u]))
    /\ pc[r] = "remove" =>
        \A t \in m.legs :
            /\ t \in used
            /\ \A u \in Rows : Paired(t) /\ Paired(u) /\ tx[u].group = tx[t].group => u \in m.legs

RowsUsed == \A t \in Rows : Exists(t) => t \in used
PairsSided ==
    \A t \in Rows : Paired(t) => tx[t].group \in issued /\ (Debits(tx[t]) \/ Credits(tx[t]))
GoodExchanges == \A t \in Rows : Exchanged(t) => GoodExchange(tx[t])
NonePending == \A t \in Rows : Paired(t) \/ Exchanged(t) => ~tx[t].pending
AllKnow == \A r \in Requests : Knows(r)

IInv == TypeOK /\ AllPrepared /\ RowsUsed /\ PairsSided /\ GoodExchanges /\ NonePending /\ AllKnow

\* What no step changes in a row that exists, and where new rows come from.
Evolves ==
    /\ used \subseteq used' /\ issued \subseteq issued'
    /\ \A t \in Rows : Paired(t)' =>
        \/ t \in used /\ Paired(t) /\ tx'[t].group = tx[t].group /\ SameSide(tx[t], tx'[t])
        \/ /\ t \notin used /\ t \in used'
           /\ tx'[t].group \in issued' \ issued /\ (Debits(tx'[t]) \/ Credits(tx'[t]))
    /\ \A t \in Rows : Exchanged(t)' =>
        \/ t \in used /\ Exchanged(t) /\ tx'[t].rate = tx[t].rate
        \/ t \notin used /\ t \in used'

-----------------------------------------------------------------------------
(* Types.                                                                  *)

LEMMA Dividing ==
  ASSUME NEW a \in Nat, NEW x \in Nat, NEW b \in Nat, b > 0
  PROVE  (a * x) \div b \in Nat
<1>1. a * x \in Nat
  OBVIOUS
<1>2. \A n \in Nat : n \div b \in Nat
  OBVIOUS
<1> QED BY <1>1, <1>2

LEMMA ScaledType ==
  ASSUME NEW x \in Nat, NEW a \in Nat, NEW b \in Nat
  PROVE  Scaled(x, a, b) \in Nat
BY Dividing DEF Scaled

LEMMA AmountsAreNat == Amounts \subseteq Nat /\ \A a \in Amounts : a > 0
BY LedgerAssumption

LEMMA BlankType == Blank \in LocalState
BY DEF Blank, LocalState

LEMMA RowType ==
  ASSUME NEW kind \in {"collect", "fee", "expense", "partyExpense", "partyTransfer",
                       "treasuryTransfer", "unknown"},
         NEW g \in Groups \cup {None}, NEW p \in Parties \cup {None}, NEW d \in Dates
  PROVE  Row(kind, g, p, d) \in TransactionRow
BY DEF Row, TransactionRow

LEMMA AmountType ==
  ASSUME NEW row \in TransactionRow, NEW o \in TransactionRow, NEW a \in Nat
  PROVE  WithAmount(row, o, a) \in TransactionRow
<1> DEFINE cin == Scaled(o.cashIn, a, o.credit)
           cout == Scaled(o.cashOut, a, o.debit)
           cin2 == SecondLeg(o, a)
<1>1. o.cashIn \in Nat /\ o.credit \in Nat /\ o.cashOut \in Nat /\ o.debit \in Nat
      /\ o.cashIn2 \in Nat
  BY DEF TransactionRow
<1>2. cin \in Nat /\ cout \in Nat
  BY <1>1, ScaledType
<1>3. Base(o) \in Nat
  BY <1>1 DEF Base
<1>4. cin2 \in Nat
  BY <1>1, <1>3, ScaledType DEF SecondLeg
<1> HIDE DEF cin, cout, cin2
<1>5. WithAmount(row, o, a) =
        [row EXCEPT
            !.debit   = IF o.debit > 0 THEN a ELSE @,
            !.credit  = IF o.credit > 0 THEN a ELSE @,
            !.cashIn  = IF o.cashIn > 0 THEN cin ELSE @,
            !.cashOut = IF o.cashOut > 0 THEN cout ELSE @,
            !.cashIn2 = IF o.cashIn2 > 0 THEN cin2 ELSE @]
  BY DEF WithAmount, cin, cout, cin2
<1> QED BY <1>2, <1>4, <1>5 DEF TransactionRow

LEMMA EditsType ==
  ASSUME NEW row \in TransactionRow, NEW o \in TransactionRow, NEW e \in Edits(row, o)
  PROVE  e \in TransactionRow
<1>1. \A a \in Amounts : WithAmount(row, o, a) \in TransactionRow
  BY AmountType, AmountsAreNat
<1>2. \A w \in TransactionRow, d \in Dates : [w EXCEPT !.date = d] \in TransactionRow
  BY DEF TransactionRow
<1> QED BY <1>1, <1>2 DEF Edits

\* What a step may write into the locals of a request.
LEMMA LocalTypes ==
  ASSUME NEW m \in LocalState
  PROVE  /\ \A t \in Rows, o \in TransactionRow, p \in Parties \cup {None} :
                [Blank EXCEPT !.row = t, !.old = o, !.party = p] \in LocalState
         /\ \A f \in Nat, S \in SUBSET Rows, g \in Groups :
                [m EXCEPT !.amount = f, !.legs = S, !.group = g] \in LocalState
         /\ \A n \in Nat, d \in Dates, g \in Groups \cup {None} :
                [m EXCEPT !.amount = n, !.date = d, !.group = g] \in LocalState
         /\ \A D, C \in SUBSET Rows :
                [m EXCEPT !.debits = D, !.credits = C] \in LocalState
<1>1. \A t \in Rows, o \in TransactionRow, p \in Parties \cup {None} :
         [Blank EXCEPT !.row = t, !.old = o, !.party = p] \in LocalState
  BY DEF Blank, LocalState
<1>2. \A f \in Nat, S \in SUBSET Rows, g \in Groups :
         [m EXCEPT !.amount = f, !.legs = S, !.group = g] \in LocalState
  BY DEF LocalState
<1>3. \A n \in Nat, d \in Dates, g \in Groups \cup {None} :
         [m EXCEPT !.amount = n, !.date = d, !.group = g] \in LocalState
  BY DEF LocalState
<1>4. \A D, C \in SUBSET Rows : [m EXCEPT !.debits = D, !.credits = C] \in LocalState
  BY DEF LocalState
<1> QED BY <1>1, <1>2, <1>3, <1>4

LEMMA BeginTypes ==
  ASSUME NEW t \in Rows, NEW o \in TransactionRow
  PROVE  /\ [Blank EXCEPT !.row = t, !.old = o] \in LocalState
         /\ [Blank EXCEPT !.row = t] \in LocalState
         /\ \A S \in SUBSET Rows : [Blank EXCEPT !.legs = S] \in LocalState
BY DEF Blank, LocalState

THEOREM InitType == Init => TypeOK
BY BlankType DEF Init, TypeOK

\* a row that is written where there may have been none
LEMMA PutType ==
  ASSUME TypeOK, NEW t \in Rows, NEW row \in TransactionRow
  PROVE  [tx EXCEPT ![t] = row] \in [Rows -> TransactionRow \cup {None}]
BY DEF TypeOK

LEMMA PostOneType ==
  ASSUME TypeOK, NEW kind, NEW row \in TransactionRow, PostOne(kind, row)
  PROVE  TypeOK'
<1>1. PICK t \in Rows \ used : /\ tx' = [tx EXCEPT ![t] = row]
                               /\ used' = used \cup {t}
                               /\ log' = log \cup {t}
  BY DEF PostOne
<1>2. tx' \in [Rows -> TransactionRow \cup {None}]
  BY <1>1, PutType
<1> QED BY <1>1, <1>2 DEF TypeOK, PostOne

LEMMA PostTwoType ==
  ASSUME TypeOK, NEW kind, NEW g \in Groups,
         NEW first \in TransactionRow, NEW second \in TransactionRow,
         PostTwo(kind, g, first, second)
  PROVE  TypeOK'
<1>1. PICK t, u \in Rows \ used : /\ tx' = [tx EXCEPT ![t] = first, ![u] = second]
                                  /\ used' = used \cup {t, u}
                                  /\ log' = log \cup {t}
  BY DEF PostTwo
<1>2. tx' \in [Rows -> TransactionRow \cup {None}]
  BY <1>1 DEF TypeOK
<1> QED BY <1>1, <1>2 DEF TypeOK, PostTwo

LEMMA PostType == TypeOK /\ Post => TypeOK'
<1> SUFFICES ASSUME TypeOK, Post PROVE TypeOK'
  OBVIOUS
<1>0. Amounts \subseteq Nat /\ Rates \subseteq Nat
  BY LedgerAssumption
<1>1. ASSUME NEW d \in Dates, NEW a \in Amounts, NEW p \in Parties, Collect(p, a, d)
      PROVE  TypeOK'
  <2>1. [Row("collect", None, p, d) EXCEPT !.credit = a, !.cashIn = a] \in TransactionRow
    BY <1>0 DEF Row, TransactionRow
  <2> QED BY <1>1, <2>1, PostOneType DEF Collect
<1>2. ASSUME NEW d \in Dates, NEW a \in Amounts, NEW g \in Groups, NEW p \in Parties,
             NEW f \in Amounts, CollectWithFee(g, p, a, f, d)
      PROVE  TypeOK'
  <2>1. /\ [Row("collect", g, p, d) EXCEPT !.credit = a, !.cashIn = a] \in TransactionRow
        /\ [Row("fee", g, p, d) EXCEPT !.debit = f] \in TransactionRow
    BY <1>0 DEF Row, TransactionRow
  <2> QED BY <1>2, <2>1, PostTwoType DEF CollectWithFee
<1>3. ASSUME NEW d \in Dates, NEW a \in Amounts, NEW g \in Groups, NEW p \in Parties,
             ExpenseOnParty(g, p, a, d)
      PROVE  TypeOK'
  <2>1. /\ [Row("expense", g, None, d) EXCEPT !.cashOut = a] \in TransactionRow
        /\ [Row("partyExpense", g, p, d) EXCEPT !.debit = a] \in TransactionRow
    BY <1>0 DEF Row, TransactionRow
  <2> QED BY <1>3, <2>1, PostTwoType DEF ExpenseOnParty
<1>4. ASSUME NEW d \in Dates, NEW a \in Amounts, NEW g \in Groups, NEW p \in Parties,
             NEW q \in Parties, PartyTransfer(g, p, q, a, d)
      PROVE  TypeOK'
  <2>1. /\ [Row("partyTransfer", g, p, d) EXCEPT !.credit = a] \in TransactionRow
        /\ [Row("partyTransfer", g, q, d) EXCEPT !.debit = a] \in TransactionRow
    BY <1>0 DEF Row, TransactionRow
  <2> QED BY <1>4, <2>1, PostTwoType DEF PartyTransfer
<1>5. ASSUME NEW d \in Dates, NEW a \in Amounts, NEW x \in Rates, TreasuryTransfer(a, x, d)
      PROVE  TypeOK'
  <2>1. a * x \in Nat
    BY <1>0
  <2>2. [Row("treasuryTransfer", None, None, d) EXCEPT
            !.cashOut = a, !.cashIn2 = a * x, !.rate = x] \in TransactionRow
    BY <1>0, <2>1 DEF Row, TransactionRow
  <2> QED BY <1>5, <2>2, PostOneType DEF TreasuryTransfer
<1>6. ASSUME NEW d \in Dates, NEW a \in Amounts, UnknownCollect(a, d) PROVE TypeOK'
  <2>1. [Row("unknown", None, None, d) EXCEPT !.cashIn = a, !.pending = TRUE] \in TransactionRow
    BY <1>0 DEF Row, TransactionRow
  <2> QED BY <1>6, <2>1, PostOneType DEF UnknownCollect
<1> QED BY <1>1, <1>2, <1>3, <1>4, <1>5, <1>6 DEF Post

LEMMA BeginType ==
  ASSUME TypeOK, NEW r \in Requests, Begin(r)
  PROVE  TypeOK'
<1>0. \A t \in Rows : Exists(t) => tx[t] \in TransactionRow
  BY DEF TypeOK, Exists
<1>1. ASSUME NEW h \in {"update", "remove", "undo"}, NEW m \in LocalState, Start(r, h, m)
      PROVE  TypeOK'
  BY <1>1 DEF TypeOK, Start, Goto, Remember
<1>2. ASSUME NEW t \in Rows, BeginUpdate(r, t) PROVE TypeOK'
  <2>1. [Blank EXCEPT !.row = t, !.old = tx[t]] \in LocalState
    BY <1>0, <1>2, BeginTypes DEF BeginUpdate
  <2> QED BY <1>1, <1>2, <2>1 DEF BeginUpdate
<1>3. ASSUME NEW t \in Rows, BeginRemove(r, t) PROVE TypeOK'
  <2>1. Family(t) \subseteq Rows
    BY DEF Family
  <2>2. [Blank EXCEPT !.legs = Family(t)] \in LocalState
    BY <2>1 DEF Blank, LocalState
  <2> QED BY <1>1, <1>3, <2>2 DEF BeginRemove
<1>4. ASSUME NEW t \in Rows, BeginUndo(r, t) PROVE TypeOK'
  <2>1. [Blank EXCEPT !.row = t] \in LocalState
    BY DEF Blank, LocalState
  <2> QED BY <1>1, <1>4, <2>1 DEF BeginUndo
<1>5. ASSUME NEW t \in Rows, NEW p \in Parties, BeginResolve(r, t, p) PROVE TypeOK'
  <2> DEFINE m == [Blank EXCEPT !.row = t, !.old = tx[t], !.party = p]
  <2>1. m \in LocalState
    BY <1>0, <1>5, BlankType, LocalTypes DEF BeginResolve, Resolvable
  <2>2. \A f \in Amounts, u \in Rows, g \in Groups :
           [m EXCEPT !.amount = f, !.legs = {u}, !.group = g] \in LocalState
    BY <2>1, LocalTypes, AmountsAreNat
  <2> HIDE DEF m
  <2>3. /\ \/ Remember(r, m) /\ UNCHANGED <<used, issued>>
           \/ \E f \in Amounts, u \in Rows \ used, g \in Groups \ issued :
                 /\ Remember(r, [m EXCEPT !.amount = f, !.legs = {u}, !.group = g])
                 /\ used' = used \cup {u}
                 /\ issued' = issued \cup {g}
        /\ Goto(r, "resolve") /\ UNCHANGED <<tx, log>>
    BY <1>5 DEF BeginResolve, m
  <2>4. mem' \in [Requests -> LocalState]
    <3>1. \E x \in LocalState : mem' = [mem EXCEPT ![r] = x]
      <4>1. CASE Remember(r, m)
        BY <2>1, <4>1 DEF Remember
      <4>2. CASE \E f \in Amounts, u \in Rows \ used, g \in Groups \ issued :
                    Remember(r, [m EXCEPT !.amount = f, !.legs = {u}, !.group = g])
        <5>1. PICK f \in Amounts, u \in Rows, g \in Groups :
                 Remember(r, [m EXCEPT !.amount = f, !.legs = {u}, !.group = g])
          BY <4>2
        <5> QED BY <2>2, <5>1 DEF Remember
      <4> QED BY <2>3, <4>1, <4>2
    <3> QED BY <3>1 DEF TypeOK
  <2>5. used' \subseteq Rows /\ issued' \subseteq Groups
    BY <2>3 DEF TypeOK
  <2> QED BY <2>3, <2>4, <2>5 DEF TypeOK, Goto
<1>6. ASSUME NEW t \in Rows, NotFound(r, t) PROVE TypeOK'
  BY <1>6 DEF TypeOK, NotFound, vars
<1> QED BY <1>2, <1>3, <1>4, <1>5, <1>6 DEF Begin

LEMMA StepType ==
  ASSUME TypeOK, NEW r \in Requests, Prepared(r), Step(r) \/ CutOff(r)
  PROVE  TypeOK'
<1>0. /\ mem[r] \in LocalState
      /\ \A t \in Rows : Exists(t) => tx[t] \in TransactionRow
  BY DEF TypeOK, Exists
<1>a. [mem EXCEPT ![r] = Blank] \in [Requests -> LocalState]
  BY BlankType DEF TypeOK
<1>1. CASE WriteUpdate(r)
  <2>1. PICK row \in Edits(tx[mem[r].row], mem[r].old) : tx' = [tx EXCEPT ![mem[r].row] = row]
    BY <1>1 DEF WriteUpdate
  <2>2. mem[r].row \in Rows /\ mem[r].old \in TransactionRow /\ tx[mem[r].row] \in TransactionRow
    BY <1>0, <1>1 DEF Prepared, WriteUpdate
  <2>3. row \in TransactionRow
    BY <2>1, <2>2, EditsType
  <2>4. tx' \in [Rows -> TransactionRow \cup {None}]
    BY <2>1, <2>2, <2>3, PutType
  <2> QED BY <1>1, <2>4 DEF TypeOK, WriteUpdate, Goto
<1>2. CASE ReadOwn(r)
  <2> DEFINE t == mem[r].row
             n == IF tx[t].debit > 0 THEN tx[t].debit ELSE tx[t].credit
  <2>1. CASE Paired(t)
    <3>1. t \in Rows /\ tx[t] \in TransactionRow
      BY <1>0, <1>2, <2>1 DEF Prepared, ReadOwn, Paired
    <3>2. n \in Nat /\ tx[t].date \in Dates /\ tx[t].group \in Groups \cup {None}
      BY <3>1 DEF TransactionRow
    <3> HIDE DEF n
    <3>3. [mem[r] EXCEPT !.amount = n, !.date = tx[t].date, !.group = tx[t].group] \in LocalState
      BY <1>0, <3>2, LocalTypes
    <3>4. Remember(r, [mem[r] EXCEPT !.amount = n, !.date = tx[t].date, !.group = tx[t].group])
          /\ Goto(r, "others")
      BY <1>2, <2>1 DEF ReadOwn, n
    <3> QED BY <1>2, <3>3, <3>4 DEF TypeOK, ReadOwn, Goto, Remember
  <2>2. CASE ~Paired(t)
    BY <1>2, <1>a, <2>2 DEF TypeOK, ReadOwn, End, Goto, Remember
  <2> QED BY <2>1, <2>2
<1>3. CASE ReadOthers(r)
  <2> DEFINE D == {u \in OtherLegs(r) : tx[u].debit > 0}
             C == {u \in OtherLegs(r) : tx[u].debit = 0}
  <2>1. D \in SUBSET Rows /\ C \in SUBSET Rows
    BY DEF OtherLegs
  <2> HIDE DEF D, C
  <2>2. [mem[r] EXCEPT !.debits = D, !.credits = C] \in LocalState
    BY <1>0, <2>1, LocalTypes
  <2>3. Remember(r, [mem[r] EXCEPT !.debits = D, !.credits = C]) /\ Goto(r, "sync")
    BY <1>3 DEF ReadOthers, D, C
  <2> QED BY <1>3, <2>2, <2>3 DEF TypeOK, ReadOthers, Goto, Remember
<1>4. CASE WriteOthers(r)
  <2> DEFINE m == mem[r]
  <2>1. m.date \in Dates /\ m.amount \in Nat /\ m.debits \subseteq Rows /\ m.credits \subseteq Rows
    BY <1>0, <1>4 DEF Prepared, WriteOthers, LocalState
  <2>2. \A row \in TransactionRow :
           /\ [row EXCEPT !.date = m.date, !.debit = m.amount] \in TransactionRow
           /\ [row EXCEPT !.date = m.date, !.credit = m.amount] \in TransactionRow
    BY <2>1 DEF TransactionRow
  <2>3. \A u \in m.debits \cup m.credits : tx[u] \in TransactionRow
    BY <1>0, <1>4, <2>1 DEF WriteOthers
  <2>4. tx' \in [Rows -> TransactionRow \cup {None}]
    BY <1>4, <2>2, <2>3 DEF WriteOthers, TypeOK
  <2> QED BY <1>4, <1>a, <2>4 DEF TypeOK, WriteOthers, End, Goto, Remember
<1>5. CASE WriteResolve(r)
  <2> DEFINE m == mem[r]
  <2>1. /\ m.row \in Rows /\ tx[m.row] \in TransactionRow /\ m.old.cashIn \in Nat
        /\ m.party \in Parties \cup {None} /\ m.group \in Groups \cup {None}
    BY <1>0, <1>5 DEF Prepared, WriteResolve, LocalState, TransactionRow
  <2>2. \A row \in TransactionRow : Resolved(row, m) \in TransactionRow
    <3>1. ASSUME NEW row \in TransactionRow PROVE Resolved(row, m) \in TransactionRow
      <4> DEFINE g == IF m.amount > 0 THEN m.group ELSE row.group
                 c == m.old.cashIn
                 p == m.party
      <4>1. g \in Groups \cup {None} /\ c \in Nat /\ p \in Parties \cup {None}
        BY <2>1 DEF TransactionRow
      <4>2. Resolved(row, m) = [row EXCEPT !.party = p, !.credit = c, !.kind = "collect",
                                           !.pending = FALSE, !.group = g]
        BY DEF Resolved
      <4> HIDE DEF g, c, p
      <4> QED BY <4>1, <4>2 DEF TransactionRow
    <3> QED BY <3>1
  <2>3. tx' \in [Rows -> TransactionRow \cup {None}]
    BY <1>5, <2>1, <2>2, PutType DEF WriteResolve
  <2>4. mem' \in [Requests -> LocalState]
    BY <1>5, <1>a DEF WriteResolve, End, Remember, TypeOK
  <2>5. pc' \in [Requests -> {"idle", "update", "own", "others", "sync", "resolve", "fee",
                              "remove", "undo", "unlog"}]
    BY <1>5 DEF WriteResolve, End, Goto, TypeOK
  <2> QED BY <1>5, <2>3, <2>4, <2>5 DEF TypeOK, WriteResolve
<1>6. CASE CreateFee(r)
  <2> DEFINE m == mem[r]
             fee == [Row("fee", FeeGroup(m), m.party, m.old.date) EXCEPT !.debit = m.amount]
  <2>1. /\ m.old.date \in Dates /\ m.amount \in Nat
        /\ m.party \in Parties \cup {None} /\ m.group \in Groups \cup {None}
    BY <1>0, <1>6 DEF Prepared, CreateFee, LocalState, TransactionRow
  <2>2. fee \in TransactionRow
    BY <2>1 DEF FeeGroup, Row, TransactionRow
  <2> HIDE DEF fee
  <2>3. tx' = [t \in Rows |-> IF t \in m.legs THEN fee ELSE tx[t]]
    BY <1>6 DEF CreateFee, fee
  <2>4. tx' \in [Rows -> TransactionRow \cup {None}]
    BY <2>2, <2>3 DEF TypeOK
  <2> QED BY <1>6, <1>a, <2>4 DEF TypeOK, CreateFee, End, Goto, Remember
<1>7. CASE WriteRemove(r)
  BY <1>7, <1>a DEF TypeOK, WriteRemove, Without, End, Goto, Remember
<1>8. CASE WriteUndo(r)
  BY <1>8 DEF TypeOK, WriteUndo, Without, Goto
<1>9. CASE Unlog(r)
  BY <1>9, <1>a DEF TypeOK, Unlog, End, Goto, Remember
<1>10. CASE Refuse(r) \/ CutOff(r)
  BY <1>10, <1>a DEF TypeOK, Refuse, CutOff, End, Goto, Remember
<1> QED BY <1>1, <1>2, <1>3, <1>4, <1>5, <1>6, <1>7, <1>8, <1>9, <1>10 DEF Step

LEMMA NextType == TypeOK /\ AllPrepared /\ [Next]_vars => TypeOK'
<1> SUFFICES ASSUME TypeOK, AllPrepared, [Next]_vars PROVE TypeOK'
  OBVIOUS
<1>1. CASE UNCHANGED vars
  BY <1>1 DEF TypeOK, vars
<1> QED BY <1>1, PostType, BeginType, StepType DEF Next, AllPrepared

-----------------------------------------------------------------------------
(* Requests touch only their own locals.                                   *)

LEMMA OwnLocals ==
  ASSUME TypeOK, NEW r \in Requests, Begin(r) \/ Step(r) \/ CutOff(r),
         NEW q \in Requests, q # r
  PROVE  pc'[q] = pc[q] /\ mem'[q] = mem[q]
<1>1. ASSUME NEW l, Goto(r, l) PROVE pc'[q] = pc[q]
  BY <1>1 DEF Goto, TypeOK
<1>2. ASSUME NEW m, Remember(r, m) PROVE mem'[q] = mem[q]
  BY <1>2 DEF Remember, TypeOK
<1>3. ASSUME End(r) PROVE pc'[q] = pc[q] /\ mem'[q] = mem[q]
  BY <1>1, <1>2, <1>3 DEF End
<1>4. CASE Begin(r)
  <2>1. ASSUME NEW t \in Rows, NEW p \in Parties, BeginResolve(r, t, p)
        PROVE  pc'[q] = pc[q] /\ mem'[q] = mem[q]
    <3>1. \E m : Remember(r, m)
      BY <2>1 DEF BeginResolve
    <3> QED BY <1>1, <1>2, <2>1, <3>1 DEF BeginResolve
  <2> QED BY <1>1, <1>2, <1>4, <2>1
          DEF Begin, BeginUpdate, BeginRemove, BeginUndo, Start, NotFound, vars
<1>5. CASE WriteUpdate(r)
  BY <1>1, <1>5 DEF WriteUpdate
<1>6. CASE ReadOwn(r)
  BY <1>1, <1>2, <1>3, <1>6 DEF ReadOwn
<1>7. CASE ReadOthers(r)
  BY <1>1, <1>2, <1>7 DEF ReadOthers
<1>8. CASE WriteResolve(r)
  BY <1>1, <1>3, <1>8 DEF WriteResolve
<1>9. CASE WriteUndo(r)
  BY <1>1, <1>9 DEF WriteUndo
<1>10. CASE WriteOthers(r) \/ CreateFee(r) \/ WriteRemove(r) \/ Unlog(r)
            \/ Refuse(r) \/ CutOff(r)
  BY <1>3, <1>10 DEF WriteOthers, CreateFee, WriteRemove, Unlog, Refuse, CutOff
<1> QED BY <1>4, <1>5, <1>6, <1>7, <1>8, <1>9, <1>10 DEF Step

\* What ReadOwn remembers of a leg.
LEMMA OwnRead ==
  ASSUME TypeOK, NEW r \in Requests, ReadOwn(r), Paired(mem[r].row)
  PROVE  /\ pc'[r] = "others"
         /\ mem'[r].row = mem[r].row
         /\ mem'[r].date = tx[mem[r].row].date
         /\ mem'[r].amount = IF tx[mem[r].row].debit > 0 THEN tx[mem[r].row].debit
                                                        ELSE tx[mem[r].row].credit
<1> DEFINE t == mem[r].row
           n == IF tx[t].debit > 0 THEN tx[t].debit ELSE tx[t].credit
           d == tx[t].date
           g == tx[t].group
<1>1. pc' = [pc EXCEPT ![r] = "others"]
      /\ mem' = [mem EXCEPT ![r] = [mem[r] EXCEPT !.amount = n, !.date = d, !.group = g]]
  BY DEF ReadOwn, Goto, Remember
<1> HIDE DEF n, d, g
<1>2. pc'[r] = "others" /\ mem'[r].row = mem[r].row /\ mem'[r].date = d /\ mem'[r].amount = n
  BY <1>1 DEF TypeOK, LocalState
<1> QED BY <1>2 DEF n, d

\* The locals of the request that moves, where they are not blank afterwards.
LEMMA PreparedStep ==
  ASSUME TypeOK, AllPrepared, NEW r \in Requests, Begin(r) \/ Step(r) \/ CutOff(r)
  PROVE  AllPrepared'
<1>1. ASSUME NEW q \in Requests, q # r PROVE Prepared(q)'
  BY <1>1, OwnLocals DEF AllPrepared, Prepared
<1> SUFFICES Prepared(r)'
  BY <1>1 DEF AllPrepared
<1>2. Prepared(r)
  BY DEF AllPrepared
<1>3. \A t \in Rows : Exists(t) => tx[t] \in TransactionRow
  BY DEF TypeOK, Exists
<1>4. ASSUME pc'[r] \in {"idle", "remove"} PROVE Prepared(r)'
  BY <1>4 DEF Prepared
<1>5. ASSUME End(r) PROVE Prepared(r)'
  BY <1>4, <1>5 DEF End, Goto, TypeOK
<1>6. CASE Begin(r)
  <2>1. ASSUME NEW t \in Rows, BeginUpdate(r, t) PROVE Prepared(r)'
    <3>1. pc'[r] = "update" /\ mem'[r].row = t /\ mem'[r].old = tx[t] /\ Exists(t)
      BY <2>1 DEF BeginUpdate, Start, Goto, Remember, TypeOK, Blank
    <3> QED BY <1>3, <3>1 DEF Prepared
  <2>2. ASSUME NEW t \in Rows, BeginRemove(r, t) PROVE Prepared(r)'
    BY <1>4, <2>2 DEF BeginRemove, Start, Goto, TypeOK
  <2>3. ASSUME NEW t \in Rows, BeginUndo(r, t) PROVE Prepared(r)'
    <3>1. pc'[r] = "undo" /\ mem'[r].row = t /\ "undo" \in Handlers
      BY <2>3 DEF BeginUndo, Start, Goto, Remember, TypeOK, Blank
    <3> QED BY <3>1 DEF Prepared
  <2>4. ASSUME NEW t \in Rows, NEW p \in Parties, BeginResolve(r, t, p) PROVE Prepared(r)'
    <3>1. pc'[r] = "resolve" /\ Exists(t)
      BY <2>4 DEF BeginResolve, Goto, TypeOK, Resolvable
    <3>2. mem'[r].row = t /\ mem'[r].old = tx[t]
      BY <2>4 DEF BeginResolve, Remember, TypeOK, Blank
    <3> QED BY <1>3, <3>1, <3>2 DEF Prepared
  <2>5. ASSUME NEW t \in Rows, NotFound(r, t) PROVE Prepared(r)'
    BY <1>2, <2>5 DEF NotFound, vars, Prepared
  <2> QED BY <1>6, <2>1, <2>2, <2>3, <2>4, <2>5 DEF Begin
<1>7. CASE WriteUpdate(r)
  BY <1>2, <1>7 DEF WriteUpdate, Goto, TypeOK, Prepared
<1>8. CASE ReadOwn(r)
  <2>1. CASE Paired(mem[r].row)
    <3>1. pc'[r] = "others" /\ mem'[r].row = mem[r].row /\ mem'[r].date = tx[mem[r].row].date
      BY <1>8, <2>1, OwnRead
    <3>2. mem[r].row \in Rows
      <4>1. pc[r] = "own"
        BY <1>8 DEF ReadOwn
      <4> QED BY <1>2, <4>1 DEF Prepared
    <3>3. tx[mem[r].row] \in TransactionRow
      BY <1>3, <2>1, <3>2 DEF Paired
    <3>4. tx[mem[r].row].date \in Dates
      BY <3>3 DEF TransactionRow
    <3> QED BY <3>1, <3>2, <3>4 DEF Prepared
  <2>2. CASE ~Paired(mem[r].row)
    BY <1>5, <1>8, <2>2 DEF ReadOwn
  <2> QED BY <2>1, <2>2
<1>9. CASE ReadOthers(r)
  <2>1. pc'[r] = "sync" /\ mem'[r].row = mem[r].row /\ mem'[r].date = mem[r].date
    BY <1>9 DEF ReadOthers, Goto, Remember, TypeOK, LocalState
  <2> QED BY <1>2, <1>9, <2>1 DEF Prepared, ReadOthers
<1>10. CASE WriteResolve(r)
  <2>1. CASE mem[r].amount > 0
    BY <1>2, <1>10, <2>1 DEF WriteResolve, Goto, TypeOK, Prepared
  <2>2. CASE ~(mem[r].amount > 0)
    BY <1>5, <1>10, <2>2 DEF WriteResolve
  <2> QED BY <2>1, <2>2
<1>11. CASE WriteUndo(r)
  BY <1>2, <1>11 DEF WriteUndo, Goto, TypeOK, Prepared
<1>12. CASE WriteOthers(r) \/ CreateFee(r) \/ WriteRemove(r) \/ Unlog(r)
            \/ Refuse(r) \/ CutOff(r)
  BY <1>5, <1>12 DEF WriteOthers, CreateFee, WriteRemove, Unlog, Refuse, CutOff
<1> QED BY <1>6, <1>7, <1>8, <1>9, <1>10, <1>11, <1>12 DEF Step

-----------------------------------------------------------------------------
(* What an edit keeps of a row.                                            *)

LEMMA Quotient ==
  ASSUME NEW a \in Nat, NEW k \in Nat, NEW b \in Nat, b > 0
  PROVE  (a * (k * b)) \div b = k * a
<1>1. a * (k * b) = (k * a) * b
  OBVIOUS
<1>2. k * a \in Nat
  OBVIOUS
<1>3. \A n \in Nat : (n * b) \div b = n
  OBVIOUS
<1> QED BY <1>1, <1>2, <1>3

LEMMA AmountKeeps ==
  ASSUME NEW row \in TransactionRow, NEW o \in TransactionRow, NEW a \in Amounts
  PROVE  LET e == WithAmount(row, o, a) IN
         /\ e.kind = row.kind /\ e.group = row.group /\ e.rate = row.rate /\ e.pending = row.pending
         /\ SameSide(o, row) => SameSide(row, e)
         /\ GoodExchange(o) /\ GoodExchange(row) /\ o.rate = row.rate => GoodExchange(e)
<1> DEFINE e == WithAmount(row, o, a)
<1>0. a \in Nat /\ a > 0
  BY AmountsAreNat
<1>a. /\ o.debit \in Nat /\ o.credit \in Nat /\ o.cashIn \in Nat /\ o.cashOut \in Nat
      /\ o.cashIn2 \in Nat
      /\ row.debit \in Nat /\ row.credit \in Nat
  BY DEF TransactionRow
<1>1. e.kind = row.kind /\ e.group = row.group /\ e.rate = row.rate /\ e.pending = row.pending
  BY DEF WithAmount, TransactionRow
<1>2. /\ e.debit = (IF o.debit > 0 THEN a ELSE row.debit)
      /\ e.credit = (IF o.credit > 0 THEN a ELSE row.credit)
      /\ e.cashIn = (IF o.cashIn > 0 THEN Scaled(o.cashIn, a, o.credit) ELSE row.cashIn)
      /\ e.cashOut = (IF o.cashOut > 0 THEN Scaled(o.cashOut, a, o.debit) ELSE row.cashOut)
      /\ e.cashIn2 = (IF o.cashIn2 > 0 THEN SecondLeg(o, a) ELSE row.cashIn2)
  BY DEF WithAmount, TransactionRow
<1>3. SameSide(o, row) => SameSide(row, e)
  BY <1>0, <1>a, <1>2 DEF SameSide, Debits, Credits
<1>4. ASSUME GoodExchange(o), GoodExchange(row), o.rate = row.rate PROVE GoodExchange(e)
  <2>1. o.rate \in Nat
    <3>1. Rates \cup {1} \subseteq Nat
      BY LedgerAssumption
    <3> QED BY <3>1 DEF TransactionRow
  <2>2. e.debit = 0 /\ e.credit = 0 /\ e.cashIn = 0 /\ e.cashOut = a
    BY <1>a, <1>2, <1>4 DEF GoodExchange, Scaled
  <2>3. Base(o) = o.cashOut
    BY <1>4 DEF GoodExchange, Base
  <2>4. SecondLeg(o, a) = (a * (o.rate * o.cashOut)) \div o.cashOut
    BY <1>4, <2>3 DEF SecondLeg, Scaled, GoodExchange
  <2>5. SecondLeg(o, a) = o.rate * a
    BY <1>0, <1>a, <1>4, <2>1, <2>4, Quotient DEF GoodExchange
  <2>6. o.cashIn2 > 0
    <3>1. \A x, y \in Nat : x > 0 /\ y > 0 => x * y > 0
      OBVIOUS
    <3> QED BY <1>a, <1>4, <2>1, <3>1 DEF GoodExchange
  <2> QED BY <1>0, <1>1, <1>2, <1>4, <2>2, <2>5, <2>6 DEF GoodExchange
<1> QED BY <1>1, <1>3, <1>4

LEMMA EditKeeps ==
  ASSUME NEW row \in TransactionRow, NEW o \in TransactionRow, NEW e \in Edits(row, o)
  PROVE  /\ e.kind = row.kind /\ e.group = row.group /\ e.rate = row.rate /\ e.pending = row.pending
         /\ SameSide(o, row) => SameSide(row, e)
         /\ GoodExchange(o) /\ GoodExchange(row) /\ o.rate = row.rate => GoodExchange(e)
<1> DEFINE Kept(w) ==
             /\ w.kind = row.kind /\ w.group = row.group /\ w.rate = row.rate /\ w.pending = row.pending
             /\ SameSide(o, row) => SameSide(row, w)
             /\ GoodExchange(o) /\ GoodExchange(row) /\ o.rate = row.rate => GoodExchange(w)
<1>1. Kept(row)
  BY DEF SameSide
<1>2. \A a \in Amounts : WithAmount(row, o, a) \in TransactionRow /\ Kept(WithAmount(row, o, a))
  BY AmountKeeps, AmountType, AmountsAreNat
<1>3. ASSUME NEW w \in TransactionRow, Kept(w), NEW d \in Dates PROVE Kept([w EXCEPT !.date = d])
  <2> DEFINE v == [w EXCEPT !.date = d]
  <2>1. /\ v.kind = w.kind /\ v.group = w.group /\ v.rate = w.rate /\ v.debit = w.debit
        /\ v.pending = w.pending
        /\ v.credit = w.credit /\ v.cashIn = w.cashIn /\ v.cashOut = w.cashOut
        /\ v.cashIn2 = w.cashIn2
    BY DEF TransactionRow
  <2> HIDE DEF v
  <2>2. Kept(v)
    BY <1>3, <2>1 DEF SameSide, Debits, Credits, GoodExchange
  <2> QED BY <2>2 DEF v
<1> HIDE DEF Kept
<1>4. Kept(e)
  BY <1>1, <1>2, <1>3 DEF Edits
<1> QED BY <1>4 DEF Kept

-----------------------------------------------------------------------------
(* Every step lets the rows that exist evolve.                             *)

\* new rows, of new uids, and in the case of a transfer of a new group
LEMMA PostEvolves == IInv /\ Post => Evolves /\ RowsUsed' /\ GoodExchanges' /\ NonePending'
<1> SUFFICES ASSUME IInv, Post PROVE Evolves /\ RowsUsed' /\ GoodExchanges' /\ NonePending'
  OBVIOUS
<1>0. /\ TypeOK /\ RowsUsed /\ GoodExchanges /\ NonePending /\ Amounts \subseteq Nat \ {0}
      /\ \A t \in Rows : Paired(t) => Debits(tx[t]) \/ Credits(tx[t])
  BY LedgerAssumption DEF IInv, PairsSided
<1>a. \A t \in Rows : tx'[t] = tx[t] => (Paired(t)' <=> Paired(t)) /\ (Exchanged(t)' <=> Exchanged(t))
                                       /\ (Exists(t)' <=> Exists(t))
  BY DEF Paired, Exchanged, Exists
<1>b. \A t \in Rows : Paired(t) => SameSide(tx[t], tx[t])
  BY <1>0 DEF SameSide
<1>c. \A t \in Rows : Paired(t) \/ Exchanged(t) => t \in used
  BY <1>0 DEF RowsUsed, Paired, Exchanged
<1>1. ASSUME NEW kind, NEW row, row.kind # "partyTransfer", PostOne(kind, row),
             row.kind = "treasuryTransfer" => GoodExchange(row) /\ ~row.pending
      PROVE  Evolves /\ RowsUsed' /\ GoodExchanges' /\ NonePending'
  <2>1. PICK t \in Rows \ used : tx' = [tx EXCEPT ![t] = row] /\ used' = used \cup {t}
    BY <1>1 DEF PostOne
  <2>2. tx'[t] = row /\ \A u \in Rows \ {t} : tx'[u] = tx[u]
    BY <1>0, <2>1 DEF TypeOK
  <2>3. issued' = issued /\ t \in used' /\ t \notin used
    BY <1>1, <2>1 DEF PostOne
  <2>4. ~Paired(t)'
    BY <1>1, <2>2 DEF Paired
  <2>5. Evolves
    BY <1>a, <1>b, <1>c, <2>1, <2>2, <2>3, <2>4 DEF Evolves
  <2>6. RowsUsed'
    BY <1>0, <1>a, <2>1, <2>2, <2>3 DEF RowsUsed
  <2>7. GoodExchange(row) => GoodExchange(tx'[t])
    BY <2>2 DEF GoodExchange
  <2>8. GoodExchanges'
    BY <1>0, <1>1, <1>a, <2>2, <2>7 DEF GoodExchanges, Exchanged
  <2>9. NonePending'
    BY <1>0, <1>1, <1>a, <2>2, <2>4 DEF NonePending, Exchanged
  <2> QED BY <2>5, <2>6, <2>8, <2>9
<1>2. ASSUME NEW kind, NEW g \in Groups, NEW first, NEW second, PostTwo(kind, g, first, second),
             first.kind # "treasuryTransfer" /\ second.kind # "treasuryTransfer",
             \A row \in {first, second} : row.kind = "partyTransfer" =>
                row.group = g /\ (Debits(row) \/ Credits(row)) /\ ~row.pending
      PROVE  Evolves /\ RowsUsed' /\ GoodExchanges' /\ NonePending'
  <2>1. PICK t, u \in Rows \ used : /\ t # u
                                    /\ tx' = [tx EXCEPT ![t] = first, ![u] = second]
                                    /\ used' = used \cup {t, u}
    BY <1>2 DEF PostTwo
  <2>2. tx'[t] = first /\ tx'[u] = second /\ \A v \in Rows \ {t, u} : tx'[v] = tx[v]
    BY <1>0, <2>1 DEF TypeOK
  <2>3. g \in issued' \ issued /\ issued \subseteq issued'
    BY <1>2 DEF PostTwo
  <2>4. \A v \in {t, u} :
           /\ v \in used' /\ v \notin used /\ ~Exchanged(v)'
           /\ Paired(v)' => tx'[v].group = g /\ (Debits(tx'[v]) \/ Credits(tx'[v]))
                          /\ ~tx'[v].pending
    BY <1>2, <2>1, <2>2 DEF Paired, Exchanged
  <2>5. Evolves
    BY <1>a, <1>b, <1>c, <2>1, <2>2, <2>3, <2>4 DEF Evolves
  <2>6. RowsUsed'
    BY <1>0, <1>a, <2>1, <2>2, <2>4 DEF RowsUsed
  <2>7. GoodExchanges'
    BY <1>0, <1>a, <2>2, <2>4 DEF GoodExchanges
  <2>8. NonePending'
    BY <1>0, <1>a, <2>2, <2>4 DEF NonePending
  <2> QED BY <2>5, <2>6, <2>7, <2>8
<1>3. ASSUME NEW d \in Dates, NEW a \in Amounts, NEW p \in Parties, Collect(p, a, d)
      PROVE  Evolves /\ RowsUsed' /\ GoodExchanges' /\ NonePending'
  <2>1. [Row("collect", None, p, d) EXCEPT !.credit = a, !.cashIn = a].kind = "collect"
    BY DEF Row
  <2> QED BY <1>1, <1>3, <2>1 DEF Collect
<1>4. ASSUME NEW d \in Dates, NEW a \in Amounts, NEW g \in Groups, NEW p \in Parties,
             NEW f \in Amounts, CollectWithFee(g, p, a, f, d)
      PROVE  Evolves /\ RowsUsed' /\ GoodExchanges' /\ NonePending'
  <2> DEFINE first  == [Row("collect", g, p, d) EXCEPT !.credit = a, !.cashIn = a]
             second == [Row("fee", g, p, d) EXCEPT !.debit = f]
  <2>1. first.kind = "collect" /\ second.kind = "fee"
    BY DEF Row
  <2>2. PostTwo("collect", g, first, second)
    BY <1>4 DEF CollectWithFee
  <2> HIDE DEF first, second
  <2> QED BY <1>2, <2>1, <2>2
<1>5. ASSUME NEW d \in Dates, NEW a \in Amounts, NEW g \in Groups, NEW p \in Parties,
             ExpenseOnParty(g, p, a, d)
      PROVE  Evolves /\ RowsUsed' /\ GoodExchanges' /\ NonePending'
  <2>1. /\ [Row("expense", g, None, d) EXCEPT !.cashOut = a].kind = "expense"
        /\ [Row("partyExpense", g, p, d) EXCEPT !.debit = a].kind = "partyExpense"
    BY DEF Row
  <2> QED BY <1>2, <1>5, <2>1 DEF ExpenseOnParty
<1>6. ASSUME NEW d \in Dates, NEW a \in Amounts, NEW g \in Groups, NEW p \in Parties,
             NEW q \in Parties, PartyTransfer(g, p, q, a, d)
      PROVE  Evolves /\ RowsUsed' /\ GoodExchanges' /\ NonePending'
  <2> DEFINE first  == [Row("partyTransfer", g, p, d) EXCEPT !.credit = a]
             second == [Row("partyTransfer", g, q, d) EXCEPT !.debit = a]
  <2>1. a > 0
    BY <1>0
  <2>2. /\ first.kind = "partyTransfer" /\ first.group = g /\ Credits(first)
        /\ second.kind = "partyTransfer" /\ second.group = g /\ Debits(second)
        /\ first.pending = FALSE /\ second.pending = FALSE
    BY <2>1 DEF Row, Credits, Debits
  <2>3. PostTwo("partyTransfer", g, first, second)
    BY <1>6 DEF PartyTransfer
  <2> HIDE DEF first, second
  <2> QED BY <1>2, <2>2, <2>3
<1>7. ASSUME NEW d \in Dates, NEW a \in Amounts, NEW x \in Rates, TreasuryTransfer(a, x, d)
      PROVE  Evolves /\ RowsUsed' /\ GoodExchanges' /\ NonePending'
  <2> DEFINE row == [Row("treasuryTransfer", None, None, d) EXCEPT
                        !.cashOut = a, !.cashIn2 = a * x, !.rate = x]
  <2>1. a \in Nat /\ a > 0 /\ x \in Nat /\ x > 0
    BY LedgerAssumption
  <2>2. a * x = x * a
    BY <2>1
  <2>3. /\ row.kind = "treasuryTransfer" /\ row.debit = 0 /\ row.credit = 0 /\ row.cashIn = 0
        /\ row.cashOut = a /\ row.rate = x /\ row.cashIn2 = a * x /\ row.pending = FALSE
    BY DEF Row
  <2>4. PostOne("treasuryTransfer", row)
    BY <1>7 DEF TreasuryTransfer
  <2> HIDE DEF row
  <2>5. GoodExchange(row)
    BY <2>1, <2>2, <2>3 DEF GoodExchange
  <2> QED BY <1>1, <2>3, <2>4, <2>5
<1>8. ASSUME NEW d \in Dates, NEW a \in Amounts, UnknownCollect(a, d)
      PROVE  Evolves /\ RowsUsed' /\ GoodExchanges' /\ NonePending'
  <2>1. [Row("unknown", None, None, d) EXCEPT !.cashIn = a, !.pending = TRUE].kind = "unknown"
    BY DEF Row
  <2> QED BY <1>1, <1>8, <2>1 DEF UnknownCollect
<1> QED BY <1>3, <1>4, <1>5, <1>6, <1>7, <1>8 DEF Post

\* What a step may do to one row without breaking any of the three.
Kept(t) ==
    \/ tx'[t] = tx[t]
    \/ tx'[t] = None
    \/ t \in used /\ tx'[t].kind \notin {"partyTransfer", "treasuryTransfer"}
    \/ /\ Exists(t)
       /\ tx'[t].kind = tx[t].kind /\ tx'[t].group = tx[t].group /\ tx'[t].rate = tx[t].rate
       /\ tx'[t].pending = tx[t].pending
       /\ Paired(t) => SameSide(tx[t], tx'[t])
       /\ Exchanged(t) => GoodExchange(tx'[t])

LEMMA KeptEvolves ==
  ASSUME IInv, used \subseteq used', issued \subseteq issued', \A t \in Rows : Kept(t)
  PROVE  Evolves /\ RowsUsed' /\ GoodExchanges' /\ NonePending'
<1>0. RowsUsed /\ PairsSided /\ GoodExchanges /\ NonePending
  BY DEF IInv
<1>1. ASSUME NEW t \in Rows, tx'[t] = tx[t]
      PROVE  /\ Exists(t)' => t \in used'
             /\ Paired(t)' => t \in used /\ Paired(t) /\ tx'[t].group = tx[t].group
                               /\ SameSide(tx[t], tx'[t])
             /\ Exchanged(t)' => t \in used /\ Exchanged(t) /\ tx'[t].rate = tx[t].rate
                                  /\ GoodExchange(tx'[t])
             /\ Paired(t)' \/ Exchanged(t)' => ~tx'[t].pending
  <2>1. /\ Exists(t)' <=> Exists(t)
        /\ Paired(t)' <=> Paired(t)
        /\ Exchanged(t)' <=> Exchanged(t)
    BY <1>1 DEF Exists, Paired, Exchanged
  <2>2. /\ Paired(t) => Exists(t) /\ SameSide(tx[t], tx[t])
        /\ Exchanged(t) => Exists(t) /\ GoodExchange(tx[t])
    BY <1>0 DEF PairsSided, GoodExchanges, SameSide, Paired, Exchanged
  <2> QED BY <1>0, <1>1, <2>1, <2>2 DEF RowsUsed, NonePending
<1>2. ASSUME NEW t \in Rows, tx'[t] # tx[t], Kept(t)
      PROVE  /\ Exists(t)' => t \in used'
             /\ Paired(t)' => t \in used /\ Paired(t) /\ tx'[t].group = tx[t].group
                               /\ SameSide(tx[t], tx'[t])
             /\ Exchanged(t)' => t \in used /\ Exchanged(t) /\ tx'[t].rate = tx[t].rate
                                  /\ GoodExchange(tx'[t])
             /\ Paired(t)' \/ Exchanged(t)' => ~tx'[t].pending
  BY <1>0, <1>2 DEF Kept, RowsUsed, NonePending, Exists, Paired, Exchanged
<1> QED BY <1>1, <1>2 DEF Evolves, RowsUsed, GoodExchanges, NonePending

LEMMA StepEvolves ==
  ASSUME IInv, NEW r \in Requests, Begin(r) \/ Step(r) \/ CutOff(r)
  PROVE  Evolves /\ RowsUsed' /\ GoodExchanges' /\ NonePending'
<1>0. TypeOK /\ Prepared(r) /\ Knows(r) /\ GoodExchanges /\ RowsUsed
  BY DEF IInv, AllPrepared, AllKnow
<1>1. CASE Begin(r)
  <2>1. tx' = tx /\ used \subseteq used' /\ issued \subseteq issued'
    <3>1. ASSUME NEW t \in Rows, NEW p \in Parties, BeginResolve(r, t, p)
          PROVE  tx' = tx /\ used \subseteq used' /\ issued \subseteq issued'
      BY <3>1 DEF BeginResolve
    <3> QED BY <1>1, <3>1 DEF Begin, BeginUpdate, BeginRemove, BeginUndo, Start, NotFound, vars
  <2> QED BY <2>1, KeptEvolves DEF Kept
<1>2. CASE WriteUpdate(r)
  <2> DEFINE t == mem[r].row
             o == mem[r].old
  <2>1. PICK e \in Edits(tx[t], o) : tx' = [tx EXCEPT ![t] = e]
    BY <1>2 DEF WriteUpdate
  <2>2. /\ pc[r] = "update" /\ Exists(t) /\ UNCHANGED <<used, issued>>
    BY <1>2 DEF WriteUpdate
  <2>3. t \in Rows /\ o \in TransactionRow
    BY <1>0, <2>2 DEF Prepared
  <2>4. tx[t] \in TransactionRow
    BY <1>0, <2>2, <2>3 DEF TypeOK, Exists
  <2>5. /\ Paired(t) => SameSide(o, tx[t])
        /\ Exchanged(t) => GoodExchange(o) /\ o.rate = tx[t].rate /\ GoodExchange(tx[t])
    BY <1>0, <2>2, <2>3 DEF Knows, GoodExchanges
  <2>6. /\ e.kind = tx[t].kind /\ e.group = tx[t].group /\ e.rate = tx[t].rate
        /\ e.pending = tx[t].pending
        /\ Paired(t) => SameSide(tx[t], e)
        /\ Exchanged(t) => GoodExchange(e)
    BY <2>1, <2>3, <2>4, <2>5, EditKeeps
  <2>7. tx'[t] = e /\ \A u \in Rows \ {t} : tx'[u] = tx[u]
    BY <1>0, <2>1, <2>3 DEF TypeOK
  <2> HIDE DEF t, o
  <2>8. \A u \in Rows : Kept(u)
    BY <2>2, <2>6, <2>7 DEF Kept
  <2> QED BY <2>2, <2>8, KeptEvolves
<1>3. CASE WriteOthers(r)
  <2> DEFINE m == mem[r]
  <2>1. /\ pc[r] = "sync" /\ UNCHANGED <<used, issued>>
        /\ \A u \in m.debits \cup m.credits : Exists(u)
        /\ tx' = [u \in Rows |->
              IF u \in m.debits THEN [tx[u] EXCEPT !.date = m.date, !.debit = m.amount]
              ELSE IF u \in m.credits THEN [tx[u] EXCEPT !.date = m.date, !.credit = m.amount]
              ELSE tx[u]]
    BY <1>3 DEF WriteOthers
  <2>2. /\ m.amount > 0
        /\ \A u \in m.debits : u \in used /\ ~Exchanged(u) /\ (Paired(u) => Debits(tx[u]))
        /\ \A u \in m.credits : u \in used /\ ~Exchanged(u) /\ (Paired(u) => Credits(tx[u]))
    BY <1>0, <2>1 DEF Knows
  <2> HIDE DEF m
  <2>3. ASSUME NEW u \in Rows, u \in m.debits PROVE Kept(u)
    <3>1. Exists(u) /\ tx[u] \in TransactionRow
      BY <1>0, <2>1, <2>3 DEF TypeOK, Exists
    <3>2. /\ tx'[u].kind = tx[u].kind /\ tx'[u].group = tx[u].group /\ tx'[u].rate = tx[u].rate
          /\ tx'[u].pending = tx[u].pending /\ tx'[u].debit = m.amount /\ tx'[u].credit = tx[u].credit
      BY <2>1, <2>3, <3>1 DEF TransactionRow
    <3> QED BY <2>2, <2>3, <3>1, <3>2 DEF Kept, SameSide, Debits
  <2>4. ASSUME NEW u \in Rows, u \in m.credits, u \notin m.debits PROVE Kept(u)
    <3>1. Exists(u) /\ tx[u] \in TransactionRow
      BY <1>0, <2>1, <2>4 DEF TypeOK, Exists
    <3>2. /\ tx'[u].kind = tx[u].kind /\ tx'[u].group = tx[u].group /\ tx'[u].rate = tx[u].rate
          /\ tx'[u].pending = tx[u].pending /\ tx'[u].credit = m.amount /\ tx'[u].debit = tx[u].debit
      BY <2>1, <2>4, <3>1 DEF TransactionRow
    <3> QED BY <2>2, <2>4, <3>1, <3>2 DEF Kept, SameSide, Credits
  <2>5. ASSUME NEW u \in Rows, u \notin m.credits, u \notin m.debits PROVE Kept(u)
    BY <2>1, <2>5 DEF Kept
  <2> QED BY <2>1, <2>3, <2>4, <2>5, KeptEvolves
<1>4. CASE WriteResolve(r)
  <2> DEFINE t == mem[r].row
  <2>1. /\ pc[r] = "resolve" /\ Exists(t) /\ UNCHANGED <<used, issued>>
        /\ tx' = [tx EXCEPT ![t] = Resolved(tx[t], mem[r])]
    BY <1>4 DEF WriteResolve
  <2>2. t \in Rows /\ t \in used
    BY <1>0, <2>1 DEF Prepared, Knows
  <2>3. tx[t] \in TransactionRow
    BY <1>0, <2>1, <2>2 DEF TypeOK, Exists
  <2>4. Resolved(tx[t], mem[r]).kind = "collect"
    BY <2>3 DEF Resolved, TransactionRow
  <2>5. tx'[t].kind = "collect" /\ \A u \in Rows \ {t} : tx'[u] = tx[u]
    BY <1>0, <2>1, <2>2, <2>4 DEF TypeOK
  <2> HIDE DEF t
  <2>6. \A u \in Rows : Kept(u)
    BY <2>2, <2>5 DEF Kept
  <2> QED BY <2>1, <2>6, KeptEvolves
<1>5. CASE CreateFee(r)
  <2> DEFINE m == mem[r]
             fee == [Row("fee", FeeGroup(m), m.party, m.old.date) EXCEPT !.debit = m.amount]
  <2>1. /\ pc[r] = "fee" /\ UNCHANGED <<used, issued>>
        /\ tx' = [u \in Rows |-> IF u \in m.legs THEN fee ELSE tx[u]]
    BY <1>5 DEF CreateFee
  <2>2. fee.kind = "fee"
    BY DEF Row
  <2>3. \A u \in m.legs : u \in used
    BY <1>0, <2>1 DEF Knows
  <2> HIDE DEF m, fee
  <2>4. \A u \in Rows : Kept(u)
    BY <2>1, <2>2, <2>3 DEF Kept
  <2> QED BY <2>1, <2>4, KeptEvolves
<1>6. CASE WriteRemove(r) \/ WriteUndo(r)
  <2>1. PICK S : tx' = Without(S)
    BY <1>6 DEF WriteRemove, WriteUndo
  <2>2. \A u \in Rows : Kept(u)
    BY <2>1 DEF Kept, Without
  <2> QED BY <1>6, <2>2, KeptEvolves DEF WriteRemove, WriteUndo
<1>7. CASE ReadOwn(r) \/ ReadOthers(r) \/ Unlog(r) \/ Refuse(r) \/ CutOff(r)
  <2>1. tx' = tx /\ used' = used /\ issued' = issued
    BY <1>7 DEF ReadOwn, ReadOthers, Unlog, Refuse, CutOff
  <2> QED BY <2>1, KeptEvolves DEF Kept
<1> QED BY <1>1, <1>2, <1>3, <1>4, <1>5, <1>6, <1>7 DEF Step

\* the sides and groups of legs follow
LEMMA SidesEvolve == PairsSided /\ Evolves => PairsSided'
BY DEF PairsSided, Evolves, SameSide

-----------------------------------------------------------------------------
(* What has been read stays right while others move, and is right when it  *)
(* is read.                                                                *)

LEMMA KnowsKept ==
  ASSUME IInv, Evolves, NEW q \in Requests, pc'[q] = pc[q], mem'[q] = mem[q]
  PROVE  Knows(q)'
<1> DEFINE m == mem[q]
<1>0. /\ Prepared(q) /\ Knows(q) /\ PairsSided
      /\ m.debits \subseteq Rows /\ m.credits \subseteq Rows /\ m.legs \subseteq Rows
  BY DEF IInv, AllPrepared, AllKnow, TypeOK, LocalState
<1>1. \A t \in Rows : t \in used =>
         /\ t \in used'
         /\ Paired(t)' => Paired(t) /\ tx'[t].group = tx[t].group /\ SameSide(tx[t], tx'[t])
         /\ Exchanged(t)' => Exchanged(t) /\ tx'[t].rate = tx[t].rate
  BY DEF Evolves
<1>2. ASSUME pc[q] = "update"
      PROVE  /\ m.row \in used'
             /\ Paired(m.row)' => SameSide(m.old, tx'[m.row])
             /\ Exchanged(m.row)' => GoodExchange(m.old) /\ m.old.rate = tx'[m.row].rate
  <2>1. m.row \in Rows
    BY <1>0, <1>2 DEF Prepared
  <2> QED BY <1>0, <1>1, <1>2, <2>1 DEF Knows, SameSide, Debits, Credits
<1>3. ASSUME pc[q] \in {"resolve", "fee"}, NEW u \in m.legs \cup {m.row}
      PROVE  u \in used' /\ ~Paired(u)' /\ ~Exchanged(u)'
  <2>1. u \in Rows
    BY <1>0, <1>3 DEF Prepared
  <2> QED BY <1>0, <1>1, <1>3, <2>1 DEF Knows
<1>4. ASSUME pc[q] = "sync", NEW u \in m.debits
      PROVE  u \in used' /\ ~Exchanged(u)' /\ (Paired(u)' => Debits(tx'[u]))
  BY <1>0, <1>1, <1>4 DEF Knows, SameSide, Debits, Credits
<1>5. ASSUME pc[q] = "sync", NEW u \in m.credits
      PROVE  u \in used' /\ ~Exchanged(u)' /\ (Paired(u)' => Credits(tx'[u]))
  BY <1>0, <1>1, <1>5 DEF Knows, SameSide, Debits, Credits
<1>6. ASSUME pc[q] = "remove", NEW t \in m.legs
      PROVE  /\ t \in used'
             /\ \A u \in Rows :
                   Paired(t)' /\ Paired(u)' /\ tx'[u].group = tx'[t].group => u \in m.legs
  <2>1. t \in used /\ t \in used' /\ t \in Rows
    BY <1>0, <1>1, <1>6 DEF Knows
  <2>2. ASSUME NEW u \in Rows, Paired(t)', Paired(u)', tx'[u].group = tx'[t].group
        PROVE  u \in m.legs
    <3>1. Paired(t) /\ tx'[t].group = tx[t].group /\ tx[t].group \in issued
      BY <1>0, <1>1, <2>1, <2>2 DEF PairsSided
    <3>2. tx'[u].group \notin issued' \ issued
      BY <2>2, <3>1
    <3>3. Paired(u) /\ tx'[u].group = tx[u].group
      BY <2>2, <3>2 DEF Evolves
    <3> QED BY <1>0, <1>6, <2>2, <3>1, <3>3 DEF Knows
  <2> QED BY <2>1, <2>2
<1>7. pc[q] \in {"others", "sync"} => m.amount > 0
  BY <1>0 DEF Knows
<1> QED BY <1>2, <1>3, <1>4, <1>5, <1>6, <1>7 DEF Knows

LEMMA KnowsStep ==
  ASSUME IInv, Evolves, NEW r \in Requests, Begin(r) \/ Step(r) \/ CutOff(r)
  PROVE  Knows(r)'
<1>0. TypeOK /\ Prepared(r) /\ Knows(r) /\ PairsSided /\ GoodExchanges /\ NonePending /\ RowsUsed
  BY DEF IInv, AllPrepared, AllKnow
<1>1. ASSUME pc'[r] \in {"idle", "own", "undo", "unlog"} PROVE Knows(r)'
  BY <1>1 DEF Knows
<1>2. ASSUME End(r) PROVE Knows(r)'
  BY <1>0, <1>1, <1>2 DEF End, Goto, TypeOK
<1>3. ASSUME tx' = tx
      PROVE  \A t \in Rows : (Paired(t)' <=> Paired(t)) /\ (Exchanged(t)' <=> Exchanged(t))
  BY <1>3 DEF Paired, Exchanged, Exists
<1>4. ASSUME NEW t \in Rows, BeginUpdate(r, t) PROVE Knows(r)'
  <2>1. /\ pc'[r] = "update" /\ mem'[r].row = t /\ mem'[r].old = tx[t]
        /\ tx' = tx /\ used' = used /\ Exists(t)
    BY <1>0, <1>4 DEF BeginUpdate, Start, Goto, Remember, TypeOK, Blank
  <2>2. t \in used /\ (Paired(t) => SameSide(tx[t], tx[t])) /\ (Exchanged(t) => GoodExchange(tx[t]))
    BY <1>0, <2>1 DEF RowsUsed, PairsSided, GoodExchanges, SameSide
  <2> QED BY <1>3, <2>1, <2>2 DEF Knows
<1>5. ASSUME NEW t \in Rows, BeginRemove(r, t) PROVE Knows(r)'
  <2>1. /\ pc'[r] = "remove" /\ mem'[r].legs = Family(t)
        /\ tx' = tx /\ used' = used /\ Exists(t)
    BY <1>0, <1>5 DEF BeginRemove, Start, Goto, Remember, TypeOK, Blank
  <2>2. ASSUME NEW v \in Family(t)
        PROVE  /\ v \in used /\ v \in Rows
               /\ \A u \in Rows : Paired(v) /\ Paired(u) /\ tx[u].group = tx[v].group => u \in Family(t)
    <3>1. CASE tx[t].group = None
      <4>1. v = t
        BY <2>2, <3>1 DEF Family
      <4>2. None \notin issued
        BY <1>0, LedgerAssumption DEF TypeOK
      <4>3. ~Paired(t)
        BY <1>0, <1>5, <3>1, <4>2 DEF PairsSided
      <4> QED BY <1>0, <2>1, <4>1, <4>3 DEF RowsUsed
    <3>2. CASE tx[t].group # None
      <4>1. Family(t) = {u \in Rows : Exists(u) /\ tx[u].group = tx[t].group}
        BY <3>2 DEF Family
      <4> QED BY <1>0, <2>2, <4>1 DEF RowsUsed, Paired
    <3> QED BY <3>1, <3>2
  <2> QED BY <1>3, <2>1, <2>2 DEF Knows
<1>6. ASSUME NEW t \in Rows, BeginUndo(r, t) PROVE Knows(r)'
  BY <1>0, <1>1, <1>6 DEF BeginUndo, Start, Goto, TypeOK
<1>7. ASSUME NEW t \in Rows, NEW p \in Parties, BeginResolve(r, t, p) PROVE Knows(r)'
  <2> DEFINE m == [Blank EXCEPT !.row = t, !.old = tx[t], !.party = p]
  <2>1. /\ pc'[r] = "resolve" /\ tx' = tx /\ Exists(t) /\ tx[t].pending
        /\ used \subseteq used'
    BY <1>0, <1>7 DEF BeginResolve, Resolvable, Goto, TypeOK
  <2>2. mem'[r].row = t /\ \A u \in mem'[r].legs : u \in used' \ used /\ u \in Rows
    <3>1. m.row = t /\ m.legs = {}
      BY DEF Blank
    <3>2. \A f \in Amounts, u \in Rows, g \in Groups :
             /\ [m EXCEPT !.amount = f, !.legs = {u}, !.group = g].row = t
             /\ [m EXCEPT !.amount = f, !.legs = {u}, !.group = g].legs = {u}
      BY DEF Blank
    <3> HIDE DEF m
    <3>3. \/ mem' = [mem EXCEPT ![r] = m]
          \/ \E f \in Amounts, u \in Rows \ used, g \in Groups \ issued :
                /\ mem' = [mem EXCEPT ![r] = [m EXCEPT !.amount = f, !.legs = {u}, !.group = g]]
                /\ used' = used \cup {u}
      BY <1>7 DEF BeginResolve, Remember, m
    <3>4. CASE mem' = [mem EXCEPT ![r] = m]
      BY <1>0, <3>1, <3>4 DEF TypeOK
    <3>5. CASE \E f \in Amounts, u \in Rows \ used, g \in Groups \ issued :
                /\ mem' = [mem EXCEPT ![r] = [m EXCEPT !.amount = f, !.legs = {u}, !.group = g]]
                /\ used' = used \cup {u}
      BY <1>0, <3>2, <3>5 DEF TypeOK
    <3> QED BY <3>3, <3>4, <3>5
  <2>3. t \in used' /\ ~Paired(t) /\ ~Exchanged(t)
    BY <1>0, <2>1 DEF RowsUsed, NonePending
  <2>4. \A u \in Rows : u \notin used => ~Paired(u) /\ ~Exchanged(u)
    BY <1>0 DEF RowsUsed, Paired, Exchanged
  <2> QED BY <1>3, <2>1, <2>2, <2>3, <2>4 DEF Knows
<1>8. ASSUME NEW t \in Rows, NotFound(r, t) PROVE Knows(r)'
  BY <1>8, KnowsKept DEF NotFound, vars
<1>9. CASE WriteUpdate(r)
  BY <1>0, <1>1, <1>9 DEF WriteUpdate, Goto, TypeOK
<1>10. CASE ReadOwn(r)
  <2> DEFINE t == mem[r].row
  <2>1. CASE Paired(t)
    <3>1. pc[r] = "own"
      BY <1>10 DEF ReadOwn
    <3>2. t \in Rows
      BY <1>0, <3>1 DEF Prepared
    <3>3. Debits(tx[t]) \/ Credits(tx[t])
      BY <1>0, <2>1, <3>2 DEF PairsSided
    <3>4. pc'[r] = "others" /\ mem'[r].amount > 0
      BY <1>0, <1>10, <2>1, <3>3, OwnRead DEF Debits, Credits
    <3> QED BY <3>4 DEF Knows
  <2>2. CASE ~Paired(t)
    BY <1>2, <1>10, <2>2 DEF ReadOwn
  <2> QED BY <2>1, <2>2
<1>11. CASE ReadOthers(r)
  <2> DEFINE D == {u \in OtherLegs(r) : tx[u].debit > 0}
             C == {u \in OtherLegs(r) : tx[u].debit = 0}
  <2>1. \A u \in OtherLegs(r) : /\ u \in Rows /\ u \in used /\ Paired(u) /\ ~Exchanged(u)
                                /\ Debits(tx[u]) \/ Credits(tx[u])
    BY <1>0 DEF OtherLegs, PairsSided, RowsUsed, Paired, Exchanged
  <2>2. /\ \A u \in D : u \in Rows /\ u \in used /\ ~Exchanged(u) /\ Debits(tx[u])
        /\ \A u \in C : u \in Rows /\ u \in used /\ ~Exchanged(u) /\ Credits(tx[u])
    BY <2>1 DEF Debits, Credits
  <2>3. /\ mem' = [mem EXCEPT ![r] = [mem[r] EXCEPT !.debits = D, !.credits = C]]
        /\ pc' = [pc EXCEPT ![r] = "sync"] /\ tx' = tx /\ used' = used
        /\ pc[r] = "others"
    BY <1>11 DEF ReadOthers, Goto, Remember
  <2> HIDE DEF D, C
  <2>4. pc'[r] = "sync" /\ mem'[r].debits = D /\ mem'[r].credits = C /\ mem'[r].amount = mem[r].amount
    BY <1>0, <2>3 DEF TypeOK, LocalState
  <2>5. mem[r].amount > 0
    BY <1>0, <2>3 DEF Knows
  <2> QED BY <1>3, <2>2, <2>3, <2>4, <2>5 DEF Knows
<1>12. CASE WriteResolve(r)
  <2>1. CASE mem[r].amount > 0
    <3>1. pc[r] = "resolve" /\ pc'[r] = "fee" /\ mem' = mem
      BY <1>0, <1>12, <2>1 DEF WriteResolve, Goto, TypeOK
    <3>2. \A u \in mem[r].legs \cup {mem[r].row} :
             u \in Rows /\ u \in used /\ ~Paired(u) /\ ~Exchanged(u)
      <4>1. mem[r].legs \subseteq Rows /\ mem[r].row \in Rows
        BY <1>0, <3>1 DEF TypeOK, LocalState, Prepared
      <4> QED BY <1>0, <3>1, <4>1 DEF Knows
    <3>3. \A u \in mem[r].legs \cup {mem[r].row} : u \in used' /\ ~Paired(u)' /\ ~Exchanged(u)'
      BY <3>2 DEF Evolves
    <3> QED BY <3>1, <3>3 DEF Knows
  <2>2. CASE ~(mem[r].amount > 0)
    BY <1>2, <1>12, <2>2 DEF WriteResolve
  <2> QED BY <2>1, <2>2
<1>13. CASE WriteUndo(r)
  BY <1>0, <1>1, <1>13 DEF WriteUndo, Goto, TypeOK
<1>14. CASE WriteOthers(r) \/ CreateFee(r) \/ WriteRemove(r) \/ Unlog(r)
            \/ Refuse(r) \/ CutOff(r)
  BY <1>2, <1>14 DEF WriteOthers, CreateFee, WriteRemove, Unlog, Refuse, CutOff
<1> QED BY <1>4, <1>5, <1>6, <1>7, <1>8, <1>9, <1>10, <1>11, <1>12, <1>13, <1>14 DEF Begin, Step

\* Nothing is posted in the course of a request.
LEMMA PostKeepsRequests ==
  ASSUME Post
  PROVE  pc' = pc /\ mem' = mem
<1>1. \A kind, row : PostOne(kind, row) => pc' = pc /\ mem' = mem
  BY DEF PostOne
<1>2. \A kind, g, row, other : PostTwo(kind, g, row, other) => pc' = pc /\ mem' = mem
  BY DEF PostTwo
<1>3. \A d, a, p : Collect(p, a, d) => pc' = pc /\ mem' = mem
  BY <1>1 DEF Collect
<1>4. \A d, a, g, p, f : CollectWithFee(g, p, a, f, d) => pc' = pc /\ mem' = mem
  BY <1>2, Zenon DEF CollectWithFee
<1>5. \A d, a, g, p : ExpenseOnParty(g, p, a, d) => pc' = pc /\ mem' = mem
  BY <1>2, Zenon DEF ExpenseOnParty
<1>6. \A d, a, g, p, q : PartyTransfer(g, p, q, a, d) => pc' = pc /\ mem' = mem
  BY <1>2, Zenon DEF PartyTransfer
<1>7. \A d, a, x : TreasuryTransfer(a, x, d) => pc' = pc /\ mem' = mem
  BY <1>1, Zenon DEF TreasuryTransfer
<1>8. \A d, a : UnknownCollect(a, d) => pc' = pc /\ mem' = mem
  BY <1>1, Zenon DEF UnknownCollect
<1> QED BY <1>3, <1>4, <1>5, <1>6, <1>7, <1>8, Zenon DEF Post

LEMMA NextIInv ==
  ASSUME IInv, [Next]_vars
  PROVE  IInv' /\ Evolves
<1>0. TypeOK /\ AllPrepared /\ PairsSided
  BY DEF IInv
<1>1. TypeOK'
  BY <1>0, NextType
<1>2. CASE UNCHANGED vars
  <2>1. \A t \in Rows : Kept(t)
    BY <1>2 DEF Kept, vars
  <2>2. Evolves /\ RowsUsed' /\ GoodExchanges' /\ NonePending'
    BY <1>2, <2>1, KeptEvolves DEF vars
  <2>3. AllPrepared' /\ AllKnow'
    BY <1>0, <1>2, <2>2, KnowsKept DEF vars, AllPrepared, Prepared, AllKnow
  <2> QED BY <1>0, <1>1, <2>2, <2>3, SidesEvolve DEF IInv
<1>3. CASE Post
  <2>1. pc' = pc /\ mem' = mem
    BY <1>3, PostKeepsRequests
  <2>2. Evolves /\ RowsUsed' /\ GoodExchanges' /\ NonePending'
    BY <1>3, PostEvolves
  <2>3. AllPrepared' /\ AllKnow'
    BY <1>0, <2>1, <2>2, KnowsKept DEF AllPrepared, Prepared, AllKnow
  <2> QED BY <1>0, <1>1, <2>2, <2>3, SidesEvolve DEF IInv
<1>4. ASSUME NEW r \in Requests, Begin(r) \/ Step(r) \/ CutOff(r) PROVE IInv' /\ Evolves
  <2>1. Evolves /\ RowsUsed' /\ GoodExchanges' /\ NonePending'
    BY <1>4, StepEvolves
  <2>2. AllPrepared'
    BY <1>0, <1>4, PreparedStep
  <2>3. AllKnow'
    <3>1. Knows(r)'
      BY <1>4, <2>1, KnowsStep
    <3>2. ASSUME NEW q \in Requests, q # r PROVE Knows(q)'
      BY <1>0, <1>4, <2>1, <3>2, OwnLocals, KnowsKept
    <3> QED BY <3>1, <3>2 DEF AllKnow
  <2> QED BY <1>0, <1>1, <2>1, <2>2, <2>3, SidesEvolve DEF IInv
<1> QED BY <1>2, <1>3, <1>4 DEF Next

\* IInv is an invariant of the money log: of what a request has read, the part
\* it relies on is right when it writes.
THEOREM Invariance == Spec => []IInv
<1>1. Init => IInv
  <2> SUFFICES ASSUME Init PROVE IInv
    OBVIOUS
  <2>1. \A t \in Rows : ~Exists(t)
    BY DEF Init, Exists
  <2>2. RowsUsed /\ PairsSided /\ GoodExchanges /\ NonePending
    BY <2>1 DEF RowsUsed, PairsSided, GoodExchanges, NonePending, Paired, Exchanged
  <2>3. AllPrepared /\ AllKnow
    BY DEF Init, AllPrepared, Prepared, AllKnow, Knows
  <2> QED BY <2>2, <2>3, InitType DEF IInv
<1>2. IInv /\ [Next]_vars => IInv'
  BY NextIInv
<1> QED BY <1>1, <1>2, PTL DEF Spec

\* Every column of a row and every local of a request has its type, for any
\* entries, edits and amounts.
THEOREM TypeCorrect == Spec => []TypeOK
<1>1. IInv => TypeOK
  BY DEF IInv
<1> QED BY <1>1, Invariance, PTL

\* What a treasury receives is what the other paid times the rate of the
\* transfer, after any number of overlapping edits.
THEOREM RatesKept == Spec => []RateKept
<1>1. IInv => RateKept
  BY DEF IInv, GoodExchanges, GoodExchange, Exchanged, RateKept
<1> QED BY <1>1, Invariance, PTL

-----------------------------------------------------------------------------
(* Both legs.  Without undo, an entry is deleted with its whole group.      *)

NothingUndone == "undo" \notin Handlers

\* Legs of one group leave the table together.
Together ==
    \A t, u \in Rows : Paired(t) /\ Paired(u) /\ tx[u].group = tx[t].group =>
        (Paired(t)' => Paired(u)')

\* a leg that is new has its other leg
NewPairs ==
    \A t \in Rows \ used : Paired(t)' =>
        \E u \in Rows \ {t} : Paired(u)' /\ tx'[u].group = tx'[t].group /\ Opposite(t, u)'

LEMMA WholeKept ==
  ASSUME IInv, Evolves, PairsWhole, Together, NewPairs
  PROVE  PairsWhole'
<1> SUFFICES ASSUME NEW t \in Rows, Paired(t)'
             PROVE  \E u \in Rows \ {t} :
                       Paired(u)' /\ tx'[u].group = tx'[t].group /\ Opposite(t, u)'
  BY DEF PairsWhole
<1>1. CASE t \notin used
  BY <1>1 DEF NewPairs
<1>2. CASE t \in used
  <2>1. Paired(t) /\ tx'[t].group = tx[t].group /\ SameSide(tx[t], tx'[t])
    BY <1>2 DEF Evolves
  <2>2. PICK u \in Rows \ {t} : Paired(u) /\ tx[u].group = tx[t].group /\ Opposite(t, u)
    BY <2>1 DEF PairsWhole
  <2>3. u \in used
    BY <2>2 DEF IInv, RowsUsed, Paired
  <2>4. Paired(u)'
    BY <2>1, <2>2 DEF Together
  <2>5. tx'[u].group = tx[u].group /\ SameSide(tx[u], tx'[u])
    BY <2>3, <2>4 DEF Evolves
  <2>6. Opposite(t, u)'
    BY <2>1, <2>2, <2>5 DEF Opposite, SameSide, Debits, Credits
  <2> QED BY <2>1, <2>2, <2>4, <2>5, <2>6
<1> QED BY <1>1, <1>2

\* An entry adds rows of uids never used, and both legs of a transfer at once.
LEMMA PostWhole == IInv /\ Post => Together /\ NewPairs
<1> SUFFICES ASSUME IInv, Post PROVE Together /\ NewPairs
  OBVIOUS
<1>0. TypeOK /\ RowsUsed /\ Amounts \subseteq Nat \ {0}
  BY LedgerAssumption DEF IInv
<1>a. ASSUME \A u \in Rows : u \in used => tx'[u] = tx[u]
      PROVE  Together
  <2>1. \A u \in Rows : Paired(u) => Paired(u)'
    BY <1>0, <1>a DEF RowsUsed, Paired, Exists
  <2> QED BY <2>1 DEF Together
<1>1. ASSUME NEW kind, NEW row, row.kind # "partyTransfer", PostOne(kind, row)
      PROVE  Together /\ NewPairs
  <2>1. PICK t \in Rows \ used : tx' = [tx EXCEPT ![t] = row]
    BY <1>1 DEF PostOne
  <2>2. tx'[t] = row /\ \A u \in Rows \ {t} : tx'[u] = tx[u]
    BY <1>0, <2>1 DEF TypeOK
  <2>3. \A u \in Rows \ used : ~Paired(u)'
    BY <1>0, <1>1, <2>2 DEF RowsUsed, Paired, Exists
  <2> QED BY <1>a, <2>2, <2>3 DEF NewPairs
<1>2. ASSUME NEW kind, NEW g \in Groups, NEW first, NEW second, PostTwo(kind, g, first, second),
             \/ first.kind # "partyTransfer" /\ second.kind # "partyTransfer"
             \/ /\ first.kind = "partyTransfer" /\ first.group = g /\ Credits(first)
                /\ second.kind = "partyTransfer" /\ second.group = g /\ Debits(second)
                /\ first # None /\ second # None
      PROVE  Together /\ NewPairs
  <2>1. PICK t, u \in Rows \ used : t # u /\ tx' = [tx EXCEPT ![t] = first, ![u] = second]
    BY <1>2 DEF PostTwo
  <2>2. tx'[t] = first /\ tx'[u] = second /\ \A v \in Rows \ {t, u} : tx'[v] = tx[v]
    BY <1>0, <2>1 DEF TypeOK
  <2>3. Together
    BY <1>a, <2>2
  <2>4. \A v \in Rows \ (used \cup {t, u}) : ~Paired(v)'
    BY <1>0, <2>2 DEF RowsUsed, Paired, Exists
  <2>5. CASE first.kind # "partyTransfer" /\ second.kind # "partyTransfer"
    BY <2>2, <2>3, <2>4, <2>5 DEF NewPairs, Paired
  <2>6. CASE ~(first.kind # "partyTransfer" /\ second.kind # "partyTransfer")
    <3>1. Paired(t)' /\ Paired(u)' /\ tx'[t].group = g /\ tx'[u].group = g
      BY <1>2, <2>2, <2>6 DEF Paired, Exists
    <3>2. Opposite(t, u)' /\ Opposite(u, t)'
      BY <1>2, <2>2, <2>6 DEF Opposite, Credits, Debits
    <3> QED BY <2>1, <2>3, <2>4, <3>1, <3>2 DEF NewPairs
  <2> QED BY <2>5, <2>6
<1>3. ASSUME NEW d \in Dates, NEW a \in Amounts, NEW p \in Parties, Collect(p, a, d)
      PROVE  Together /\ NewPairs
  <2>1. [Row("collect", None, p, d) EXCEPT !.credit = a, !.cashIn = a].kind = "collect"
    BY DEF Row
  <2> QED BY <1>1, <1>3, <2>1 DEF Collect
<1>4. ASSUME NEW d \in Dates, NEW a \in Amounts, NEW g \in Groups, NEW p \in Parties,
             NEW f \in Amounts, CollectWithFee(g, p, a, f, d)
      PROVE  Together /\ NewPairs
  <2> DEFINE first  == [Row("collect", g, p, d) EXCEPT !.credit = a, !.cashIn = a]
             second == [Row("fee", g, p, d) EXCEPT !.debit = f]
  <2>1. first.kind = "collect" /\ second.kind = "fee"
    BY DEF Row
  <2>2. PostTwo("collect", g, first, second)
    BY <1>4 DEF CollectWithFee
  <2> HIDE DEF first, second
  <2> QED BY <1>2, <2>1, <2>2
<1>5. ASSUME NEW d \in Dates, NEW a \in Amounts, NEW g \in Groups, NEW p \in Parties,
             ExpenseOnParty(g, p, a, d)
      PROVE  Together /\ NewPairs
  <2>1. /\ [Row("expense", g, None, d) EXCEPT !.cashOut = a].kind = "expense"
        /\ [Row("partyExpense", g, p, d) EXCEPT !.debit = a].kind = "partyExpense"
    BY DEF Row
  <2> QED BY <1>2, <1>5, <2>1 DEF ExpenseOnParty
<1>6. ASSUME NEW d \in Dates, NEW a \in Amounts, NEW g \in Groups, NEW p \in Parties,
             NEW q \in Parties, PartyTransfer(g, p, q, a, d)
      PROVE  Together /\ NewPairs
  <2> DEFINE first  == [Row("partyTransfer", g, p, d) EXCEPT !.credit = a]
             second == [Row("partyTransfer", g, q, d) EXCEPT !.debit = a]
  <2>1. a > 0 /\ a \in Nat
    BY <1>0
  <2>2. /\ first.kind = "partyTransfer" /\ first.group = g /\ Credits(first)
        /\ second.kind = "partyTransfer" /\ second.group = g /\ Debits(second)
    BY <2>1 DEF Row, Credits, Debits
  <2>3. first \in TransactionRow /\ second \in TransactionRow
    BY <2>1 DEF Row, TransactionRow
  <2>4. first # None /\ second # None
    BY <2>3, LedgerAssumption
  <2>5. PostTwo("partyTransfer", g, first, second)
    BY <1>6 DEF PartyTransfer
  <2> HIDE DEF first, second
  <2> QED BY <1>2, <2>2, <2>4, <2>5
<1>7. ASSUME NEW d \in Dates, NEW a \in Amounts, NEW x \in Rates, TreasuryTransfer(a, x, d)
      PROVE  Together /\ NewPairs
  <2>1. [Row("treasuryTransfer", None, None, d) EXCEPT
            !.cashOut = a, !.cashIn2 = a * x, !.rate = x].kind = "treasuryTransfer"
    BY DEF Row
  <2> QED BY <1>1, <1>7, <2>1 DEF TreasuryTransfer
<1>8. ASSUME NEW d \in Dates, NEW a \in Amounts, UnknownCollect(a, d)
      PROVE  Together /\ NewPairs
  <2>1. [Row("unknown", None, None, d) EXCEPT !.cashIn = a, !.pending = TRUE].kind = "unknown"
    BY DEF Row
  <2> QED BY <1>1, <1>8, <2>1 DEF UnknownCollect
<1> QED BY <1>3, <1>4, <1>5, <1>6, <1>7, <1>8 DEF Post

\* A request never makes a leg, and takes legs away only with their group.
LEMMA RequestWhole ==
  ASSUME IInv, Evolves, NothingUndone, NEW r \in Requests, Begin(r) \/ Step(r) \/ CutOff(r)
  PROVE  Together /\ NewPairs
<1>0. TypeOK /\ Prepared(r) /\ Knows(r) /\ RowsUsed
  BY DEF IInv, AllPrepared, AllKnow
<1>a. ASSUME used' = used \/ tx' = tx PROVE NewPairs
  <2>1. \A t \in Rows \ used : ~Paired(t)'
    BY <1>0, <1>a DEF Evolves, RowsUsed, Paired, Exists
  <2> QED BY <2>1 DEF NewPairs
<1>b. ASSUME \A t \in Rows : Paired(t) => Paired(t)' PROVE Together
  BY <1>b DEF Together
<1>c. ASSUME tx' = tx PROVE Together /\ NewPairs
  BY <1>a, <1>b, <1>c DEF Paired, Exists
<1>1. CASE Begin(r)
  <2>1. tx' = tx
    BY <1>1 DEF Begin, BeginUpdate, BeginRemove, BeginUndo, BeginResolve, Start, NotFound, vars
  <2> QED BY <1>c, <2>1
<1>2. CASE WriteUpdate(r)
  <2> DEFINE t == mem[r].row
             o == mem[r].old
  <2>1. PICK e \in Edits(tx[t], o) : tx' = [tx EXCEPT ![t] = e]
    BY <1>2 DEF WriteUpdate
  <2>2. pc[r] = "update" /\ Exists(t) /\ used' = used
    BY <1>2 DEF WriteUpdate
  <2>3. t \in Rows /\ o \in TransactionRow
    BY <1>0, <2>2 DEF Prepared
  <2>4. tx[t] \in TransactionRow
    BY <1>0, <2>2, <2>3 DEF TypeOK, Exists
  <2>5. e \in TransactionRow /\ e.kind = tx[t].kind
    BY <2>1, <2>3, <2>4, EditKeeps, EditsType
  <2>6. tx'[t] = e /\ \A u \in Rows \ {t} : tx'[u] = tx[u]
    BY <1>0, <2>1, <2>3 DEF TypeOK
  <2>7. e # None
    BY <2>5, LedgerAssumption
  <2> HIDE DEF t, o
  <2>8. \A u \in Rows : Paired(u) => Paired(u)'
    BY <2>5, <2>6, <2>7 DEF Paired, Exists
  <2> QED BY <1>a, <1>b, <2>2, <2>8
<1>3. CASE WriteOthers(r)
  <2> DEFINE m == mem[r]
  <2>1. /\ used' = used
        /\ tx' = [u \in Rows |->
              IF u \in m.debits THEN [tx[u] EXCEPT !.date = m.date, !.debit = m.amount]
              ELSE IF u \in m.credits THEN [tx[u] EXCEPT !.date = m.date, !.credit = m.amount]
              ELSE tx[u]]
        /\ pc[r] = "sync"
    BY <1>3 DEF WriteOthers
  <2>2. m.date \in Dates /\ m.amount \in Nat
    BY <1>0, <2>1 DEF Prepared, TypeOK, LocalState
  <2>3. ASSUME NEW u \in Rows, Paired(u) PROVE Paired(u)'
    <3>1. tx[u] \in TransactionRow /\ tx[u].kind = "partyTransfer"
      BY <1>0, <2>3 DEF TypeOK, Paired, Exists
    <3> DEFINE x == [tx[u] EXCEPT !.date = m.date, !.debit = m.amount]
               y == [tx[u] EXCEPT !.date = m.date, !.credit = m.amount]
    <3>2. /\ x \in TransactionRow /\ y \in TransactionRow
          /\ x.kind = "partyTransfer" /\ y.kind = "partyTransfer"
      BY <2>2, <3>1 DEF TransactionRow
    <3>3. x # None /\ y # None
      BY <3>2, LedgerAssumption
    <3>4. tx'[u] \in {x, y, tx[u]}
      BY <2>1
    <3> HIDE DEF x, y
    <3> QED BY <2>3, <3>2, <3>3, <3>4 DEF Paired, Exists
  <2> QED BY <1>a, <1>b, <2>1, <2>3
<1>4. CASE WriteResolve(r)
  <2>1. /\ pc[r] = "resolve" /\ used' = used
        /\ tx' = [tx EXCEPT ![mem[r].row] = Resolved(tx[mem[r].row], mem[r])]
    BY <1>4 DEF WriteResolve
  <2>2. mem[r].row \in Rows /\ ~Paired(mem[r].row)
    BY <1>0, <2>1 DEF Prepared, Knows
  <2>3. \A u \in Rows : u # mem[r].row => tx'[u] = tx[u]
    BY <1>0, <2>1 DEF TypeOK
  <2>4. \A u \in Rows : Paired(u) => Paired(u)'
    BY <2>2, <2>3 DEF Paired, Exists
  <2> QED BY <1>a, <1>b, <2>1, <2>4
<1>5. CASE CreateFee(r)
  <2>1. pc[r] = "fee" /\ used' = used /\ \A u \in Rows \ mem[r].legs : tx'[u] = tx[u]
    BY <1>5 DEF CreateFee
  <2>2. \A u \in mem[r].legs : ~Paired(u)
    BY <1>0, <2>1 DEF Knows
  <2>3. \A u \in Rows : Paired(u) => Paired(u)'
    BY <2>1, <2>2 DEF Paired, Exists
  <2> QED BY <1>a, <1>b, <2>1, <2>3
<1>6. CASE WriteRemove(r)
  <2> DEFINE S == mem[r].legs
  <2>1. /\ pc[r] = "remove" /\ used' = used
        /\ tx' = [t \in Rows |-> IF t \in S THEN None ELSE tx[t]]
    BY <1>6 DEF WriteRemove, Without
  <2>2. ASSUME NEW t \in Rows, NEW u \in Rows, Paired(t), Paired(u), tx[u].group = tx[t].group,
               Paired(t)'
        PROVE  Paired(u)'
    <3>1. t \notin S
      BY <2>1, <2>2 DEF Paired, Exists
    <3>2. u \notin S
      BY <1>0, <2>1, <2>2, <3>1 DEF Knows
    <3> QED BY <2>1, <2>2, <3>2 DEF Paired, Exists
  <2> QED BY <1>a, <2>1, <2>2 DEF Together
<1>7. CASE WriteUndo(r)
  BY <1>0, <1>7 DEF WriteUndo, Prepared, NothingUndone
<1>8. CASE ReadOwn(r) \/ ReadOthers(r) \/ Unlog(r) \/ Refuse(r) \/ CutOff(r)
  <2>1. tx' = tx
    BY <1>8 DEF ReadOwn, ReadOthers, Unlog, Refuse, CutOff
  <2> QED BY <1>c, <2>1
<1> QED BY <1>1, <1>2, <1>3, <1>4, <1>5, <1>6, <1>7, <1>8 DEF Step

\* A transfer between parties has both its legs, whatever edits, deletions and
\* resolutions overlap and wherever one is cut off, in a program whose entries
\* are deleted with their group: the undoing of a creation is left out, and
\* the run ledger_undo shows that with it this is false.
THEOREM LegsWhole == NothingUndone => (Spec => []PairsWhole)
<1> SUFFICES ASSUME NothingUndone PROVE Spec => []PairsWhole
  OBVIOUS
<1>1. Init => PairsWhole
  BY DEF Init, PairsWhole, Paired, Exists
<1>2. ASSUME IInv, IInv', PairsWhole, [Next]_vars PROVE PairsWhole'
  <2>0. Evolves
    BY <1>2, NextIInv
  <2>1. CASE UNCHANGED vars
    BY <1>2, <2>1 DEF vars, PairsWhole, Paired, Exists, Opposite
  <2>2. CASE Post
    BY <1>2, <2>0, <2>2, PostWhole, WholeKept
  <2>3. CASE \E r \in Requests : Begin(r) \/ Step(r) \/ CutOff(r)
    BY <1>2, <2>0, <2>3, RequestWhole, WholeKept
  <2> QED BY <1>2, <2>1, <2>2, <2>3 DEF Next
<1> QED BY <1>1, <1>2, Invariance, PTL DEF Spec

-----------------------------------------------------------------------------
(* Requests one at a time: the two sides of every entry agree between them. *)

OneAtATime == \A p, q \in Requests : pc[p] # "idle" /\ pc[q] # "idle" => p = q

\* What holds of the tables at every moment.
GroupsIssued == \A t \in Rows : Exists(t) /\ tx[t].group # None => tx[t].group \in issued
PendingApart ==
    \A t \in Rows : Exists(t) /\ tx[t].pending => tx[t].kind = "unknown" /\ tx[t].group = None
CreditsEven == \A t \in Rows : Exists(t) /\ tx[t].kind = "collect" => tx[t].credit = tx[t].cashIn
LogNamesEntries == log \subseteq used /\ \A t \in log : Exists(t) => tx[t].kind # "fee"
Tables == GroupsIssued /\ PendingApart /\ CreditsEven /\ LogNamesEntries

\* A collection of a group has its fee, or a request is about to create it,
\* if no request is cut off.
FeesDue == {mem[r].group : r \in {q \in Requests : pc[q] = "fee"}}
HasFee(g) == \E u \in Rows : Exists(u) /\ tx[u].kind = "fee" /\ tx[u].group = g
FeesMade == ~MayFail =>
    \A t \in Rows : Exists(t) /\ tx[t].kind = "collect" /\ tx[t].group # None =>
        HasFee(tx[t].group) \/ tx[t].group \in FeesDue

\* Two legs of a transfer agree, unless a request has changed one of them and
\* is about to change the other.
SameGroup(t, u) == Paired(t) /\ Paired(u) /\ tx[t].group = tx[u].group
Agree(t, u) ==
    /\ tx[t].debit + tx[t].credit = tx[u].debit + tx[u].credit
    /\ tx[t].date = tx[u].date
Ahead == {mem[r].row : r \in {q \in Requests : pc[q] \in {"own", "others", "sync"}}}
LegsEven == ~MayFail =>
    \A t, u \in Rows : SameGroup(t, u) /\ t \notin Ahead /\ u \notin Ahead => Agree(t, u)

\* What a lone request knows when it is at l with m.
KnowsAlone(l, m) ==
    /\ l \in {"update", "resolve"} => Exists(m.row) /\ m.old = tx[m.row]
    /\ l = "resolve" => m.old.pending
    /\ l \in {"resolve", "fee"} => \A u \in m.legs : u \in used /\ u \notin log /\ ~Exists(u)
    /\ l = "resolve" /\ m.amount > 0 => m.group \in issued /\ m.legs # {}
    /\ l = "fee" => m.group \in issued /\ m.legs # {}
    /\ l \in {"others", "sync"} =>
        /\ Paired(m.row) /\ m.date = tx[m.row].date /\ m.group = tx[m.row].group
        /\ m.amount = tx[m.row].debit + tx[m.row].credit
    /\ l = "sync" => \A u \in Rows :
        u \in m.debits \cup m.credits <=> u # m.row /\ Paired(u) /\ tx[u].group = m.group
    /\ l = "remove" => \A t \in m.legs, u \in Rows :
        Exists(t) /\ Exists(u) /\ tx[t].group # None /\ tx[u].group = tx[t].group => u \in m.legs
    /\ l = "undo" => m.row \in log

SerialInv ==
    /\ OneAtATime /\ Tables /\ FeesMade /\ LegsEven
    /\ \A r \in Requests : KnowsAlone(pc[r], mem[r])

\* The request r moves to l with m: of the others nothing is due.
LEMMA AloneView ==
  ASSUME TypeOK, OneAtATime, OneAtATime', NEW r \in Requests, NEW l, NEW m,
         pc' = [pc EXCEPT ![r] = l], mem' = [mem EXCEPT ![r] = m],
         pc[r] # "idle" \/ l # "idle"
  PROVE  /\ \A q \in Requests \ {r} : pc[q] = "idle" /\ pc'[q] = "idle" /\ mem'[q] = mem[q]
         /\ pc'[r] = l /\ mem'[r] = m
         /\ FeesDue = IF pc[r] = "fee" THEN {mem[r].group} ELSE {}
         /\ FeesDue' = IF l = "fee" THEN {m.group} ELSE {}
         /\ Ahead = IF pc[r] \in {"own", "others", "sync"} THEN {mem[r].row} ELSE {}
         /\ Ahead' = IF l \in {"own", "others", "sync"} THEN {m.row} ELSE {}
<1>1. /\ pc'[r] = l /\ mem'[r] = m
      /\ \A q \in Requests \ {r} : pc'[q] = pc[q] /\ mem'[q] = mem[q]
  BY DEF TypeOK
<1>2. \A q \in Requests \ {r} : pc[q] = "idle" /\ pc'[q] = "idle"
  BY <1>1 DEF OneAtATime
<1>3. FeesDue = IF pc[r] = "fee" THEN {mem[r].group} ELSE {}
  BY <1>2 DEF FeesDue
<1>4. FeesDue' = IF l = "fee" THEN {m.group} ELSE {}
  BY <1>1, <1>2 DEF FeesDue
<1>5. Ahead = IF pc[r] \in {"own", "others", "sync"} THEN {mem[r].row} ELSE {}
  BY <1>2 DEF Ahead
<1>6. Ahead' = IF l \in {"own", "others", "sync"} THEN {m.row} ELSE {}
  BY <1>1, <1>2 DEF Ahead
<1> QED BY <1>1, <1>2, <1>3, <1>4, <1>5, <1>6

LEMMA AloneMove ==
  ASSUME TypeOK, SerialInv, OneAtATime', NEW r \in Requests, NEW l, NEW m,
         pc' = [pc EXCEPT ![r] = l], mem' = [mem EXCEPT ![r] = m],
         pc[r] # "idle" \/ l # "idle",
         Tables', FeesMade', LegsEven', KnowsAlone(l, m)'
  PROVE  SerialInv'
<1>1. /\ \A q \in Requests \ {r} : pc'[q] = "idle"
      /\ pc'[r] = l /\ mem'[r] = m
  BY AloneView DEF SerialInv
<1>2. ASSUME NEW q \in Requests PROVE KnowsAlone(pc[q], mem[q])'
  <2>1. CASE q = r
    BY <1>1, <2>1
  <2>2. CASE q # r
    BY <1>1, <2>2 DEF KnowsAlone
  <2> QED BY <2>1, <2>2
<1> QED BY <1>2 DEF SerialInv

\* What a lone request knows before it moves.
LEMMA WhereAlone ==
  ASSUME IInv, SerialInv, NEW r \in Requests
  PROVE  /\ TypeOK /\ RowsUsed /\ PairsSided /\ OneAtATime
         /\ pc \in [Requests -> {"idle", "update", "own", "others", "sync", "resolve", "fee",
                                 "remove", "undo", "unlog"}]
         /\ mem \in [Requests -> LocalState] /\ mem[r] \in LocalState
         /\ Prepared(r) /\ Knows(r) /\ KnowsAlone(pc[r], mem[r])
         /\ Tables /\ FeesMade /\ LegsEven
         /\ \A t \in Rows : Exists(t) => tx[t] \in TransactionRow
BY DEF IInv, SerialInv, TypeOK, AllPrepared, AllKnow, Exists

\* What the steps of a lone request do to a row, except when they resolve it.
Stays(t) ==
    \/ tx'[t] = tx[t]
    \/ tx'[t] = None
    \/ /\ Exists(t) /\ tx'[t] # None
       /\ tx'[t].kind = tx[t].kind /\ tx'[t].group = tx[t].group
       /\ tx'[t].pending = tx[t].pending
       /\ tx[t].kind = "collect" => tx'[t].credit = tx'[t].cashIn

LEMMA StayTables ==
  ASSUME Tables, issued \subseteq issued', used \subseteq used', log' \subseteq log,
         \A t \in Rows : Stays(t), log \subseteq Rows
  PROVE  Tables'
<1>1. ASSUME NEW t \in Rows, Exists(t)'
      PROVE  /\ Exists(t) /\ tx'[t].kind = tx[t].kind /\ tx'[t].group = tx[t].group
             /\ tx'[t].pending = tx[t].pending
             /\ tx[t].kind = "collect" => tx'[t].credit = tx'[t].cashIn
  BY <1>1 DEF Stays, Exists, Tables, CreditsEven
<1>2. GroupsIssued' /\ PendingApart'
  BY <1>1 DEF Tables, GroupsIssued, PendingApart
<1>3. CreditsEven'
  BY <1>1 DEF CreditsEven
<1>4. LogNamesEntries'
  BY <1>1 DEF Tables, LogNamesEntries
<1> QED BY <1>2, <1>3, <1>4 DEF Tables

LEMMA StayFees ==
  ASSUME FeesMade, FeesDue \subseteq FeesDue', \A t \in Rows : Stays(t),
         \A t, u \in Rows : /\ Exists(t) /\ Exists(u) /\ Exists(t)'
                            /\ tx[t].group # None /\ tx[u].group = tx[t].group
                            /\ tx[u].kind = "fee"
                            => Exists(u)'
  PROVE  FeesMade'
<1>1. ASSUME NEW t \in Rows, Exists(t)'
      PROVE  Exists(t) /\ tx'[t].kind = tx[t].kind /\ tx'[t].group = tx[t].group
  BY <1>1 DEF Stays, Exists
<1>2. ASSUME ~MayFail, NEW t \in Rows, Exists(t)', tx'[t].kind = "collect", tx'[t].group # None
      PROVE  HasFee(tx[t].group)' \/ tx'[t].group \in FeesDue'
  <2>1. Exists(t) /\ tx[t].kind = "collect" /\ tx[t].group # None /\ tx'[t].group = tx[t].group
    BY <1>1, <1>2
  <2>2. CASE tx[t].group \in FeesDue
    BY <2>1, <2>2
  <2>3. CASE HasFee(tx[t].group)
    <3>1. PICK u \in Rows : Exists(u) /\ tx[u].kind = "fee" /\ tx[u].group = tx[t].group
      BY <2>3 DEF HasFee
    <3>2. Exists(u)'
      BY <1>2, <2>1, <3>1
    <3> QED BY <1>1, <2>1, <3>1, <3>2 DEF HasFee
  <2> QED BY <1>2, <2>1, <2>2, <2>3 DEF FeesMade
<1> QED BY <1>2 DEF FeesMade

\* Legs that are as they were agree as they did.
LEMMA SameLegs ==
  ASSUME LegsEven, Ahead \subseteq Ahead',
         \A t \in Rows : Paired(t)' /\ t \notin Ahead' => tx'[t] = tx[t]
  PROVE  LegsEven'
<1>1. \A t \in Rows : Paired(t)' /\ t \notin Ahead' => Paired(t) /\ t \notin Ahead /\ tx'[t] = tx[t]
  BY DEF Paired, Exists
<1> QED BY <1>1 DEF LegsEven, SameGroup, Agree

\* Nothing is written.
LEMMA QuietTables ==
  ASSUME IInv, SerialInv, UNCHANGED <<tx, log>>, used \subseteq used', issued \subseteq issued',
         FeesDue \subseteq FeesDue', Ahead \subseteq Ahead'
  PROVE  Tables' /\ FeesMade' /\ LegsEven'
<1>1. \A t \in Rows : Stays(t) /\ (Exists(t)' <=> Exists(t))
  BY DEF Stays, Exists
<1>2. Tables'
  BY <1>1, StayTables DEF SerialInv, IInv, TypeOK
<1>3. FeesMade'
  BY <1>1, StayFees DEF SerialInv
<1>4. LegsEven'
  BY SameLegs DEF SerialInv
<1> QED BY <1>2, <1>3, <1>4

LEMMA BeginAlone ==
  ASSUME IInv, SerialInv, OneAtATime', NEW r \in Requests, Begin(r)
  PROVE  SerialInv'
<1>0. /\ TypeOK /\ RowsUsed /\ OneAtATime /\ mem \in [Requests -> LocalState]
      /\ Tables /\ GroupsIssued /\ log \subseteq used
  BY WhereAlone DEF Tables, LogNamesEntries
<1>1. ASSUME NEW l \in {"update", "remove", "undo", "resolve"}, NEW m,
             pc[r] = "idle", pc' = [pc EXCEPT ![r] = l], mem' = [mem EXCEPT ![r] = m],
             UNCHANGED <<tx, log>>, used \subseteq used', issued \subseteq issued',
             KnowsAlone(l, m)'
      PROVE  SerialInv'
  <2>1. FeesDue \subseteq FeesDue' /\ Ahead \subseteq Ahead'
    BY <1>0, <1>1, AloneView
  <2> QED BY <1>0, <1>1, <2>1, QuietTables, AloneMove
<1>2. ASSUME NEW t \in Rows, BeginUpdate(r, t) PROVE SerialInv'
  <2>1. PICK l, m : l = "update" /\ m = [Blank EXCEPT !.row = t, !.old = tx[t]]
    OBVIOUS
  <2>2. /\ pc[r] = "idle" /\ pc' = [pc EXCEPT ![r] = l] /\ mem' = [mem EXCEPT ![r] = m]
        /\ UNCHANGED <<tx, used, issued, log>> /\ Exists(t)
    BY <1>2, <2>1 DEF BeginUpdate, Start, Goto, Remember
  <2>3. m.row = t /\ m.old = tx[t]
    BY <2>1 DEF Blank
  <2>4. KnowsAlone(l, m)'
    BY <2>1, <2>2, <2>3 DEF KnowsAlone, Exists
  <2> QED BY <1>1, <2>1, <2>2, <2>4
<1>3. ASSUME NEW t \in Rows, BeginRemove(r, t) PROVE SerialInv'
  <2>1. PICK l, m : l = "remove" /\ m = [Blank EXCEPT !.legs = Family(t)]
    OBVIOUS
  <2>2. /\ pc[r] = "idle" /\ pc' = [pc EXCEPT ![r] = l] /\ mem' = [mem EXCEPT ![r] = m]
        /\ UNCHANGED <<tx, used, issued, log>> /\ Exists(t)
    BY <1>3, <2>1 DEF BeginRemove, Start, Goto, Remember
  <2>3. m.legs = Family(t)
    BY <2>1 DEF Blank
  <2>4. \A v \in Family(t), u \in Rows :
           Exists(v) /\ Exists(u) /\ tx[v].group # None /\ tx[u].group = tx[v].group => u \in Family(t)
    BY DEF Family
  <2>5. KnowsAlone(l, m)'
    BY <2>1, <2>2, <2>3, <2>4 DEF KnowsAlone, Exists
  <2> QED BY <1>1, <2>1, <2>2, <2>5
<1>4. ASSUME NEW t \in Rows, BeginUndo(r, t) PROVE SerialInv'
  <2>1. PICK l, m : l = "undo" /\ m = [Blank EXCEPT !.row = t]
    OBVIOUS
  <2>2. /\ pc[r] = "idle" /\ pc' = [pc EXCEPT ![r] = l] /\ mem' = [mem EXCEPT ![r] = m]
        /\ UNCHANGED <<tx, used, issued, log>> /\ t \in log
    BY <1>4, <2>1 DEF BeginUndo, Start, Goto, Remember
  <2>3. m.row = t
    BY <2>1 DEF Blank
  <2>4. KnowsAlone(l, m)'
    BY <2>1, <2>2, <2>3 DEF KnowsAlone
  <2> QED BY <1>1, <2>1, <2>2, <2>4
<1>5. ASSUME NEW t \in Rows, NEW p \in Parties, BeginResolve(r, t, p) PROVE SerialInv'
  <2>1. PICK b : b = [Blank EXCEPT !.row = t, !.old = tx[t], !.party = p]
    OBVIOUS
  <2>2. /\ b.row = t /\ b.old = tx[t] /\ b.amount = 0 /\ b.legs = {}
        /\ DOMAIN b = DOMAIN Blank
    BY <2>1 DEF Blank
  <2>3. /\ pc[r] = "idle" /\ pc' = [pc EXCEPT ![r] = "resolve"]
        /\ UNCHANGED <<tx, log>> /\ Exists(t) /\ tx[t].pending
        /\ \/ Remember(r, b) /\ UNCHANGED <<used, issued>>
           \/ \E f \in Amounts, u \in Rows \ used, g \in Groups \ issued :
                /\ Remember(r, [b EXCEPT !.amount = f, !.legs = {u}, !.group = g])
                /\ used' = used \cup {u}
                /\ issued' = issued \cup {g}
    BY <1>5, <2>1 DEF BeginResolve, Goto, Resolvable
  <2>4. PICK l : l = "resolve"
    OBVIOUS
  <2>5. CASE Remember(r, b) /\ UNCHANGED <<used, issued>>
    <3>1. KnowsAlone(l, b)'
      BY <2>2, <2>3, <2>4, <2>5 DEF KnowsAlone, Exists
    <3> QED BY <1>1, <2>3, <2>4, <2>5, <3>1 DEF Remember
  <2>6. CASE \E f \in Amounts, u \in Rows \ used, g \in Groups \ issued :
                /\ Remember(r, [b EXCEPT !.amount = f, !.legs = {u}, !.group = g])
                /\ used' = used \cup {u}
                /\ issued' = issued \cup {g}
    <3>1. PICK f \in Amounts, u \in Rows \ used, g \in Groups \ issued :
                /\ Remember(r, [b EXCEPT !.amount = f, !.legs = {u}, !.group = g])
                /\ used' = used \cup {u}
                /\ issued' = issued \cup {g}
      BY <2>6
    <3>2. PICK m : m = [b EXCEPT !.amount = f, !.legs = {u}, !.group = g]
      OBVIOUS
    <3>3. m.row = t /\ m.old = tx[t] /\ m.legs = {u} /\ m.group = g
      BY <2>1, <3>2 DEF Blank
    <3>4. ~Exists(u) /\ u \notin log
      BY <1>0, <3>1 DEF RowsUsed
    <3>5. KnowsAlone(l, m)'
      BY <2>3, <2>4, <3>1, <3>3, <3>4 DEF KnowsAlone, Exists
    <3> QED BY <1>1, <2>3, <2>4, <3>1, <3>2, <3>5 DEF Remember
  <2> QED BY <2>3, <2>5, <2>6
<1>6. ASSUME UNCHANGED vars PROVE SerialInv'
  <2>1. FeesDue' = FeesDue /\ Ahead' = Ahead
    BY <1>6 DEF vars, FeesDue, Ahead
  <2>2. Tables' /\ FeesMade' /\ LegsEven'
    BY <1>6, <2>1, QuietTables DEF vars
  <2>3. ASSUME NEW q \in Requests PROVE KnowsAlone(pc[q], mem[q])'
    BY <1>6 DEF SerialInv, vars, KnowsAlone, Exists, Paired
  <2> QED BY <2>2, <2>3 DEF SerialInv
<1>7. ASSUME NEW t \in Rows, NotFound(r, t) PROVE SerialInv'
  BY <1>6, <1>7 DEF NotFound
<1> QED BY <1>2, <1>3, <1>4, <1>5, <1>7 DEF Begin

\* A request that ends, having written rows only in ways that keep the tables.
LEMMA EndAlone ==
  ASSUME IInv, SerialInv, OneAtATime', NEW r \in Requests, pc[r] # "idle", End(r),
         Tables', FeesMade', LegsEven'
  PROVE  SerialInv'
<1>1. PICK l, m : l = "idle" /\ m = Blank
  OBVIOUS
<1>2. pc' = [pc EXCEPT ![r] = l] /\ mem' = [mem EXCEPT ![r] = m]
  BY <1>1 DEF End, Goto, Remember
<1>3. KnowsAlone(l, m)'
  BY <1>1 DEF KnowsAlone
<1> QED BY <1>2, <1>3, AloneMove DEF IInv

\* What a lone request is ahead of the tables when it ends.
LEMMA EndView ==
  ASSUME IInv, SerialInv, OneAtATime', NEW r \in Requests, pc[r] # "idle", End(r)
  PROVE  /\ FeesDue' = {} /\ Ahead' = {}
         /\ FeesDue = IF pc[r] = "fee" THEN {mem[r].group} ELSE {}
         /\ Ahead = IF pc[r] \in {"own", "others", "sync"} THEN {mem[r].row} ELSE {}
<1>1. PICK l, m : l = "idle" /\ m = Blank
  OBVIOUS
<1>2. pc' = [pc EXCEPT ![r] = l] /\ mem' = [mem EXCEPT ![r] = m]
  BY <1>1 DEF End, Goto, Remember
<1>3. TypeOK /\ OneAtATime
  BY DEF IInv, SerialInv
<1>4. /\ FeesDue = IF pc[r] = "fee" THEN {mem[r].group} ELSE {}
      /\ FeesDue' = IF l = "fee" THEN {m.group} ELSE {}
      /\ Ahead = IF pc[r] \in {"own", "others", "sync"} THEN {mem[r].row} ELSE {}
      /\ Ahead' = IF l \in {"own", "others", "sync"} THEN {m.row} ELSE {}
  BY <1>2, <1>3, AloneView
<1> QED BY <1>1, <1>4

-----------------------------------------------------------------------------
(* update                                                                  *)

\* An edit of an even collection leaves it even.
LEMMA EditEven ==
  ASSUME NEW row \in TransactionRow, row.credit = row.cashIn, NEW e \in Edits(row, row)
  PROVE  e.credit = e.cashIn
<1>1. /\ row.debit \in Nat /\ row.credit \in Nat /\ row.cashIn \in Nat
  BY DEF TransactionRow
<1>2. ASSUME NEW a \in Amounts
      PROVE  WithAmount(row, row, a).credit = WithAmount(row, row, a).cashIn
  <2>1. a \in Nat
    BY AmountsAreNat
  <2>2. /\ WithAmount(row, row, a).credit = (IF row.credit > 0 THEN a ELSE row.credit)
        /\ WithAmount(row, row, a).cashIn =
              (IF row.cashIn > 0 THEN Scaled(row.cashIn, a, row.credit) ELSE row.cashIn)
    BY DEF WithAmount, TransactionRow
  <2>3. row.credit > 0 => Scaled(row.cashIn, a, row.credit) = a
    <3>1. SUFFICES ASSUME row.credit > 0 PROVE Scaled(row.cashIn, a, row.credit) = a
      OBVIOUS
    <3>2. (a * (1 * row.credit)) \div row.credit = 1 * a
      <4>1. PICK one \in Nat : one = 1
        OBVIOUS
      <4> QED BY <1>1, <2>1, <3>1, <4>1, Quotient
    <3>3. 1 * row.credit = row.credit /\ 1 * a = a
      BY <1>1, <2>1
    <3> QED BY <1>1, <3>1, <3>2, <3>3 DEF Scaled
  <2> QED BY <1>1, <2>2, <2>3
<1>3. ASSUME NEW w \in TransactionRow, w.credit = w.cashIn, NEW d \in Dates
      PROVE  [w EXCEPT !.date = d].credit = [w EXCEPT !.date = d].cashIn
  BY <1>3 DEF TransactionRow
<1>4. \A a \in Amounts : WithAmount(row, row, a) \in TransactionRow
  BY AmountType, AmountsAreNat
<1>5. ASSUME NEW a \in Amounts, NEW d \in Dates
      PROVE  [WithAmount(row, row, a) EXCEPT !.date = d].credit
                = [WithAmount(row, row, a) EXCEPT !.date = d].cashIn
  BY <1>2, <1>3, <1>4
<1>6. CASE e = row
  BY <1>6
<1>7. CASE e \in {WithAmount(row, row, a) : a \in Amounts}
  BY <1>2, <1>7
<1>8. CASE e \in {[row EXCEPT !.date = d] : d \in Dates}
  BY <1>3, <1>8
<1>9. CASE e \in {[WithAmount(row, row, a) EXCEPT !.date = d] : a \in Amounts, d \in Dates}
  <2>1. PICK a \in Amounts, d \in Dates : e = [WithAmount(row, row, a) EXCEPT !.date = d]
    BY <1>9
  <2> QED BY <1>5, <2>1
<1> QED BY <1>6, <1>7, <1>8, <1>9 DEF Edits

LEMMA UpdatesAlone ==
  ASSUME IInv, SerialInv, OneAtATime', NEW r \in Requests, WriteUpdate(r)
  PROVE  SerialInv'
<1>0. /\ TypeOK /\ mem \in [Requests -> LocalState] /\ Tables /\ FeesMade /\ LegsEven /\ OneAtATime
      /\ pc[r] = "update" /\ KnowsAlone(pc[r], mem[r]) /\ Prepared(r)
  BY WhereAlone DEF WriteUpdate
<1>1. PICK l, m : l = "own" /\ m = mem[r]
  OBVIOUS
<1>2. /\ m.row \in Rows /\ Exists(m.row) /\ m.old = tx[m.row] /\ m.old \in TransactionRow
  BY <1>0, <1>1 DEF KnowsAlone, Prepared
<1>3. PICK row \in Edits(m.old, m.old) : tx' = [tx EXCEPT ![m.row] = row]
  BY <1>1, <1>2 DEF WriteUpdate
<1>4. /\ tx'[m.row] = row /\ \A t \in Rows \ {m.row} : tx'[t] = tx[t]
  BY <1>0, <1>2, <1>3 DEF TypeOK
<1>5. /\ row \in TransactionRow /\ row.kind = m.old.kind /\ row.group = m.old.group
      /\ row.pending = m.old.pending
  BY <1>2, EditKeeps, EditsType
<1>6. m.old.kind = "collect" => row.credit = row.cashIn
  <2>1. SUFFICES ASSUME m.old.kind = "collect" PROVE row.credit = row.cashIn
    OBVIOUS
  <2>2. m.old.credit = m.old.cashIn
    BY <1>0, <1>2, <2>1 DEF Tables, CreditsEven
  <2>3. PICK o : o = m.old
    OBVIOUS
  <2> QED BY <1>2, <1>3, <2>2, <2>3, EditEven
<1>7. row # None
  BY <1>5, LedgerAssumption
<1>8. \A t \in Rows : Stays(t) /\ (Exists(t)' <=> Exists(t))
  BY <1>2, <1>4, <1>5, <1>6, <1>7 DEF Stays, Exists
<1>9. /\ pc' = [pc EXCEPT ![r] = l] /\ mem' = [mem EXCEPT ![r] = m]
      /\ UNCHANGED <<used, issued, log>>
  BY <1>0, <1>1 DEF WriteUpdate, Goto
<1>10. FeesDue = {} /\ FeesDue' = {} /\ Ahead = {} /\ Ahead' = {m.row}
  BY <1>0, <1>1, <1>9, AloneView
<1>11. Tables'
  BY <1>0, <1>8, <1>9, StayTables DEF TypeOK
<1>12. FeesMade'
  BY <1>0, <1>8, <1>10, StayFees
<1>13. LegsEven'
  BY <1>0, <1>4, <1>10, SameLegs
<1>14. KnowsAlone(l, m)'
  BY <1>1 DEF KnowsAlone
<1> QED BY <1>0, <1>9, <1>11, <1>12, <1>13, <1>14, AloneMove

LEMMA ReadsOwnAlone ==
  ASSUME IInv, SerialInv, OneAtATime', NEW r \in Requests, ReadOwn(r)
  PROVE  SerialInv'
<1>0. /\ TypeOK /\ mem \in [Requests -> LocalState] /\ mem[r] \in LocalState
      /\ Tables /\ FeesMade /\ LegsEven /\ OneAtATime /\ PairsSided
      /\ pc[r] = "own" /\ Prepared(r)
      /\ UNCHANGED <<tx, used, issued, log>>
  BY WhereAlone DEF ReadOwn
<1>1. CASE ~Paired(mem[r].row)
  <2>1. End(r)
    BY <1>1 DEF ReadOwn
  <2>2. FeesDue = {} /\ FeesDue' = {} /\ Ahead' = {} /\ Ahead = {mem[r].row}
    BY <1>0, <2>1, EndView
  <2>3. PICK t : t = mem[r].row
    OBVIOUS
  <2>4. \A u \in Rows : Stays(u) /\ (Exists(u)' <=> Exists(u))
    BY <1>0 DEF Stays, Exists
  <2>5. Tables' /\ FeesMade'
    BY <1>0, <2>2, <2>4, StayTables, StayFees DEF TypeOK
  <2>6. LegsEven'
    <3>1. \A u \in Rows : (Paired(u)' <=> Paired(u)) /\ (Paired(u) => u # t)
      BY <1>0, <1>1, <2>3 DEF Paired, Exists
    <3> QED BY <1>0, <2>2, <2>3, <3>1 DEF LegsEven, SameGroup, Agree
  <2> QED BY <1>0, <2>1, <2>5, <2>6, EndAlone
<1>2. CASE Paired(mem[r].row)
  <2>1. PICK t : t = mem[r].row
    OBVIOUS
  <2>2. PICK n, d, g : /\ n = IF tx[t].debit > 0 THEN tx[t].debit ELSE tx[t].credit
                       /\ d = tx[t].date /\ g = tx[t].group
    OBVIOUS
  <2>3. PICK l, m : l = "others" /\ m = [mem[r] EXCEPT !.amount = n, !.date = d, !.group = g]
    OBVIOUS
  <2>4. pc' = [pc EXCEPT ![r] = l] /\ mem' = [mem EXCEPT ![r] = m]
    BY <1>2, <2>1, <2>2, <2>3 DEF ReadOwn, Goto, Remember
  <2>5. m.row = t /\ m.amount = n /\ m.date = d /\ m.group = g
    BY <1>0, <2>1, <2>3 DEF LocalState
  <2>6. FeesDue = {} /\ FeesDue' = {} /\ Ahead' = {t} /\ Ahead = {t}
    <3>1. /\ FeesDue = IF pc[r] = "fee" THEN {mem[r].group} ELSE {}
          /\ FeesDue' = IF l = "fee" THEN {m.group} ELSE {}
          /\ Ahead = IF pc[r] \in {"own", "others", "sync"} THEN {mem[r].row} ELSE {}
          /\ Ahead' = IF l \in {"own", "others", "sync"} THEN {m.row} ELSE {}
      BY <1>0, <2>4, AloneView
    <3> QED BY <1>0, <2>1, <2>3, <2>5, <3>1
  <2>7. t \in Rows
    BY <1>0, <2>1 DEF Prepared
  <2>8. n = tx[t].debit + tx[t].credit
    <3>1. tx[t] \in TransactionRow /\ (Debits(tx[t]) \/ Credits(tx[t]))
      BY <1>0, <1>2, <2>1, <2>7 DEF TypeOK, Paired, Exists, PairsSided
    <3> QED BY <2>2, <3>1 DEF Debits, Credits, TransactionRow
  <2>9. KnowsAlone(l, m)'
    BY <1>0, <1>2, <2>1, <2>2, <2>3, <2>5, <2>8 DEF KnowsAlone, Paired, Exists
  <2>10. Tables' /\ FeesMade' /\ LegsEven'
    BY <1>0, <2>6, QuietTables
  <2> QED BY <1>0, <2>4, <2>9, <2>10, AloneMove
<1> QED BY <1>1, <1>2

LEMMA ReadsOthersAlone ==
  ASSUME IInv, SerialInv, OneAtATime', NEW r \in Requests, ReadOthers(r)
  PROVE  SerialInv'
<1>0. /\ TypeOK /\ mem \in [Requests -> LocalState] /\ mem[r] \in LocalState /\ OneAtATime
      /\ pc[r] = "others" /\ KnowsAlone(pc[r], mem[r])
      /\ UNCHANGED <<tx, used, issued, log>>
  BY WhereAlone DEF ReadOthers
<1>1. PICK O : O = OtherLegs(r)
  OBVIOUS
<1>2. PICK D, C : D = {u \in O : tx[u].debit > 0} /\ C = {u \in O : tx[u].debit = 0}
  OBVIOUS
<1>3. PICK l, m : l = "sync" /\ m = [mem[r] EXCEPT !.debits = D, !.credits = C]
  OBVIOUS
<1>4. pc' = [pc EXCEPT ![r] = l] /\ mem' = [mem EXCEPT ![r] = m]
  BY <1>1, <1>2, <1>3 DEF ReadOthers, Goto, Remember
<1>5. /\ m.row = mem[r].row /\ m.amount = mem[r].amount /\ m.date = mem[r].date
      /\ m.group = mem[r].group /\ m.debits = D /\ m.credits = C
  BY <1>0, <1>3 DEF LocalState
<1>6. FeesDue = {} /\ FeesDue' = {} /\ Ahead' = {m.row} /\ Ahead = {m.row}
  <2>1. /\ FeesDue = IF pc[r] = "fee" THEN {mem[r].group} ELSE {}
        /\ FeesDue' = IF l = "fee" THEN {m.group} ELSE {}
        /\ Ahead = IF pc[r] \in {"own", "others", "sync"} THEN {mem[r].row} ELSE {}
        /\ Ahead' = IF l \in {"own", "others", "sync"} THEN {m.row} ELSE {}
    BY <1>0, <1>4, AloneView
  <2> QED BY <1>0, <1>3, <1>5, <2>1
<1>7. \A u \in O : tx[u].debit > 0 \/ tx[u].debit = 0
  BY <1>0, <1>1 DEF OtherLegs, Paired, Exists, TypeOK, TransactionRow
<1>8. D \cup C = O
  BY <1>2, <1>7
<1>9. \A u \in Rows : u \in m.debits \cup m.credits <=>
          u # m.row /\ Paired(u) /\ tx[u].group = m.group
  BY <1>1, <1>5, <1>8 DEF OtherLegs
<1>10. KnowsAlone(l, m)'
  BY <1>0, <1>3, <1>5, <1>9 DEF KnowsAlone, Paired, Exists
<1>11. Tables' /\ FeesMade' /\ LegsEven'
  BY <1>0, <1>6, QuietTables
<1> QED BY <1>0, <1>4, <1>10, <1>11, AloneMove

\* The other legs are known, exist, and take the amount and the date of the row.
LEMMA WriteOthersAlone ==
  ASSUME IInv, SerialInv, OneAtATime', NEW r \in Requests, WriteOthers(r)
  PROVE  SerialInv'
<1>0. /\ TypeOK /\ mem[r] \in LocalState /\ Tables /\ FeesMade /\ LegsEven /\ PairsSided
      /\ pc[r] = "sync" /\ Prepared(r) /\ Knows(r) /\ KnowsAlone(pc[r], mem[r])
      /\ End(r) /\ UNCHANGED <<used, issued, log>>
  BY WhereAlone DEF WriteOthers
<1>1. PICK m : m = mem[r]
  OBVIOUS
<1>2. PICK n, d : n = m.amount /\ d = m.date
  OBVIOUS
<1>3. tx' = [u \in Rows |->
            IF u \in m.debits THEN [tx[u] EXCEPT !.date = d, !.debit = n]
            ELSE IF u \in m.credits THEN [tx[u] EXCEPT !.date = d, !.credit = n]
            ELSE tx[u]]
  BY <1>1, <1>2 DEF WriteOthers
<1>4. /\ n \in Nat /\ n > 0 /\ d \in Dates /\ m.debits \subseteq Rows /\ m.credits \subseteq Rows
      /\ m.row \in Rows /\ Paired(m.row) /\ d = tx[m.row].date
      /\ n = tx[m.row].debit + tx[m.row].credit
      /\ \A u \in Rows : u \in m.debits \cup m.credits <=>
            u # m.row /\ Paired(u) /\ tx[u].group = tx[m.row].group
      /\ \A u \in m.debits : Paired(u) => Debits(tx[u])
      /\ \A u \in m.credits : Paired(u) => Credits(tx[u])
  BY <1>0, <1>1, <1>2 DEF KnowsAlone, Knows, Prepared, LocalState
<1>5. ASSUME NEW u \in m.debits \cup m.credits
      PROVE  /\ tx'[u] # None /\ tx'[u].kind = tx[u].kind /\ tx'[u].group = tx[u].group
             /\ tx'[u].pending = tx[u].pending
             /\ tx'[u].date = d /\ tx'[u].debit + tx'[u].credit = n
  <2>1. u \in Rows /\ Paired(u) /\ tx[u] \in TransactionRow
    BY <1>0, <1>4 DEF TypeOK, Paired, Exists
  <2>2. CASE u \in m.debits
    <3>1. PICK x : x = [tx[u] EXCEPT !.date = d, !.debit = n]
      OBVIOUS
    <3>2. /\ x \in TransactionRow /\ x.kind = tx[u].kind /\ x.group = tx[u].group
          /\ x.pending = tx[u].pending /\ x.date = d /\ x.debit = n /\ x.credit = tx[u].credit
      BY <1>4, <2>1, <3>1 DEF TransactionRow
    <3>3. x # None
      BY <3>2, LedgerAssumption
    <3>4. tx[u].credit = 0
      BY <1>4, <2>1, <2>2 DEF Debits
    <3>5. tx'[u] = x
      BY <1>3, <2>1, <2>2, <3>1
    <3> QED BY <1>4, <3>2, <3>3, <3>4, <3>5
  <2>3. CASE u \notin m.debits
    <3>1. PICK x : x = [tx[u] EXCEPT !.date = d, !.credit = n]
      OBVIOUS
    <3>2. /\ x \in TransactionRow /\ x.kind = tx[u].kind /\ x.group = tx[u].group
          /\ x.pending = tx[u].pending /\ x.date = d /\ x.credit = n /\ x.debit = tx[u].debit
      BY <1>4, <2>1, <3>1 DEF TransactionRow
    <3>3. x # None
      BY <3>2, LedgerAssumption
    <3>4. tx[u].debit = 0
      BY <1>4, <2>1, <2>3 DEF Credits
    <3>5. tx'[u] = x
      BY <1>3, <2>1, <2>3, <3>1
    <3> QED BY <1>4, <3>2, <3>3, <3>4, <3>5
  <2> QED BY <2>2, <2>3
<1>6. \A u \in Rows : u \notin m.debits \cup m.credits => tx'[u] = tx[u]
  BY <1>3
<1>7. \A u \in m.debits \cup m.credits : Paired(u)
  BY <1>4
<1>8. \A t \in Rows : Stays(t) /\ (Exists(t)' <=> Exists(t))
  BY <1>5, <1>6, <1>7 DEF Stays, Exists, Paired
<1>9. FeesDue = {} /\ FeesDue' = {} /\ Ahead' = {} /\ Ahead = {m.row}
  <2>1. pc[r] # "idle"
    BY <1>0
  <2> QED BY <1>0, <1>1, <2>1, EndView
<1>10. Tables' /\ FeesMade'
  BY <1>0, <1>8, <1>9, StayTables, StayFees DEF TypeOK
<1>11. LegsEven'
  <2>1. PICK L : L = m.debits \cup m.credits \cup {m.row}
    OBVIOUS
  <2>2. \A u \in L : tx'[u].debit + tx'[u].credit = n /\ tx'[u].date = d
    BY <1>4, <1>5, <1>6, <2>1
  <2>3. \A u \in Rows : /\ Paired(u)' <=> Paired(u)
                        /\ Paired(u) => tx'[u].group = tx[u].group
    BY <1>5, <1>6, <1>8 DEF Paired
  <2>4. \A u \in Rows : u \in L <=> Paired(u) /\ tx[u].group = tx[m.row].group
    BY <1>4, <2>1
  <2>5. ASSUME ~MayFail, NEW t \in Rows, NEW u \in Rows, SameGroup(t, u)' PROVE Agree(t, u)'
    <3>1. Paired(t) /\ Paired(u) /\ tx[t].group = tx[u].group
      BY <2>3, <2>5 DEF SameGroup
    <3>2. CASE t \in L
      <4>1. u \in L
        BY <2>4, <3>1, <3>2
      <4> QED BY <2>2, <3>2, <4>1 DEF Agree
    <3>3. CASE t \notin L
      <4>1. u \notin L
        BY <2>4, <3>1, <3>3
      <4>2. t # m.row /\ u # m.row /\ tx'[t] = tx[t] /\ tx'[u] = tx[u]
        BY <1>6, <2>1, <3>3, <4>1
      <4>3. Agree(t, u)
        BY <1>0, <1>9, <2>5, <3>1, <4>2 DEF LegsEven, SameGroup
      <4> QED BY <4>2, <4>3 DEF Agree
    <3> QED BY <3>2, <3>3
  <2> QED BY <2>5 DEF LegsEven
<1> QED BY <1>0, <1>10, <1>11, EndAlone

-----------------------------------------------------------------------------
(* resolve                                                                 *)

LEMMA WriteResolveAlone ==
  ASSUME IInv, SerialInv, OneAtATime', NEW r \in Requests, WriteResolve(r)
  PROVE  SerialInv'
<1>0. /\ TypeOK /\ OneAtATime /\ mem[r] \in LocalState
      /\ mem \in [Requests -> LocalState] /\ Tables /\ FeesMade /\ LegsEven
      /\ pc[r] = "resolve" /\ Prepared(r) /\ KnowsAlone(pc[r], mem[r])
      /\ UNCHANGED <<used, issued, log>>
  BY WhereAlone DEF WriteResolve
<1>1. PICK m : m = mem[r]
  OBVIOUS
<1>2. PICK t, o, x : t = m.row /\ o = tx[t] /\ x = Resolved(o, m)
  OBVIOUS
<1>3. /\ t \in Rows /\ Exists(t) /\ m.old = o /\ o.pending /\ m.amount \in Nat
      /\ m.legs \subseteq Rows
      /\ \A u \in m.legs : u \in used /\ u \notin log /\ ~Exists(u)
      /\ m.amount > 0 => m.group \in issued /\ m.legs # {}
  BY <1>0, <1>1, <1>2 DEF KnowsAlone, Prepared, LocalState
<1>4. o \in TransactionRow /\ o.kind = "unknown" /\ o.group = None
  BY <1>0, <1>2, <1>3 DEF TypeOK, Exists, Tables, PendingApart
<1>5. /\ x.kind = "collect" /\ x.credit = x.cashIn /\ x.pending = FALSE
      /\ x.group = IF m.amount > 0 THEN m.group ELSE None
  BY <1>2, <1>3, <1>4 DEF Resolved, TransactionRow
<1>6. tx' = [tx EXCEPT ![t] = x]
  BY <1>1, <1>2 DEF WriteResolve
<1>7. tx'[t] = x /\ \A u \in Rows \ {t} : tx'[u] = tx[u]
  BY <1>0, <1>3, <1>6 DEF TypeOK
<1>8. /\ \A u \in Rows \ {t} : (Exists(u)' <=> Exists(u)) /\ (Paired(u)' <=> Paired(u))
      /\ ~Paired(t)' /\ tx[t].kind = "unknown"
  BY <1>2, <1>4, <1>5, <1>7 DEF Exists, Paired
<1>9. Tables'
  <2>1. GroupsIssued'
    BY <1>0, <1>3, <1>5, <1>7, <1>8 DEF Tables, GroupsIssued
  <2>2. PendingApart'
    BY <1>0, <1>5, <1>7, <1>8 DEF Tables, PendingApart
  <2>3. CreditsEven'
    BY <1>0, <1>5, <1>7, <1>8 DEF Tables, CreditsEven
  <2>4. LogNamesEntries'
    <3>1. log \subseteq Rows
      BY <1>0 DEF TypeOK
    <3> QED BY <1>0, <1>5, <1>7, <1>8, <3>1 DEF Tables, LogNamesEntries
  <2> QED BY <2>1, <2>2, <2>3, <2>4 DEF Tables
<1>10. ASSUME NEW g, HasFee(g) PROVE HasFee(g)'
  <2>1. PICK u \in Rows : Exists(u) /\ tx[u].kind = "fee" /\ tx[u].group = g
    BY <1>10 DEF HasFee
  <2>2. u # t
    BY <1>8, <2>1
  <2> QED BY <1>7, <1>8, <2>1, <2>2 DEF HasFee
<1>11. CASE m.amount > 0
  <2>1. PICK l : l = "fee"
    OBVIOUS
  <2>2. pc' = [pc EXCEPT ![r] = l] /\ mem' = [mem EXCEPT ![r] = m]
    BY <1>0, <1>1, <1>11, <2>1 DEF WriteResolve, Goto
  <2>3. FeesDue = {} /\ FeesDue' = {m.group} /\ Ahead = {} /\ Ahead' = {}
    <3>1. /\ FeesDue = IF pc[r] = "fee" THEN {mem[r].group} ELSE {}
          /\ FeesDue' = IF l = "fee" THEN {m.group} ELSE {}
          /\ Ahead = IF pc[r] \in {"own", "others", "sync"} THEN {mem[r].row} ELSE {}
          /\ Ahead' = IF l \in {"own", "others", "sync"} THEN {m.row} ELSE {}
      BY <1>0, <2>2, AloneView
    <3> QED BY <1>0, <2>1, <3>1
  <2>4. FeesMade'
    <3>1. ASSUME ~MayFail, NEW u \in Rows, Exists(u)', tx'[u].kind = "collect", tx'[u].group # None
          PROVE  HasFee(tx[u].group)' \/ tx'[u].group \in FeesDue'
      <4>1. CASE u = t
        BY <1>5, <1>7, <1>11, <2>3, <4>1
      <4>2. CASE u # t
        <5>1. tx'[u] = tx[u] /\ HasFee(tx[u].group)
          BY <1>0, <1>7, <1>8, <2>3, <3>1, <4>2 DEF FeesMade
        <5>2. PICK g : g = tx[u].group
          OBVIOUS
        <5>3. HasFee(g)'
          BY <1>10, <5>1, <5>2
        <5> QED BY <5>1, <5>2, <5>3 DEF HasFee
      <4> QED BY <4>1, <4>2
    <3> QED BY <3>1 DEF FeesMade
  <2>5. LegsEven'
    BY <1>0, <1>7, <1>8, <2>3, SameLegs
  <2>6. KnowsAlone(l, m)'
    <3>1. \A u \in m.legs : u \in used' /\ u \notin log' /\ ~Exists(u)'
      BY <1>0, <1>3, <1>8
    <3> QED BY <1>0, <1>3, <1>11, <2>1, <3>1 DEF KnowsAlone
  <2> QED BY <1>0, <1>9, <2>2, <2>4, <2>5, <2>6, AloneMove
<1>12. CASE ~(m.amount > 0)
  <2>1. End(r)
    BY <1>1, <1>12 DEF WriteResolve
  <2>2. FeesDue = {} /\ FeesDue' = {} /\ Ahead = {} /\ Ahead' = {}
    <3>1. pc[r] # "idle"
      BY <1>0
    <3> QED BY <1>0, <2>1, <3>1, EndView
  <2>3. FeesMade'
    <3>1. ASSUME ~MayFail, NEW u \in Rows, Exists(u)', tx'[u].kind = "collect", tx'[u].group # None
          PROVE  HasFee(tx[u].group)'
      <4>1. u # t
        BY <1>5, <1>7, <1>12, <3>1
      <4>2. tx'[u] = tx[u] /\ HasFee(tx[u].group)
        BY <1>0, <1>7, <1>8, <2>2, <3>1, <4>1 DEF FeesMade
      <4>3. PICK g : g = tx[u].group
        OBVIOUS
      <4>4. HasFee(g)'
        BY <1>10, <4>2, <4>3
      <4> QED BY <4>2, <4>3, <4>4 DEF HasFee
    <3> QED BY <3>1 DEF FeesMade
  <2>4. LegsEven'
    BY <1>0, <1>7, <1>8, <2>2, SameLegs
  <2> QED BY <1>0, <1>9, <2>1, <2>3, <2>4, EndAlone
<1> QED BY <1>11, <1>12

LEMMA CreateFeeAlone ==
  ASSUME IInv, SerialInv, OneAtATime', NEW r \in Requests, CreateFee(r)
  PROVE  SerialInv'
<1>0. /\ TypeOK /\ mem[r] \in LocalState /\ Tables /\ FeesMade /\ LegsEven
      /\ pc[r] = "fee" /\ Prepared(r) /\ KnowsAlone(pc[r], mem[r])
      /\ End(r) /\ UNCHANGED <<used, issued, log>>
  BY WhereAlone DEF CreateFee
<1>1. PICK m : m = mem[r]
  OBVIOUS
<1>2. PICK fee : fee = [Row("fee", FeeGroup(m), m.party, m.old.date) EXCEPT !.debit = m.amount]
  OBVIOUS
<1>3. /\ m.legs \subseteq Rows /\ m.legs # {} /\ m.group \in issued
      /\ \A u \in m.legs : u \in used /\ u \notin log /\ ~Exists(u)
      /\ m.old.date \in Dates /\ m.amount \in Nat
      /\ m.party \in Parties \cup {None} /\ m.group \in Groups \cup {None}
  BY <1>0, <1>1 DEF KnowsAlone, Prepared, LocalState, TransactionRow
<1>4. fee \in TransactionRow /\ fee.kind = "fee" /\ fee.group = m.group /\ fee.pending = FALSE
  BY <1>2, <1>3 DEF FeeGroup, Row, TransactionRow
<1>5. fee # None
  BY <1>4, LedgerAssumption
<1>6. tx' = [u \in Rows |-> IF u \in m.legs THEN fee ELSE tx[u]]
  BY <1>1, <1>2 DEF CreateFee
<1>7. /\ \A u \in m.legs : tx'[u] = fee /\ Exists(u)' /\ ~Paired(u)'
      /\ \A u \in Rows \ m.legs : tx'[u] = tx[u] /\ (Exists(u)' <=> Exists(u))
  BY <1>3, <1>4, <1>5, <1>6 DEF Exists, Paired
<1>8. Tables'
  <2>1. GroupsIssued'
    BY <1>0, <1>3, <1>4, <1>7 DEF Tables, GroupsIssued
  <2>2. PendingApart'
    BY <1>0, <1>4, <1>7 DEF Tables, PendingApart
  <2>3. CreditsEven'
    BY <1>0, <1>4, <1>7 DEF Tables, CreditsEven
  <2>4. LogNamesEntries'
    <3>1. log \subseteq Rows \ m.legs
      BY <1>0, <1>3 DEF TypeOK
    <3> QED BY <1>0, <1>7, <3>1 DEF Tables, LogNamesEntries
  <2> QED BY <2>1, <2>2, <2>3, <2>4 DEF Tables
<1>9. FeesDue = {m.group} /\ FeesDue' = {} /\ Ahead = {} /\ Ahead' = {}
  <2>1. pc[r] # "idle"
    BY <1>0
  <2> QED BY <1>0, <1>1, <2>1, EndView
<1>10. ASSUME NEW g, HasFee(g) \/ g = m.group PROVE HasFee(g)'
  <2>1. CASE HasFee(g)
    <3>1. PICK u \in Rows : Exists(u) /\ tx[u].kind = "fee" /\ tx[u].group = g
      BY <2>1 DEF HasFee
    <3>2. u \notin m.legs
      BY <1>3, <3>1
    <3> QED BY <1>7, <3>1, <3>2 DEF HasFee
  <2>2. CASE g = m.group
    <3>1. PICK u \in m.legs : TRUE
      BY <1>3
    <3> QED BY <1>3, <1>4, <1>7, <2>2, <3>1 DEF HasFee
  <2> QED BY <1>10, <2>1, <2>2
<1>11. FeesMade'
  <2>1. ASSUME ~MayFail, NEW u \in Rows, Exists(u)', tx'[u].kind = "collect", tx'[u].group # None
        PROVE  HasFee(tx[u].group)'
    <3>1. u \notin m.legs
      BY <1>4, <1>7, <2>1
    <3>2. tx'[u] = tx[u] /\ (HasFee(tx[u].group) \/ tx[u].group = m.group)
      BY <1>0, <1>7, <1>9, <2>1, <3>1 DEF FeesMade
    <3>3. PICK g : g = tx[u].group
      OBVIOUS
    <3>4. HasFee(g)'
      BY <1>10, <3>2, <3>3
    <3> QED BY <3>2, <3>3, <3>4 DEF HasFee
  <2> QED BY <2>1 DEF FeesMade
<1>12. LegsEven'
  BY <1>0, <1>7, <1>9, SameLegs
<1> QED BY <1>0, <1>8, <1>11, <1>12, EndAlone

-----------------------------------------------------------------------------
(* remove and undo                                                         *)

\* Rows are taken away, with a fee only when its collection goes too.
LEMMA WithoutAlone ==
  ASSUME IInv, SerialInv, NEW S, tx' = Without(S), UNCHANGED <<used, issued, log>>,
         \A t, u \in Rows : /\ Exists(t) /\ Exists(u) /\ tx[t].group # None
                            /\ tx[u].group = tx[t].group /\ tx[u].kind = "fee" /\ u \in S
                            => t \in S,
         FeesDue = {}, Ahead = {}
  PROVE  Tables' /\ FeesMade' /\ LegsEven'
<1>0. Tables /\ FeesMade /\ LegsEven /\ log \subseteq Rows
  BY DEF SerialInv, IInv, TypeOK
<1>1. \A t \in Rows : tx'[t] = IF t \in S THEN None ELSE tx[t]
  BY DEF Without
<1>2. \A t \in Rows : Stays(t) /\ (Exists(t)' <=> Exists(t) /\ t \notin S)
  BY <1>1 DEF Stays, Exists
<1>3. Tables'
  BY <1>0, <1>2, StayTables
<1>4. FeesMade'
  <2>1. \A t, u \in Rows : /\ Exists(t) /\ Exists(u) /\ Exists(t)'
                           /\ tx[t].group # None /\ tx[u].group = tx[t].group
                           /\ tx[u].kind = "fee"
                           => Exists(u)'
    BY <1>2
  <2> QED BY <1>0, <1>2, <2>1, StayFees
<1>5. LegsEven'
  <2>1. \A t \in Rows : Paired(t)' => tx'[t] = tx[t]
    BY <1>1, <1>2 DEF Paired
  <2> QED BY <1>0, <2>1, SameLegs
<1> QED BY <1>3, <1>4, <1>5

LEMMA WriteRemoveAlone ==
  ASSUME IInv, SerialInv, OneAtATime', NEW r \in Requests, WriteRemove(r)
  PROVE  SerialInv'
<1>0. /\ pc[r] = "remove" /\ KnowsAlone(pc[r], mem[r]) /\ End(r)
      /\ UNCHANGED <<used, issued, log>>
  BY WhereAlone DEF WriteRemove
<1>1. PICK S : S = mem[r].legs
  OBVIOUS
<1>2. tx' = Without(S)
  BY <1>1 DEF WriteRemove
<1>3. \A t, u \in Rows : /\ Exists(t) /\ Exists(u) /\ tx[t].group # None
                         /\ tx[u].group = tx[t].group /\ tx[u].kind = "fee" /\ u \in S
                         => t \in S
  BY <1>0, <1>1 DEF KnowsAlone
<1>4. pc[r] # "idle" /\ FeesDue = {} /\ Ahead = {}
  <2>1. pc[r] # "idle"
    BY <1>0
  <2> QED BY <1>0, <2>1, EndView
<1>5. Tables' /\ FeesMade' /\ LegsEven'
  BY <1>0, <1>2, <1>3, <1>4, WithoutAlone
<1> QED BY <1>0, <1>4, <1>5, EndAlone

LEMMA WriteUndoAlone ==
  ASSUME IInv, SerialInv, OneAtATime', NEW r \in Requests, WriteUndo(r)
  PROVE  SerialInv'
<1>0. /\ TypeOK /\ OneAtATime /\ mem \in [Requests -> LocalState] /\ Tables
      /\ pc[r] = "undo" /\ KnowsAlone(pc[r], mem[r]) /\ Prepared(r)
      /\ UNCHANGED <<used, issued, log>>
  BY WhereAlone DEF WriteUndo
<1>1. PICK l, m, S : l = "unlog" /\ m = mem[r] /\ S = {m.row}
  OBVIOUS
<1>2. /\ pc' = [pc EXCEPT ![r] = l] /\ mem' = [mem EXCEPT ![r] = m] /\ tx' = Without(S)
  BY <1>0, <1>1 DEF WriteUndo, Goto
<1>3. m.row \in log /\ Exists(m.row)
  BY <1>0, <1>1 DEF KnowsAlone, WriteUndo
<1>4. tx[m.row].kind # "fee"
  BY <1>0, <1>3 DEF Tables, LogNamesEntries
<1>5. FeesDue = {} /\ Ahead = {}
  <2>1. /\ FeesDue = IF pc[r] = "fee" THEN {mem[r].group} ELSE {}
        /\ Ahead = IF pc[r] \in {"own", "others", "sync"} THEN {mem[r].row} ELSE {}
    BY <1>0, <1>2, AloneView
  <2> QED BY <1>0, <2>1
<1>6. Tables' /\ FeesMade' /\ LegsEven'
  BY <1>0, <1>1, <1>2, <1>4, <1>5, WithoutAlone
<1>7. KnowsAlone(l, m)'
  BY <1>1 DEF KnowsAlone
<1> QED BY <1>0, <1>2, <1>6, <1>7, AloneMove

LEMMA UnlogAlone ==
  ASSUME IInv, SerialInv, OneAtATime', NEW r \in Requests, Unlog(r)
  PROVE  SerialInv'
<1>0. /\ TypeOK /\ Tables /\ FeesMade /\ LegsEven /\ pc[r] = "unlog" /\ End(r)
      /\ UNCHANGED <<tx, used, issued>> /\ log' \subseteq log /\ log \subseteq Rows
  BY WhereAlone DEF Unlog, TypeOK
<1>1. pc[r] # "idle" /\ FeesDue = {} /\ FeesDue' = {} /\ Ahead = {} /\ Ahead' = {}
  <2>1. pc[r] # "idle"
    BY <1>0
  <2> QED BY <1>0, <2>1, EndView
<1>2. \A t \in Rows : Stays(t) /\ (Exists(t)' <=> Exists(t))
  BY <1>0 DEF Stays, Exists
<1>3. Tables' /\ FeesMade'
  BY <1>0, <1>1, <1>2, StayTables, StayFees
<1>4. LegsEven'
  BY <1>0, <1>1, SameLegs
<1> QED BY <1>0, <1>1, <1>3, <1>4, EndAlone

\* A lone request finds every row it has read, or has changed nothing.
LEMMA RefuseAlone ==
  ASSUME IInv, SerialInv, OneAtATime', NEW r \in Requests, Refuse(r)
  PROVE  SerialInv'
<1>0. /\ mem[r] \in LocalState /\ KnowsAlone(pc[r], mem[r]) /\ End(r)
      /\ UNCHANGED <<tx, used, issued, log>>
  BY WhereAlone DEF Refuse
<1>1. pc[r] \in {"update", "resolve", "undo"}
  <2>1. ASSUME pc[r] = "sync" PROVE \A u \in mem[r].debits \cup mem[r].credits : Exists(u)
    <3>1. mem[r].debits \cup mem[r].credits \subseteq Rows
      BY <1>0 DEF LocalState
    <3> QED BY <1>0, <2>1, <3>1 DEF KnowsAlone, Paired
  <2> QED BY <2>1 DEF Refuse, Refused
<1>2. pc[r] # "idle" /\ FeesDue = {} /\ FeesDue' = {} /\ Ahead = {} /\ Ahead' = {}
  <2>1. pc[r] # "idle"
    BY <1>1
  <2> QED BY <1>0, <1>1, <2>1, EndView
<1>3. Tables' /\ FeesMade' /\ LegsEven'
  BY <1>0, <1>2, QuietTables
<1> QED BY <1>0, <1>2, <1>3, EndAlone

\* A request that is cut off leaves the tables as they are, and what was due undone.
LEMMA CutOffAlone ==
  ASSUME IInv, SerialInv, OneAtATime', NEW r \in Requests, CutOff(r)
  PROVE  SerialInv'
<1>0. /\ Tables /\ log \subseteq Rows /\ MayFail /\ pc[r] # "idle" /\ End(r)
      /\ UNCHANGED <<tx, used, issued, log>>
  BY DEF CutOff, SerialInv, IInv, TypeOK
<1>1. \A t \in Rows : Stays(t)
  BY <1>0 DEF Stays
<1>2. Tables'
  BY <1>0, <1>1, StayTables
<1>3. FeesMade' /\ LegsEven'
  BY <1>0 DEF FeesMade, LegsEven
<1> QED BY <1>0, <1>2, <1>3, EndAlone

-----------------------------------------------------------------------------
(* Posting while a request may be under way.                               *)

\* The rows S are added: of uids and groups that were not given out, and with
\* what belongs to them.
Adds(S) ==
    /\ S \subseteq Rows \ used
    /\ UNCHANGED <<pc, mem>> /\ used \subseteq used' /\ issued \subseteq issued'
    /\ log \subseteq log' /\ log' \subseteq log \cup S /\ log' \subseteq used'
    /\ \A t \in Rows \ S : tx'[t] = tx[t]
    /\ \A t \in S :
        /\ tx'[t].group \in {None} \cup (issued' \ issued)
        /\ tx'[t].pending => tx'[t].kind = "unknown" /\ tx'[t].group = None
        /\ tx'[t].kind = "collect" => tx'[t].credit = tx'[t].cashIn
        /\ t \in log' => tx'[t].kind # "fee"
        /\ Exists(t)' /\ tx'[t].kind = "collect" /\ tx'[t].group # None => HasFee(tx[t].group)'
        /\ \A u \in S : SameGroup(t, u)' => Agree(t, u)'

\* one row without a group
LEMMA AddsOne ==
  ASSUME IInv, Tables, NEW kind, NEW row, PostOne(kind, row), row.group = None,
         row.pending => row.kind = "unknown",
         row.kind = "collect" => row.credit = row.cashIn,
         row.kind # "fee"
  PROVE  \E S \in SUBSET Rows : Adds(S)
<1>0. tx \in [Rows -> TransactionRow \cup {None}] /\ log \subseteq used
  BY DEF IInv, TypeOK, Tables, LogNamesEntries
<1>1. PICK t \in Rows \ used : /\ tx' = [tx EXCEPT ![t] = row]
                               /\ used' = used \cup {t}
                               /\ log' = log \cup {t}
  BY DEF PostOne
<1>2. tx'[t] = row /\ \A u \in Rows \ {t} : tx'[u] = tx[u]
  BY <1>0, <1>1
<1>3. PICK S \in SUBSET Rows : S = {t}
  BY <1>1
<1>4. \A u \in S : SameGroup(t, u)' => Agree(t, u)'
  BY <1>3 DEF Agree
<1>5. Adds(S)
  BY <1>0, <1>1, <1>2, <1>3, <1>4 DEF Adds, PostOne
<1> QED BY <1>5

\* two rows of a new group: a collection with its fee, the legs of a transfer
LEMMA AddsTwo ==
  ASSUME IInv, Tables, NEW kind, NEW g \in Groups, NEW first \in TransactionRow,
         NEW second \in TransactionRow, PostTwo(kind, g, first, second),
         first.group = g, second.group = g, first.pending = FALSE, second.pending = FALSE,
         first.kind = "collect" => first.credit = first.cashIn /\ second.kind = "fee",
         second.kind # "collect", first.kind # "fee",
         first.kind = "partyTransfer" <=> second.kind = "partyTransfer",
         first.kind = "partyTransfer" =>
            first.debit + first.credit = second.debit + second.credit /\ first.date = second.date
  PROVE  \E S \in SUBSET Rows : Adds(S)
<1>0. /\ tx \in [Rows -> TransactionRow \cup {None}] /\ log \subseteq used
      /\ first # None /\ second # None
  BY LedgerAssumption DEF IInv, TypeOK, Tables, LogNamesEntries
<1>1. PICK t, u \in Rows \ used : /\ t # u
                                  /\ tx' = [tx EXCEPT ![t] = first, ![u] = second]
                                  /\ used' = used \cup {t, u}
                                  /\ log' = log \cup {t}
  BY DEF PostTwo
<1>2. /\ tx'[t] = first /\ tx'[u] = second /\ Exists(t)' /\ Exists(u)'
      /\ \A v \in Rows \ {t, u} : tx'[v] = tx[v]
  BY <1>0, <1>1 DEF Exists
<1>3. PICK S \in SUBSET Rows : S = {t, u}
  BY <1>1
<1>4. issued' = issued \cup {g} /\ g \notin issued /\ UNCHANGED <<pc, mem>>
  BY DEF PostTwo
<1>5. ASSUME NEW v \in S
      PROVE  /\ tx'[v].group \in {None} \cup (issued' \ issued)
             /\ tx'[v].pending => tx'[v].kind = "unknown" /\ tx'[v].group = None
             /\ tx'[v].kind = "collect" => tx'[v].credit = tx'[v].cashIn
             /\ v \in log' => tx'[v].kind # "fee"
  BY <1>0, <1>1, <1>2, <1>3, <1>4
<1>6. ASSUME NEW v \in S, tx'[v].kind = "collect" PROVE HasFee(tx[v].group)'
  <2>1. v = t /\ second.kind = "fee"
    BY <1>2, <1>3, <1>6
  <2> QED BY <1>1, <1>2, <2>1 DEF HasFee
<1>7. ASSUME NEW v \in S, NEW w \in S, SameGroup(v, w)' PROVE Agree(v, w)'
  <2>1. tx'[v].kind = "partyTransfer"
    BY <1>7 DEF SameGroup, Paired
  <2>2. first.debit + first.credit = second.debit + second.credit /\ first.date = second.date
    BY <1>2, <1>3, <2>1
  <2> QED BY <1>2, <1>3, <2>2 DEF Agree
<1>8. Adds(S)
  BY <1>0, <1>1, <1>2, <1>3, <1>4, <1>5, <1>6, <1>7 DEF Adds
<1> QED BY <1>8

LEMMA PostAdds == IInv /\ Tables /\ Post => \E S \in SUBSET Rows : Adds(S)
<1> SUFFICES ASSUME IInv, Tables, Post PROVE \E S \in SUBSET Rows : Adds(S)
  OBVIOUS
<1>0. Amounts \subseteq Nat /\ Rates \subseteq Nat
  BY LedgerAssumption
<1>1. ASSUME NEW d \in Dates, NEW a \in Amounts, NEW p \in Parties, Collect(p, a, d)
      PROVE  \E S \in SUBSET Rows : Adds(S)
  <2>1. PICK row : row = [Row("collect", None, p, d) EXCEPT !.credit = a, !.cashIn = a]
    OBVIOUS
  <2>2. row.kind = "collect" /\ row.group = None /\ row.pending = FALSE /\ row.credit = row.cashIn
    BY <2>1 DEF Row
  <2> QED BY <1>1, <2>1, <2>2, AddsOne DEF Collect
<1>2. ASSUME NEW d \in Dates, NEW a \in Amounts, NEW g \in Groups, NEW p \in Parties,
             NEW f \in Amounts, CollectWithFee(g, p, a, f, d)
      PROVE  \E S \in SUBSET Rows : Adds(S)
  <2>1. PICK x, y : /\ x = [Row("collect", g, p, d) EXCEPT !.credit = a, !.cashIn = a]
                    /\ y = [Row("fee", g, p, d) EXCEPT !.debit = f]
    OBVIOUS
  <2>2. x \in TransactionRow /\ y \in TransactionRow
    BY <1>0, <2>1 DEF Row, TransactionRow
  <2>3. /\ x.kind = "collect" /\ x.group = g /\ x.pending = FALSE /\ x.credit = x.cashIn
        /\ y.kind = "fee" /\ y.group = g /\ y.pending = FALSE
    BY <2>1 DEF Row
  <2> QED BY <1>2, <2>1, <2>2, <2>3, AddsTwo DEF CollectWithFee
<1>3. ASSUME NEW d \in Dates, NEW a \in Amounts, NEW g \in Groups, NEW p \in Parties,
             ExpenseOnParty(g, p, a, d)
      PROVE  \E S \in SUBSET Rows : Adds(S)
  <2>1. PICK x, y : /\ x = [Row("expense", g, None, d) EXCEPT !.cashOut = a]
                    /\ y = [Row("partyExpense", g, p, d) EXCEPT !.debit = a]
    OBVIOUS
  <2>2. x \in TransactionRow /\ y \in TransactionRow
    BY <1>0, <2>1 DEF Row, TransactionRow
  <2>3. /\ x.kind = "expense" /\ x.group = g /\ x.pending = FALSE
        /\ y.kind = "partyExpense" /\ y.group = g /\ y.pending = FALSE
    BY <2>1 DEF Row
  <2> QED BY <1>3, <2>1, <2>2, <2>3, AddsTwo DEF ExpenseOnParty
<1>4. ASSUME NEW d \in Dates, NEW a \in Amounts, NEW g \in Groups, NEW p \in Parties,
             NEW q \in Parties, PartyTransfer(g, p, q, a, d)
      PROVE  \E S \in SUBSET Rows : Adds(S)
  <2>1. PICK x, y : /\ x = [Row("partyTransfer", g, p, d) EXCEPT !.credit = a]
                    /\ y = [Row("partyTransfer", g, q, d) EXCEPT !.debit = a]
    OBVIOUS
  <2>2. x \in TransactionRow /\ y \in TransactionRow
    BY <1>0, <2>1 DEF Row, TransactionRow
  <2>3. /\ x.kind = "partyTransfer" /\ x.group = g /\ x.pending = FALSE
        /\ y.kind = "partyTransfer" /\ y.group = g /\ y.pending = FALSE
        /\ x.debit = 0 /\ x.credit = a /\ y.debit = a /\ y.credit = 0
        /\ x.date = d /\ y.date = d
    BY <2>1 DEF Row
  <2>4. x.debit + x.credit = y.debit + y.credit
    BY <1>0, <2>3
  <2> QED BY <1>4, <2>1, <2>2, <2>3, <2>4, AddsTwo DEF PartyTransfer
<1>5. ASSUME NEW d \in Dates, NEW a \in Amounts, NEW x \in Rates, TreasuryTransfer(a, x, d)
      PROVE  \E S \in SUBSET Rows : Adds(S)
  <2>1. PICK row : row = [Row("treasuryTransfer", None, None, d) EXCEPT
                            !.cashOut = a, !.cashIn2 = a * x, !.rate = x]
    OBVIOUS
  <2>2. row.kind = "treasuryTransfer" /\ row.group = None /\ row.pending = FALSE
    BY <2>1 DEF Row
  <2> QED BY <1>5, <2>1, <2>2, AddsOne DEF TreasuryTransfer
<1>6. ASSUME NEW d \in Dates, NEW a \in Amounts, UnknownCollect(a, d)
      PROVE  \E S \in SUBSET Rows : Adds(S)
  <2>1. PICK row : row = [Row("unknown", None, None, d) EXCEPT !.cashIn = a, !.pending = TRUE]
    OBVIOUS
  <2>2. row.kind = "unknown" /\ row.group = None
    BY <2>1 DEF Row
  <2> QED BY <1>6, <2>1, <2>2, AddsOne DEF UnknownCollect
<1> QED BY <1>1, <1>2, <1>3, <1>4, <1>5, <1>6 DEF Post

LEMMA PostAlone ==
  ASSUME IInv, SerialInv, OneAtATime', Post
  PROVE  SerialInv'
<1>0. /\ TypeOK /\ RowsUsed /\ PairsSided /\ Tables /\ FeesMade /\ LegsEven
      /\ None \notin issued' \cup issued
  <2>1. TypeOK'
    BY PostType DEF IInv
  <2> QED BY <2>1, LedgerAssumption DEF IInv, SerialInv, TypeOK
<1>1. PICK S \in SUBSET Rows : Adds(S)
  BY PostAdds DEF SerialInv
<1>2. /\ \A t \in S : t \notin used /\ ~Exists(t) /\ t \notin log
      /\ \A t \in Rows \ S : tx'[t] = tx[t] /\ (Exists(t)' <=> Exists(t)) /\ (Paired(t)' <=> Paired(t))
  BY <1>0, <1>1 DEF Adds, RowsUsed, Exists, Paired, Tables, LogNamesEntries
<1>3. Tables'
  <2>1. GroupsIssued'
    BY <1>0, <1>1, <1>2 DEF Tables, GroupsIssued, Adds
  <2>2. PendingApart'
    BY <1>0, <1>1, <1>2 DEF Tables, PendingApart, Adds
  <2>3. CreditsEven'
    BY <1>0, <1>1, <1>2 DEF Tables, CreditsEven, Adds
  <2>4. LogNamesEntries'
    <3>1. log \subseteq Rows
      BY <1>0 DEF TypeOK
    <3> QED BY <1>0, <1>1, <1>2, <3>1 DEF Tables, LogNamesEntries, Adds
  <2> QED BY <2>1, <2>2, <2>3, <2>4 DEF Tables
<1>4. FeesDue' = FeesDue /\ Ahead' = Ahead
  BY <1>1 DEF Adds, FeesDue, Ahead
<1>5. FeesMade'
  <2>1. ASSUME ~MayFail, NEW t \in Rows, Exists(t)', tx'[t].kind = "collect", tx'[t].group # None
        PROVE  HasFee(tx[t].group)' \/ tx'[t].group \in FeesDue'
    <3>1. CASE t \in S
      BY <1>1, <2>1, <3>1 DEF Adds
    <3>2. CASE t \notin S
      <4>1. tx'[t] = tx[t] /\ (HasFee(tx[t].group) \/ tx[t].group \in FeesDue)
        BY <1>0, <1>2, <2>1, <3>2 DEF FeesMade
      <4>2. CASE HasFee(tx[t].group)
        <5>1. PICK u \in Rows : Exists(u) /\ tx[u].kind = "fee" /\ tx[u].group = tx[t].group
          BY <4>2 DEF HasFee
        <5>2. u \notin S
          BY <1>2, <5>1
        <5> QED BY <1>2, <4>1, <5>1, <5>2 DEF HasFee
      <4> QED BY <1>4, <4>1, <4>2
    <3> QED BY <3>1, <3>2
  <2> QED BY <2>1 DEF FeesMade
\* a row that was there is in no group with one that is new
<1>6. ASSUME NEW t \in Rows \ S, NEW u \in S, Exists(t)', tx'[t].group # None
      PROVE  tx'[u].group # tx'[t].group
  <2>1. tx'[t].group \in issued
    BY <1>0, <1>2, <1>6 DEF Tables, GroupsIssued
  <2> QED BY <1>0, <1>1, <1>6, <2>1 DEF Adds
<1>7. \A t \in Rows \ S : Paired(t)' => tx'[t].group # None
  BY <1>0, <1>2 DEF PairsSided
<1>8. LegsEven'
  <2>1. ASSUME ~MayFail, NEW t \in Rows, NEW u \in Rows, SameGroup(t, u)',
               t \notin Ahead', u \notin Ahead'
        PROVE  Agree(t, u)'
    <3>0. Exists(t)' /\ Exists(u)' /\ Paired(t)' /\ Paired(u)' /\ tx'[t].group = tx'[u].group
      BY <2>1 DEF SameGroup, Paired
    <3>1. CASE t \in S /\ u \in S
      BY <1>1, <2>1, <3>1 DEF Adds
    <3>2. CASE t \notin S /\ u \notin S
      <4>1. SameGroup(t, u) /\ tx'[t] = tx[t] /\ tx'[u] = tx[u]
        BY <1>2, <3>0, <3>2 DEF SameGroup
      <4>2. Agree(t, u)
        BY <1>0, <1>4, <2>1, <4>1 DEF LegsEven
      <4> QED BY <4>1, <4>2 DEF Agree
    <3>3. CASE t \in S /\ u \notin S
      BY <1>6, <1>7, <3>0, <3>3
    <3>4. CASE t \notin S /\ u \in S
      BY <1>6, <1>7, <3>0, <3>4
    <3> QED BY <3>1, <3>2, <3>3, <3>4
  <2> QED BY <2>1 DEF LegsEven
<1>9. ASSUME NEW r \in Requests PROVE KnowsAlone(pc[r], mem[r])'
  <2>1. PICK l, m : l = pc[r] /\ m = mem[r]
    OBVIOUS
  <2>2. pc'[r] = l /\ mem'[r] = m
    BY <1>1, <2>1 DEF Adds
  <2>3. /\ KnowsAlone(l, m) /\ Knows(r) /\ Prepared(r) /\ m \in LocalState
    BY <2>1, WhereAlone
  <2>4. ASSUME l \in {"update", "resolve"} PROVE Exists(m.row)' /\ m.old = tx'[m.row]
    <3>1. m.row \in Rows /\ Exists(m.row) /\ m.old = tx[m.row]
      BY <2>1, <2>3, <2>4 DEF KnowsAlone, Prepared
    <3> QED BY <1>2, <3>1
  <2>5. ASSUME l \in {"resolve", "fee"}, NEW u \in m.legs
        PROVE  u \in used' /\ u \notin log' /\ ~Exists(u)'
    <3>1. u \in Rows /\ u \in used /\ u \notin log /\ ~Exists(u)
      BY <2>3, <2>5 DEF KnowsAlone, LocalState
    <3>2. u \notin S
      BY <1>2, <3>1
    <3> QED BY <1>1, <1>2, <3>1, <3>2 DEF Adds
  <2>6. ASSUME l \in {"others", "sync"}
        PROVE  /\ Paired(m.row)' /\ m.row \in Rows \ S /\ tx'[m.row] = tx[m.row]
               /\ m.date = tx'[m.row].date /\ m.group = tx'[m.row].group
               /\ m.amount = tx'[m.row].debit + tx'[m.row].credit
    <3>1. /\ m.row \in Rows /\ Paired(m.row) /\ m.date = tx[m.row].date /\ m.group = tx[m.row].group
          /\ m.amount = tx[m.row].debit + tx[m.row].credit
      BY <2>1, <2>3, <2>6 DEF KnowsAlone, Prepared
    <3>2. m.row \notin S
      BY <1>2, <3>1 DEF Paired
    <3> QED BY <1>2, <3>1, <3>2
  <2>7. ASSUME l = "sync", NEW u \in Rows
        PROVE  u \in m.debits \cup m.credits <=>
                  u # m.row /\ Paired(u)' /\ tx'[u].group = m.group
    <3>1. u \in m.debits \cup m.credits <=> u # m.row /\ Paired(u) /\ tx[u].group = m.group
      BY <2>3, <2>7 DEF KnowsAlone
    <3>2. CASE u \notin S
      BY <1>2, <3>1, <3>2
    <3>3. CASE u \in S
      <4>1. ~Paired(u)
        BY <1>2, <3>3 DEF Paired
      <4>2. tx'[u].group # m.group
        <5>1. Exists(m.row)' /\ m.row \in Rows \ S /\ tx'[m.row].group # None
                /\ m.group = tx'[m.row].group
          BY <1>7, <2>6, <2>7 DEF Paired
        <5> QED BY <1>6, <3>3, <5>1
      <4> QED BY <3>1, <4>1, <4>2
    <3> QED BY <3>2, <3>3
  <2>8. ASSUME l = "remove", NEW t \in m.legs, NEW u \in Rows, Exists(t)', Exists(u)',
               tx'[t].group # None, tx'[u].group = tx'[t].group
        PROVE  u \in m.legs
    <3>1. t \in Rows /\ t \in used
      BY <2>1, <2>3, <2>8 DEF Knows, LocalState
    <3>2. t \in Rows \ S
      BY <1>2, <3>1
    <3>3. u \notin S
      BY <1>6, <2>8, <3>2
    <3>4. Exists(t) /\ Exists(u) /\ tx[t].group # None /\ tx[u].group = tx[t].group
      BY <1>2, <2>8, <3>2, <3>3
    <3> QED BY <2>3, <2>8, <3>4 DEF KnowsAlone
  <2>9. /\ l = "resolve" => m.old.pending
        /\ l = "resolve" /\ m.amount > 0 => m.group \in issued' /\ m.legs # {}
        /\ l = "fee" => m.group \in issued' /\ m.legs # {}
        /\ l = "undo" => m.row \in log'
    BY <1>1, <2>3 DEF KnowsAlone, Adds
  <2>10. KnowsAlone(l, m)'
    BY <2>4, <2>5, <2>6, <2>7, <2>8, <2>9 DEF KnowsAlone
  <2> QED BY <2>2, <2>10 DEF KnowsAlone
<1> QED BY <1>3, <1>5, <1>8, <1>9 DEF SerialInv

LEMMA NextAlone ==
  ASSUME IInv, SerialInv, OneAtATime', [Next]_vars
  PROVE  SerialInv'
<1>1. CASE UNCHANGED vars
  <2>1. FeesDue' = FeesDue /\ Ahead' = Ahead
    BY <1>1 DEF vars, FeesDue, Ahead
  <2>2. Tables' /\ FeesMade' /\ LegsEven'
    BY <1>1, <2>1, QuietTables DEF vars
  <2>3. ASSUME NEW q \in Requests PROVE KnowsAlone(pc[q], mem[q])'
    BY <1>1 DEF SerialInv, vars, KnowsAlone, Exists, Paired
  <2> QED BY <2>2, <2>3 DEF SerialInv
<1>2. CASE Post
  BY <1>2, PostAlone
<1>3. ASSUME NEW r \in Requests, Begin(r) PROVE SerialInv'
  BY <1>3, BeginAlone
<1>4. ASSUME NEW r \in Requests, Step(r) PROVE SerialInv'
  BY <1>4, UpdatesAlone, ReadsOwnAlone, ReadsOthersAlone, WriteOthersAlone, WriteResolveAlone,
     CreateFeeAlone, WriteRemoveAlone, WriteUndoAlone, UnlogAlone, RefuseAlone DEF Step
<1>5. ASSUME NEW r \in Requests, CutOff(r) PROVE SerialInv'
  BY <1>5, CutOffAlone
<1> QED BY <1>1, <1>2, <1>3, <1>4, <1>5 DEF Next

\* SerialInv is an invariant of the executions in which no two requests are
\* under way at once: what a lone request has read is what the tables hold,
\* and of the two sides of an entry it knows which it has still to write.
THEOREM Alone == Spec /\ []OneAtATime => []SerialInv
<1>1. Init /\ OneAtATime => SerialInv
  <2> SUFFICES ASSUME Init, OneAtATime PROVE SerialInv
    OBVIOUS
  <2>1. \A t \in Rows : ~Exists(t) /\ ~Paired(t)
    BY DEF Init, Exists, Paired
  <2>2. Tables /\ FeesMade /\ LegsEven
    BY <2>1 DEF Init, Tables, GroupsIssued, PendingApart, CreditsEven, LogNamesEntries,
                FeesMade, LegsEven, SameGroup
  <2>3. ASSUME NEW r \in Requests PROVE KnowsAlone(pc[r], mem[r])
    <3>1. pc[r] = "idle"
      BY DEF Init
    <3> QED BY <3>1 DEF KnowsAlone
  <2> QED BY <2>2, <2>3 DEF SerialInv
<1>2. IInv /\ SerialInv /\ OneAtATime' /\ [Next]_vars => SerialInv'
  BY NextAlone
<1> QED BY <1>1, <1>2, Invariance, PTL DEF Spec

\* Between requests the two sides of every entry agree, for any rows, groups,
\* parties and amounts, when requests neither overlap nor are cut off: the legs
\* of a transfer have one amount and one date, a collection of a group has its
\* fee, and its party is credited what the treasury received.
THEOREM AgreeAlone == ~MayFail => (Spec /\ []OneAtATime => []EntriesAgree)
<1> SUFFICES ASSUME ~MayFail PROVE Spec /\ []OneAtATime => []EntriesAgree
  OBVIOUS
<1>1. ASSUME SerialInv PROVE EntriesAgree
  <2>1. Tables /\ FeesMade /\ LegsEven
    BY <1>1 DEF SerialInv
  <2>2. AllIdle => FeesDue = {} /\ Ahead = {}
    BY DEF AllIdle, FeesDue, Ahead
  <2>3. LegsAgree
    BY <2>1, <2>2 DEF LegsAgree, LegsEven, SameGroup, Agree
  <2>4. FeesWithCollections
    BY <2>1, <2>2 DEF FeesWithCollections, FeesMade, HasFee
  <2>5. CreditIsCash
    BY <2>1 DEF CreditIsCash, Tables, CreditsEven
  <2> QED BY <2>3, <2>4, <2>5 DEF EntriesAgree
<1> QED BY <1>1, Alone, PTL

\* A collection is resolved once: when requests do not overlap, nobody moves
\* one that is not pending any more into the group of another fee, even after
\* requests that were cut off.
THEOREM ResolvedAlone == Spec /\ []OneAtATime => ResolvedOnce
<1> DEFINE Once == \A t \in Rows : Exists(t) /\ tx'[t] # None /\ ~tx[t].pending =>
                      tx'[t].group = tx[t].group
<1>1. ASSUME IInv, SerialInv, [Next]_vars PROVE Once \/ UNCHANGED vars
  <2>0. /\ TypeOK /\ RowsUsed /\ tx \in [Rows -> TransactionRow \cup {None}]
        /\ AllPrepared /\ \A q \in Requests : KnowsAlone(pc[q], mem[q])
    BY <1>1 DEF IInv, TypeOK, SerialInv
  <2>1. ASSUME \A t \in Rows : tx'[t] = tx[t] \/ tx'[t] = None \/ ~Exists(t) PROVE Once
    BY <2>1
  <2>2. CASE Post
    <3>1. PICK S \in SUBSET Rows : Adds(S)
      BY <1>1, <2>2, PostAdds DEF SerialInv
    <3> QED BY <2>0, <2>1, <3>1 DEF Adds, RowsUsed
  <2>3. ASSUME NEW r \in Requests, Begin(r) \/ CutOff(r) PROVE Once
    <3>1. tx' = tx
      BY <2>3 DEF Begin, BeginUpdate, BeginRemove, BeginUndo, BeginResolve, Start, NotFound,
                  CutOff, vars
    <3> QED BY <2>1, <3>1
  <2>4. ASSUME NEW r \in Requests, WriteUpdate(r) PROVE Once
    <3>1. pc[r] = "update" /\ Exists(mem[r].row)
      BY <2>4 DEF WriteUpdate
    <3>2. mem[r].row \in Rows /\ mem[r].old \in TransactionRow
      BY <2>0, <3>1 DEF AllPrepared, Prepared
    <3>3. PICK t, o : t = mem[r].row /\ o = mem[r].old
      OBVIOUS
    <3>4. PICK row \in Edits(tx[t], o) : tx' = [tx EXCEPT ![t] = row]
      BY <2>4, <3>3 DEF WriteUpdate
    <3>5. tx[t] \in TransactionRow
      BY <2>0, <3>1, <3>2, <3>3 DEF Exists
    <3>6. row.group = tx[t].group
      BY <3>2, <3>3, <3>5, EditKeeps
    <3> QED BY <2>0, <3>2, <3>3, <3>4, <3>6
  <2>5. ASSUME NEW r \in Requests, WriteOthers(r) PROVE Once
    <3>1. PICK m : m = mem[r]
      OBVIOUS
    <3>2. tx' = [u \in Rows |->
            IF u \in m.debits THEN [tx[u] EXCEPT !.date = m.date, !.debit = m.amount]
            ELSE IF u \in m.credits THEN [tx[u] EXCEPT !.date = m.date, !.credit = m.amount]
            ELSE tx[u]]
      BY <2>5, <3>1 DEF WriteOthers
    <3>3. ASSUME NEW t \in Rows, Exists(t) PROVE tx'[t].group = tx[t].group
      <4>1. tx[t] \in TransactionRow
        BY <2>0, <3>3 DEF Exists
      <4> QED BY <3>2, <4>1 DEF TransactionRow
    <3> QED BY <3>3
  <2>6. ASSUME NEW r \in Requests, WriteResolve(r) PROVE Once
    <3>1. pc[r] = "resolve"
      BY <2>6 DEF WriteResolve
    <3>2. mem[r].row \in Rows /\ tx[mem[r].row].pending
      BY <2>0, <3>1 DEF AllPrepared, Prepared, KnowsAlone
    <3>3. \A t \in Rows : t # mem[r].row => tx'[t] = tx[t]
      BY <2>0, <2>6 DEF WriteResolve
    <3> QED BY <3>2, <3>3
  <2>7. ASSUME NEW r \in Requests, CreateFee(r) PROVE Once
    <3>1. pc[r] = "fee" /\ \A t \in Rows : t \notin mem[r].legs => tx'[t] = tx[t]
      BY <2>7 DEF CreateFee
    <3>2. \A t \in mem[r].legs : ~Exists(t)
      BY <2>0, <3>1 DEF KnowsAlone
    <3> QED BY <2>1, <3>1, <3>2
  <2>8. ASSUME NEW r \in Requests, WriteRemove(r) \/ WriteUndo(r) PROVE Once
    <3>1. PICK S : tx' = Without(S)
      BY <2>8 DEF WriteRemove, WriteUndo
    <3> QED BY <2>1, <3>1 DEF Without
  <2>9. ASSUME NEW r \in Requests, ReadOwn(r) \/ ReadOthers(r) \/ Unlog(r) \/ Refuse(r) PROVE Once
    <3>1. tx' = tx
      BY <2>9 DEF ReadOwn, ReadOthers, Unlog, Refuse
    <3> QED BY <2>1, <3>1
  <2> HIDE DEF Once
  <2> QED BY <1>1, <2>2, <2>3, <2>4, <2>5, <2>6, <2>7, <2>8, <2>9 DEF Next, Step
<1>2. Spec /\ []OneAtATime => [][Once]_vars
  <2> HIDE DEF Once
  <2> QED BY <1>1, Alone, Invariance, PTL DEF Spec
<1> QED BY <1>2 DEF ResolvedOnce

=============================================================================
