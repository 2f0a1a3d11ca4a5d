------------------------------- MODULE Statements -------------------------------
(***************************************************************************)
(* What the program reads out of its log of movements: balances, the       *)
(* statement of a party and the one its client sees, the value in pounds   *)
(* of an account in dollars (first in, first out over the agent's rates),  *)
(* and the movements of a treasury.  Nothing of this is stored; every      *)
(* screen computes it again from the rows.                                 *)
(*                                                                         *)
(* The rows are given in the order of their creation.                      *)
(***************************************************************************)
EXTENDS Office, SequencesExt

CONSTANTS
    Holders,     \* parties; those of DollarHolders have their account in dollars
    DollarHolders,
    Boxes,       \* treasuries
    LastDate,
    Openings,    \* opening balances of a party, as a set of functions
    Postings,    \* what is posted at once: sequences of rows without their date
    MaxRows      \* bound of the model

StatementDates == 1 .. LastDate

\* a row of the log
BookRow == [party : Holders \cup {None}, date : Nat, debit : Nat, credit : Nat, agent : Nat, stamp : Nat,
            cashIn : Nat, cashOut : Nat, cashIn2 : Nat, box : Boxes \cup {None},
            box2 : Boxes \cup {None}, doc : Nat \cup {None}]

ASSUME StatementAssumption ==
    /\ DollarHolders \subseteq Holders /\ LastDate \in Nat /\ MaxRows \in Nat
    /\ Openings \subseteq [Holders -> Int]
    /\ IsFiniteSet(Holders) /\ IsFiniteSet(Boxes)
    /\ \A posting \in Postings :
        /\ posting \in Seq(BookRow)
        /\ \A i \in DOMAIN posting : posting[i].debit = 0 \/ posting[i].credit = 0
        \* the rows of a document are posted at once
        /\ \A i, j, k \in DOMAIN posting :
            i < j /\ j < k /\ posting[i].doc = posting[k].doc /\ posting[i].doc # None
            => posting[j].doc = posting[i].doc
    /\ None \notin Holders \cup Boxes \cup Nat

VARIABLES
    book,      \* the rows
    opened,    \* the opening balance of each party
    linked     \* the two parties share one statement

bookVars == <<book, opened, linked>>

Dated(posting, d) == [i \in DOMAIN posting |-> [posting[i] EXCEPT !.date = d]]

\* The document of a row is new, or was taken back before, unless the row is the commission
\* on it, or another that its party is owed.
PostRows(posting, d) ==
    /\ Len(book) + Len(posting) <= MaxRows
    /\ \A i \in DOMAIN posting, j \in DOMAIN book :
        posting[i].doc = None \/ posting[i].credit > 0 \/ posting[i].doc # book[j].doc
    /\ book' = book \o Dated(posting, d)
    /\ UNCHANGED <<opened, linked>>

Redate(i, d) ==
    /\ book[i].doc = None
    /\ book' = [book EXCEPT ![i].date = d]
    /\ UNCHANGED <<opened, linked>>

\* the domain of at, in the order of at
InOrder(at) ==
    [k \in 1 .. Cardinality(DOMAIN at) |->
        CHOOSE x \in DOMAIN at : Cardinality({y \in DOMAIN at : at[y] < at[x]}) = k - 1]

\* what a sequence has at S, in its order
RowsAt(rows, S) == LET order == InOrder([n \in S |-> n]) IN [k \in DOMAIN order |-> rows[order[k]]]

\* a document goes with all its rows
Unpost(i) ==
    /\ book' = RowsAt(book, {j \in DOMAIN book \ {i} : book[j].doc = None \/ book[j].doc # book[i].doc})
    /\ UNCHANGED <<opened, linked>>

StatementInit ==
    /\ book = <<>>
    /\ opened \in Openings
    /\ linked \in BOOLEAN

StatementNext ==
    \/ \E posting \in Postings, d \in StatementDates : PostRows(posting, d)
    \/ \E i \in DOMAIN book, d \in StatementDates : Redate(i, d)
    \/ \E i \in DOMAIN book : Unpost(i)

StatementSpec == StatementInit /\ [][StatementNext]_bookVars

-----------------------------------------------------------------------------
(* Balances.                                                               *)

\* orderBy date, createdAt
ByDate(S) == InOrder([n \in S |-> book[n].date * (Len(book) + 1) + n])
RowsOf(ps) == {n \in DOMAIN book : book[n].party \in ps}

Net(n) == book[n].debit - book[n].credit
OpenedBy(ps) == SumFunction([p \in ps |-> opened[p]])
NetOf(S) == SumFunction([n \in S |-> Net(n)])
BalanceOf(ps) == OpenedBy(ps) + NetOf(RowsOf(ps))

\* a linked pair has one statement, and the list shows its balance with both
Shared(p) == IF linked THEN Holders ELSE {p}
ListedBalance(p) == BalanceOf(Shared(p))

Treasury(x) ==
    SumFunction([n \in {m \in DOMAIN book : book[m].box = x} |-> book[n].cashIn - book[n].cashOut])
    + SumFunction([n \in {m \in DOMAIN book : book[m].box2 = x} |-> book[n].cashIn2])

\* a balance before any of the amounts, and after each of them
Running(base, amounts) ==
    LET run[k \in 0 .. Len(amounts)] == IF k = 0 THEN base ELSE run[k - 1] + amounts[k] IN run

-----------------------------------------------------------------------------
(* Dollars, first in, first out.                                           *)

\* the rates of the agent: those of the rows he supplied
AgentRows == ByDate({n \in DOMAIN book : book[n].agent > 0})

EarliestRate == IF AgentRows = <<>> THEN 0 ELSE book[AgentRows[1]].agent
LatestRate == IF AgentRows = <<>> THEN 0 ELSE book[AgentRows[Len(AgentRows)]].agent

RateAtDate(d) ==
    LET rows == AgentRows
        before == {k \in DOMAIN rows : book[rows[k]].date <= d} IN
    IF before = {} THEN EarliestRate ELSE book[rows[Max(before)]].agent

\* the agent's rate, then the one stamped on the row, then pounds paid per dollar;
\* 0 stands for none
DebitRate(t) ==
    IF t.agent > 0 THEN t.agent
    ELSE IF t.stamp > 0 THEN t.stamp
    ELSE IF t.cashOut > 0 /\ t.debit > 0 /\ t.cashOut # t.debit THEN t.cashOut \div t.debit ELSE 0

Or(rate, other) == IF rate > 0 THEN rate ELSE other

\* of rows in order: the last rate that one of them carries
LastRateOf(rows) ==
    LET priced == {k \in DOMAIN rows : book[rows[k]].debit > 0 /\ DebitRate(book[rows[k]]) > 0} IN
    IF priced = {} THEN LatestRate ELSE DebitRate(book[rows[Max(priced)]])

Positive(n) == IF n > 0 THEN n ELSE 0

\* Demands meet layers, the oldest of both first: at <<j, i>> demand j comes to layer i, and
\* what is still missing of it is compared with what is left of the layer.  A gap that is
\* positive goes on to the next layer, and one that is negative waits for the next demand.
GapsBackwards(in, out) ==   \* mutant: the newest layer first
    LET gap[c \in (DOMAIN out) \X (DOMAIN in)] ==
            (IF c[2] + 1 \notin DOMAIN in THEN out[c[1]] ELSE Positive(gap[<<c[1], c[2] + 1>>]))
            - (IF c[1] = 0 THEN in[c[2]] ELSE Positive(-gap[<<c[1] - 1, c[2]>>]))
    IN gap
Gaps(in, out) ==
    LET gap[c \in (DOMAIN out) \X (DOMAIN in)] ==
            (IF c[2] = 0 THEN out[c[1]] ELSE Positive(gap[<<c[1], c[2] - 1>>]))
            - (IF c[1] = 0 THEN in[c[2]] ELSE Positive(-gap[<<c[1] - 1, c[2]>>]))
    IN gap

\* computeUsdFifo for one party.  0 is its opening balance and k its k-th row; what brings in
\* no dollar is a layer of none, what takes none out a demand of none.  Of every demand: what
\* it took (egp) and what found no layer (unpriced)
UsdFifo(p) ==
    LET rows == ByDate(RowsOf({p}))
        items == 0 .. Len(rows)
        last == LastRateOf(rows)
        in == [k \in items |-> IF k = 0 THEN Positive(opened[p]) ELSE book[rows[k]].debit]
        out == [k \in items |-> IF k = 0 THEN Positive(-opened[p]) ELSE book[rows[k]].credit]
        rate == [k \in items |-> Or(IF k = 0 THEN EarliestRate
                                    ELSE Or(DebitRate(book[rows[k]]), RateAtDate(book[rows[k]].date)), last)]
        gap == Gaps(in, out)
        took(j, i) == (IF i = 0 THEN out[j] ELSE Positive(gap[<<j, i - 1>>])) - Positive(gap[<<j, i>>])
        unpriced == [j \in items |-> Positive(gap[<<j, Len(rows)>>])]
        left == [i \in items |-> Positive(-gap[<<Len(rows), i>>])]
    IN [rows |-> rows, last |-> last, in |-> in, out |-> out, rate |-> rate, left |-> left,
        egp |-> [j \in items |-> SumFunction([i \in items |-> took(j, i) * rate[i]])],
        unpriced |-> unpriced,
        usd |-> opened[p] + NetOf(RowsOf({p})),
        balance |-> SumFunction([i \in items |-> left[i] * rate[i]]) - SumFunction(unpriced) * last]

\* egpOf: what a row adds to the balance in pounds
Signed(fifo, k) ==
    IF fifo.out[k] > 0 THEN -(fifo.egp[k] + fifo.unpriced[k] * fifo.last) ELSE fifo.in[k] * fifo.rate[k]

\* the statement's balance in pounds, of a party that is not linked
BalanceInPounds(p, fifo) ==
    Running(opened[p] * fifo.rate[0], [k \in DOMAIN fifo.rows |-> Signed(fifo, k)])[Len(fifo.rows)]

-----------------------------------------------------------------------------
(* Statements, from a date to a date.                                      *)

Statement(ps, from, to) ==
    LET order == ByDate(RowsOf(ps))
        run == Running(OpenedBy(ps), [k \in DOMAIN order |-> Net(order[k])])
        day(k) == book[order[k]].date
        lines == RowsAt([k \in DOMAIN order |->
                        [doc |-> book[order[k]].doc, debit |-> book[order[k]].debit,
                         credit |-> book[order[k]].credit, balance |-> run[k]]],
                      {k \in DOMAIN order : from <= day(k) /\ day(k) <= to})
        opening == run[Max({0} \cup {k \in DOMAIN order : day(k) < from})]
    IN [opening |-> opening, lines |-> lines,
        closing |-> IF lines = <<>> THEN opening ELSE lines[Len(lines)].balance]

\* The client's: the newest line first, the legs of a document in one line, at the
\* place and with the balance of the newest; a receipt is nobody's document.
KeyOf(l) == IF l.credit > 0 THEN None ELSE l.doc

ClientLines(lines) ==
    LET Legs(i) == {j \in DOMAIN lines :
                      j = i \/ (KeyOf(lines[i]) # None /\ KeyOf(lines[j]) = KeyOf(lines[i]))}
        merged == [i \in DOMAIN lines |->
            [lines[i] EXCEPT !.debit = SumFunction([j \in Legs(i) |-> lines[j].debit]),
                             !.credit = SumFunction([j \in Legs(i) |-> lines[j].credit])]]
    IN Reverse(RowsAt(merged, {i \in DOMAIN lines : \A j \in Legs(i) : j <= i}))

\* what a row moves in a treasury
CashOf(x, n) ==
    (IF book[n].box = x THEN book[n].cashIn - book[n].cashOut ELSE 0)
    + (IF book[n].box2 = x THEN book[n].cashIn2 ELSE 0)

\* accountMovements; primary leaves transfers to the account of their first side
AccountMovements(x, primary) ==
    LET order == ByDate({n \in DOMAIN book : book[n].box = x \/ book[n].box2 = x})
        run == Running(0, [k \in DOMAIN order |-> CashOf(x, order[k])])
    IN RowsAt([k \in DOMAIN order |-> [row |-> order[k], balance |-> run[k]]],
            {k \in DOMAIN order : primary => book[order[k]].box = x})

-----------------------------------------------------------------------------
(* Properties.                                                             *)

\* Every column has its type.
StatementTypeOK ==
    /\ Len(book) <= MaxRows
    /\ \A i \in DOMAIN book :
        /\ book[i].party \in Holders \cup {None} /\ book[i].date \in StatementDates
        /\ {book[i].debit, book[i].credit, book[i].cashIn, book[i].cashOut, book[i].cashIn2} \subseteq Nat
        /\ {book[i].box, book[i].box2} \subseteq Boxes \cup {None}
    /\ opened \in Openings

\* The layers, dollar by dollar: the n-th dollar that is owed takes the n-th that came in
\* ("the oldest layer first, whatever the order of dates between payment and invoice",
\* usd-fifo.ts:4-8); no dollar is lost, taken twice, given a price of another, or left
\* without one while some layer still has it.
FifoInOrder(fifo) ==
    LET items == 0 .. Len(fifo.rows)
        cameIn == Running(0, [k \in 1 .. Len(fifo.rows) + 1 |-> fifo.in[k - 1]])
        wentOut == Running(0, [k \in 1 .. Len(fifo.rows) + 1 |-> fifo.out[k - 1]])
        source(n) == {i \in items : cameIn[i] < n /\ n <= cameIn[i + 1]}
        price(n) == IF source(n) = {} THEN 0 ELSE fifo.rate[CHOOSE i \in source(n) : TRUE]
        met(k) == wentOut[k] + 1 .. wentOut[k + 1]
    IN
    /\ \A k \in items :
        /\ fifo.egp[k] = SumFunction([n \in met(k) |-> price(n)])
        /\ fifo.unpriced[k] = Cardinality({n \in met(k) : source(n) = {}})
    /\ fifo.usd = SumFunction(fifo.left) - SumFunction(fifo.unpriced)

\* a document of these lines was paid between two of its legs
Interrupted(lines) ==
    \E i, j, k \in DOMAIN lines :
        /\ i < j /\ j < k /\ KeyOf(lines[i]) # None /\ KeyOf(lines[k]) = KeyOf(lines[i])
        /\ KeyOf(lines[j]) # KeyOf(lines[i]) /\ lines[j].doc = lines[i].doc

\* A statement between any two dates: it begins with what was before, every line has the
\* balance of the line before plus its own amount, and it ends with what was until then; and
\* so does the statement of the client, whose lines are documents, unless one of them is
\* interrupted.
StatementAdds(ps) ==
    \A from, to \in StatementDates \cup {0} :
        LET s == Statement(ps, from, to)
            c == ClientLines(s.lines)
            day(n) == book[n].date
            follows(newer, older) == newer.balance = older.balance + newer.debit - newer.credit
        IN
        /\ s.opening = OpenedBy(ps) + NetOf({n \in RowsOf(ps) : day(n) < from})
        /\ from <= to => s.closing = OpenedBy(ps) + NetOf({n \in RowsOf(ps) : day(n) <= to})
        /\ \A i \in DOMAIN s.lines :
              s.lines[i].balance = s.lines[i].debit - s.lines[i].credit
                                   + (IF i = 1 THEN s.opening ELSE s.lines[i - 1].balance)
        /\ c # <<>> => c[1].balance = s.closing
        /\ ~Interrupted(s.lines) =>
            /\ c # <<>> => follows(c[Len(c)], [balance |-> s.opening])
            /\ \A i \in 1 .. Len(c) - 1 : follows(c[i], c[i + 1])

\* What different screens say of one account agrees: the statement with the list, the
\* statement of the client with the office's, the lines of a treasury with its balance,
\* the statement in pounds with the balance in pounds ("all screens come out with the
\* value of the cycle", balances.repository.ts:73-75), unless the account was opened with
\* a debt; the feed of all treasuries has every movement once.
StatementsAgree ==
    /\ \A ps \in {Shared(p) : p \in Holders} : StatementAdds(ps)
    /\ \A p \in Holders : Statement(Shared(p), 0, LastDate).closing = ListedBalance(p)
    /\ \A p \in DollarHolders :
        LET fifo == UsdFifo(p) IN
        /\ FifoInOrder(fifo)
        /\ opened[p] >= 0 => BalanceInPounds(p, fifo) = fifo.balance
    /\ \A x \in Boxes :
        LET lines == AccountMovements(x, FALSE) IN
        IF lines = <<>> THEN Treasury(x) = 0 ELSE lines[Len(lines)].balance = Treasury(x)
    /\ SumFunction([x \in Boxes |-> Len(AccountMovements(x, TRUE))])
          = Cardinality({n \in DOMAIN book : book[n].box # None})

=============================================================================
