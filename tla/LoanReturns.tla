------------------------------ MODULE LoanReturns ------------------------------
(***************************************************************************)
(* Goods lent from a warehouse (Loan) and their coming back: as goods, or  *)
(* as money, in which case a row of Transaction (cash, or a debt of the    *)
(* borrower) is written beside the LoanReturn that names it.               *)
(*                                                                         *)
(* returnLoan checks what remains, then writes the money row, the return   *)
(* and the counters of the loan in three commits; the counters are those   *)
(* that were read plus the quantity.  Deleting the money row rolls its     *)
(* return back (deleteTransactionAndEffects), and removing a loan does     *)
(* that for each of its returns first.                                     *)
(***************************************************************************)
EXTENDS Office, FiniteSetsExt

CONSTANTS
    Loans,       \* ids of Loan rows; each is used once
    Ids,         \* ids of returns; the money row of a return has the same id here
    Quantities   \* quantities lent and returned

ASSUME LoanAssumption ==
    /\ Quantities \subseteq Nat \ {0}
    /\ None \notin Loans \cup Ids
    /\ None \notin [qty : Nat, goods : Int, cash : Int, status : {"OPEN", "RETURNED"}]
    /\ None \notin [loan : Loans, kind : {"goods", "money"}, qty : Nat]

VARIABLES
    loan,        \* the Loan of each id, None while there is none
    opened,      \* loan ids given out so far
    ret,         \* the LoanReturn of each id, None while there is none
    money,       \* the ids whose Transaction row exists
    used,        \* ids of returns given out so far
    loanPc,      \* where each request is
    loanMem,     \* what each request has read
    loanOverlap, \* requests may be in progress together (fixed from the start)
    loanCuts     \* requests cut off so far

loanTraffic == <<loanOverlap, loanCuts>>
loanVars == <<loan, opened, ret, money, used, loanPc, loanMem, loanTraffic>>

LoanBlank == [loan |-> None, old |-> None, of |-> None, kind |-> "goods", qty |-> 0,
              id |-> None, todo |-> {}]

Lent(l) == loan[l] # None
Open(l) == Lent(l) /\ loan[l].status = "OPEN"

LoanGoto(r, l) == loanPc' = [loanPc EXCEPT ![r] = l]
LoanRemember(r, m) == loanMem' = [loanMem EXCEPT ![r] = m]
LoanEnd(r) == LoanGoto(r, "idle") /\ LoanRemember(r, LoanBlank)

MayBeginLoan(r) == loanPc[r] = "idle" /\ (loanOverlap \/ \A q \in Requests : loanPc[q] = "idle")

CreateLoan(l, q) ==
    /\ l \notin opened
    /\ loan' = [loan EXCEPT ![l] = [qty |-> q, goods |-> 0, cash |-> 0, status |-> "OPEN"]]
    /\ opened' = opened \cup {l}
    /\ UNCHANGED <<ret, money, used, loanPc, loanMem, loanTraffic>>

-----------------------------------------------------------------------------
(* returnLoan                                                              *)

RemainingOfGoods(o) == o.qty - o.goods   \* mutant: what came back as money is forgotten
Remaining(o) == o.qty - o.goods - o.cash

BeginReturn(r, l, kind, q) ==
    /\ MayBeginLoan(r)
    /\ Open(l)
    /\ q <= Remaining(loan[l])
    /\ \E u \in Ids \ used :
        /\ used' = used \cup {u}
        /\ LoanRemember(r, [LoanBlank EXCEPT !.loan = l, !.old = loan[l], !.kind = kind,
                                     !.qty = q, !.id = u])
    /\ LoanGoto(r, IF kind = "money" THEN "pay" ELSE "record")
    /\ UNCHANGED <<loan, opened, ret, money, loanTraffic>>

PayReturn(r) ==
    /\ loanPc[r] = "pay"
    /\ money' = money \cup {loanMem[r].id}
    /\ LoanGoto(r, "record")
    /\ UNCHANGED <<loan, opened, ret, used, loanMem, loanTraffic>>

RecordReturn(r) ==
    LET m == loanMem[r] IN
    /\ loanPc[r] = "record"
    /\ Lent(m.loan)
    /\ ret' = [ret EXCEPT ![m.id] = [loan |-> m.loan, kind |-> m.kind, qty |-> m.qty]]
    /\ LoanGoto(r, "count")
    /\ UNCHANGED <<loan, opened, money, used, loanMem, loanTraffic>>

\* the new counters come from the loan as it was read
Counted(row, m) ==
    LET goods == m.old.goods + (IF m.kind = "goods" THEN m.qty ELSE 0)
        cash  == m.old.cash  + (IF m.kind = "money" THEN m.qty ELSE 0)
    IN [row EXCEPT !.goods = goods, !.cash = cash,
                   !.status = IF goods + cash >= m.old.qty THEN "RETURNED" ELSE @]

CountReturn(r) ==
    LET m == loanMem[r] IN
    /\ loanPc[r] = "count"
    /\ Lent(m.loan)
    /\ loan' = [loan EXCEPT ![m.loan] = Counted(@, m)]
    /\ LoanEnd(r)
    /\ UNCHANGED <<opened, ret, money, used, loanTraffic>>

-----------------------------------------------------------------------------
(* deleteTransactionAndEffects, from the transactions screen or for every  *)
(* money row of a loan that is removed.  It is one data base transaction,  *)
(* but it reads the loan before it writes it.                              *)

Paid(l) == {u \in Ids : ret[u] # None /\ ret[u].loan = l /\ ret[u].kind = "money"}

BeginRemove(r, l) ==
    /\ MayBeginLoan(r)
    /\ Open(l)
    /\ LoanGoto(r, "clean")
    /\ LoanRemember(r, [LoanBlank EXCEPT !.loan = l, !.todo = Paid(l)])
    /\ UNCHANGED <<loan, opened, ret, money, used, loanTraffic>>

BeginDeleteMoney(r, u) ==
    /\ MayBeginLoan(r)
    /\ u \in money
    /\ LoanGoto(r, "clean")
    /\ LoanRemember(r, [LoanBlank EXCEPT !.todo = {u}])
    /\ UNCHANGED <<loan, opened, ret, money, used, loanTraffic>>

Found(u) == IF ret[u] = None THEN None ELSE loan[ret[u].loan]

CascadeRead(r, u) ==
    /\ loanPc[r] = "clean"
    /\ u \in loanMem[r].todo
    /\ IF u \in money
       THEN /\ LoanGoto(r, "cascade")
            /\ IF Found(u) = None
               THEN LoanRemember(r, [loanMem[r] EXCEPT !.id = u, !.old = None])
               ELSE LoanRemember(r, [loanMem[r] EXCEPT !.id = u, !.old = Found(u),
                                               !.of = ret[u].loan, !.qty = ret[u].qty])
       ELSE LoanRemember(r, [loanMem[r] EXCEPT !.todo = @ \ {u}]) /\ UNCHANGED loanPc
    /\ UNCHANGED <<loan, opened, ret, money, used, loanTraffic>>

AtLeastZero(n) == IF n < 0 THEN 0 ELSE n

\* mutants: no Math.max; the loan stays closed
RolledBackUnclamped(row, old, q) ==
    [row EXCEPT !.goods = old.goods, !.cash = old.cash - q, !.status = "OPEN"]
RolledBackClosed(row, old, q) ==
    [row EXCEPT !.goods = old.goods, !.cash = AtLeastZero(old.cash - q)]
RolledBack(row, old, q) ==
    [row EXCEPT !.goods = old.goods, !.cash = AtLeastZero(old.cash - q), !.status = "OPEN"]

CascadeWrite(r) ==
    LET m == loanMem[r]
        u == m.id
    IN
    /\ loanPc[r] = "cascade"
    /\ IF m.old = None
       THEN UNCHANGED <<loan, ret>>
       ELSE /\ ret[u] # None /\ Lent(m.of)
            /\ ret' = [ret EXCEPT ![u] = None]
            /\ loan' = [loan EXCEPT ![m.of] = RolledBack(@, m.old, m.qty)]
    /\ money' = money \ {u}
    /\ LoanGoto(r, "clean")
    /\ LoanRemember(r, [m EXCEPT !.todo = @ \ {u}])
    /\ UNCHANGED <<opened, used, loanTraffic>>

\* LoanReturn rows go with their loan (onDelete: Cascade), money rows do not
DeleteLoan(r) ==
    LET l == loanMem[r].loan IN
    /\ loanPc[r] = "clean"
    /\ loanMem[r].todo = {}
    /\ l # None => Lent(l)
    /\ IF l = None
       THEN UNCHANGED <<loan, ret>>
       ELSE /\ loan' = [loan EXCEPT ![l] = None]
            /\ ret' = [u \in Ids |-> IF ret[u] # None /\ ret[u].loan = l THEN None ELSE ret[u]]
    /\ LoanEnd(r)
    /\ UNCHANGED <<opened, money, used, loanTraffic>>

-----------------------------------------------------------------------------
\* a statement that finds its row gone fails, and so does the request
LoanRefused(r) ==
    \/ loanPc[r] \in {"record", "count"} /\ ~Lent(loanMem[r].loan)
    \/ loanPc[r] = "cascade" /\ loanMem[r].old # None /\ (ret[loanMem[r].id] = None \/ ~Lent(loanMem[r].of))
    \/ loanPc[r] = "clean" /\ loanMem[r].todo = {} /\ loanMem[r].loan # None /\ ~Lent(loanMem[r].loan)

LoanRefuse(r) ==
    /\ LoanRefused(r)
    /\ LoanEnd(r)
    /\ UNCHANGED <<loan, opened, ret, money, used, loanTraffic>>

\* a request for a loan that does not exist, or has been returned, changes nothing
LoanReject(r, l) == loanPc[r] = "idle" /\ ~Open(l) /\ UNCHANGED loanVars

LoanCutOff(r) ==
    /\ loanCuts < MaxCuts
    /\ loanPc[r] # "idle"
    /\ loanCuts' = loanCuts + 1
    /\ LoanEnd(r)
    /\ UNCHANGED <<loan, opened, ret, money, used, loanOverlap>>

LoanBegin(r) ==
    \/ \E l \in Loans :
        \/ BeginRemove(r, l)
        \/ \E kind \in {"goods", "money"}, q \in Quantities : BeginReturn(r, l, kind, q)
        \/ LoanReject(r, l)
    \/ \E u \in Ids : BeginDeleteMoney(r, u)

LoanStep(r) ==
    \/ PayReturn(r) \/ RecordReturn(r) \/ CountReturn(r)
    \/ \E u \in Ids : CascadeRead(r, u)
    \/ CascadeWrite(r) \/ DeleteLoan(r) \/ LoanRefuse(r)

LoanInit ==
    /\ loan = [l \in Loans |-> None] /\ opened = {}
    /\ ret = [u \in Ids |-> None] /\ money = {} /\ used = {}
    /\ loanPc = [r \in Requests |-> "idle"]
    /\ loanMem = [r \in Requests |-> LoanBlank]
    /\ loanOverlap \in BOOLEAN /\ loanCuts = 0

LoanNext ==
    \/ \E l \in Loans, q \in Quantities : CreateLoan(l, q)
    \/ \E r \in Requests : LoanBegin(r) \/ LoanStep(r) \/ LoanCutOff(r)

LoanSpec == LoanInit /\ [][LoanNext]_loanVars

-----------------------------------------------------------------------------
(* Properties.                                                             *)

LoanRow == [qty : Nat, goods : Nat, cash : Nat, status : {"OPEN", "RETURNED"}]

LoanLocal ==
    [loan : Loans \cup {None}, old : LoanRow \cup {None}, of : Loans \cup {None},
     kind : {"goods", "money"}, qty : Nat, id : Ids \cup {None}, todo : SUBSET Ids]

\* Every column and every local of a request has its type; in particular no
\* roll-back takes a counter below zero, whatever was counted before it.
LoanTypeOK ==
    /\ loan \in [Loans -> LoanRow \cup {None}]
    /\ opened \subseteq Loans
    /\ ret \in [Ids -> [loan : Loans, kind : {"goods", "money"}, qty : Nat] \cup {None}]
    /\ money \subseteq Ids /\ used \subseteq Ids
    /\ loanPc \in [Requests -> {"idle", "pay", "record", "count", "clean", "cascade"}]
    /\ loanMem \in [Requests -> LoanLocal]
    /\ loanOverlap \in BOOLEAN /\ loanCuts \in Nat

\* The counters of a loan, from which the stock is computed, never exceed what
\* was lent: both are always written from one reading of the loan, so not even
\* returns, deletions and crashes in any order can add up to more.
CountersWithinLoan == \A l \in Loans : Lent(l) => loan[l].goods + loan[l].cash <= loan[l].qty

ReturnsOf(l, kind) == {u \in Ids : ret[u] # None /\ ret[u].loan = l /\ ret[u].kind = kind}
QuantityOf(rows, ids) == MapThenSumSet(LAMBDA u : rows[u].qty, ids)
Returned(l, kind) == QuantityOf(ret, ReturnsOf(l, kind))

\* One request at a time: so far without, or also with, one that was cut off.
LoansAlone == ~loanOverlap
LoansCalm  == ~loanOverlap /\ loanCuts = 0 /\ \A r \in Requests : loanPc[r] = "idle"

\* Of requests that come one at a time: the counters are the sums of the
\* recorded returns, and a loan is closed exactly when all of it has come back,
\* through any sequence of returns and deletions of their money.
CountersMatchReturns ==
    LoansCalm => \A l \in Loans : Lent(l) =>
        /\ loan[l].goods = Returned(l, "goods")
        /\ loan[l].cash = Returned(l, "money")
        /\ loan[l].status = "RETURNED" <=> loan[l].goods + loan[l].cash = loan[l].qty

\* The money of a return goes with its return: "clean up any cash/debt return
\* transactions before the DB cascades away their LoanReturn rows"
\* (loans.service.ts:131).  It holds of requests that come one at a time.
MoneyHasReturn == LoansCalm => \A u \in money : ret[u] # None

\* Wherever a request that is alone is cut off, a recorded return has its money.
ReturnsHaveMoney ==
    LoansAlone => \A u \in Ids : ret[u] # None /\ ret[u].kind = "money" => u \in money

\* Wherever a request that is alone is cut off, a loan counts no more than was
\* recorded.
CountersBehindReturns ==
    LoansAlone => \A l \in Loans : Lent(l) =>
        /\ loan[l].goods <= Returned(l, "goods")
        /\ loan[l].cash <= Returned(l, "money")

\* The four of them: a loan, its returns and their money tell one story, of
\* requests one at a time, and where one was cut off nothing is counted that
\* was not recorded and paid.
ReturnsCounted ==
    CountersMatchReturns /\ MoneyHasReturn /\ ReturnsHaveMoney /\ CountersBehindReturns

=============================================================================
