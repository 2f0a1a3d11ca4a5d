-------------------------------- MODULE Invoices --------------------------------
(***************************************************************************)
(* Invoices, the ledger rows (Transaction) they post, and the returns that *)
(* refer to them.                                                          *)
(*                                                                         *)
(* Every write is one data base transaction at READ COMMITTED: what it     *)
(* writes appears when it commits, but what it reads, or deletes, is what  *)
(* was committed when that statement ran.  update deletes the rows of the  *)
(* invoice, posts those of its new version and the commission it read;     *)
(* updateCommission deletes the rows of type commission and posts one.     *)
(***************************************************************************)
EXTENDS Office, FiniteSetsExt

CONSTANTS
    InvoiceIds,  \* ids of Invoice rows; each is used once
    ReturnIds,   \* ids of Return rows; each is used once
    Parties,
    Versions,    \* what the form of an invoice may hold
    ManualNos,   \* numbers typed in by hand
    Sent,        \* quantities that come back
    MaxAttempt,  \* how often create tries again
    MaxBegun     \* bound of the model: requests begun where they may overlap

VersionType ==
    [party : Parties, items : Nat, charges : Nat, discount : Nat, paid : Nat,
     foreign : BOOLEAN,               \* the treasury has another currency than the party
     fake : BOOLEAN,
     owner : Parties \cup {None}]     \* whom the commission of an item is due to

ASSUME InvoiceAssumption ==
    /\ Versions \subseteq VersionType
    /\ ManualNos \subseteq Nat /\ Sent \subseteq Nat
    /\ MaxAttempt \in Nat /\ MaxBegun \in Nat
    /\ None \notin Parties \cup InvoiceIds \cup ReturnIds \cup Versions
    /\ None \notin [no : Nat, v : Versions, commission : Parties \cup {None}]
    /\ None \notin [of : InvoiceIds \cup {None}, qty : Nat]

VARIABLES
    invoice,      \* the Invoice of each id, None while there is none
    entry,        \* the Transaction rows of invoices, each with the requests
                  \* whose delete statement, not yet committed, has taken it
    slip,         \* the Return of each id, None while there is none
    issued,       \* ids given out so far
    struck,       \* invoices of which a row was deleted since their last update
    docPc,        \* where each request is
    docMem,       \* what each request has read
    docOverlap,   \* requests may be in progress together (fixed from the start)
    docBegun      \* requests begun so far, counted where they may overlap

docData == <<invoice, entry, slip, issued, struck>>
docTraffic == <<docOverlap, docBegun>>
docVars == <<docData, docPc, docMem, docTraffic>>

BlankDoc == [doc |-> None, slip |-> None, v |-> None, no |-> 0, auto |-> FALSE, tries |-> 0,
             to |-> None, qty |-> 0]

Issued(d) == invoice[d] # None

DocGoto(r, l) == docPc' = [docPc EXCEPT ![r] = l]
DocRemember(r, m) == docMem' = [docMem EXCEPT ![r] = m]
DocEnd(r) == DocGoto(r, "idle") /\ DocRemember(r, BlankDoc)
NoneUnderWay == \A q \in Requests : docPc[q] = "idle"
EnterDoc(r) ==
    /\ docPc[r] = "idle"
    /\ IF docOverlap THEN docBegun < MaxBegun /\ docBegun' = docBegun + 1
                     ELSE NoneUnderWay /\ UNCHANGED docBegun
    /\ UNCHANGED docOverlap

-----------------------------------------------------------------------------
(* The ledger rows of a version (buildTxns).                               *)

Smaller(a, b) == IF a < b THEN a ELSE b

\* the discount as the service caps it, and the part of it the goods bear
Discount(v) == Smaller(v.discount, v.items + v.charges)
OfGoods(v) == Smaller(Discount(v), v.items)

Line(kind, party, amount, foreign) ==
    [kind |-> kind, party |-> party, amount |-> amount, foreign |-> foreign]

GoodsNet(v) == v.items - OfGoods(v)
ChargesNet(v) == v.charges - (Discount(v) - OfGoods(v))

Written(v) ==
    [goods |-> GoodsNet(v) # 0 \/ v.charges = 0, charges |-> v.charges # 0,
     paid |-> v.paid > 0, itemFee |-> v.owner # None]

Lines(v) ==
    IF v.fake THEN {}
    ELSE {l \in {Line("goods", v.party, GoodsNet(v), FALSE),
                 Line("charges", v.party, ChargesNet(v), FALSE),
                 Line("paid", v.party, v.paid, v.foreign),
                 Line("itemFee", v.owner, 1, FALSE)} : Written(v)[l.kind]}

InvoiceFee(p) == Line("invoiceFee", p, 1, FALSE)

\* the rows of type commission, whoever wrote them
Fees == {"itemFee", "invoiceFee"}

\* Rows that are equal and share the requests that delete them have one fate
\* and are kept once.
Posted(d, lines) == {[of |-> d, line |-> l, takers |-> {}] : l \in lines}
RowsOf(d) == {e \in entry : e.of = d}

Take(r, rows) ==
    entry' = (entry \ rows) \cup {[e EXCEPT !.takers = @ \cup {r}] : e \in rows}
\* the rows that stay when r commits
Left(r) == {e \in entry : r \notin e.takers}
Released(r) == {[e EXCEPT !.takers = @ \ {r}] : e \in entry}

-----------------------------------------------------------------------------
(* Numbers: one more than the largest of the party (nextNo), or what was   *)
(* typed in.                                                               *)

Numbers(p) == {invoice[d].no : d \in {e \in InvoiceIds : Issued(e) /\ invoice[e].v.party = p}}

\* @@unique([partyId, no])
Taken(p, no, d) ==
    \E e \in InvoiceIds \ {d} : Issued(e) /\ invoice[e].v.party = p /\ invoice[e].no = no

-----------------------------------------------------------------------------
(* create                                                                  *)

\* assertCashCurrency, of money that is new
WrongCash(v) == ~v.fake /\ v.paid > 0 /\ v.foreign

BeginCreateInvoice(r, v, no) ==
    /\ EnterDoc(r)
    /\ ~WrongCash(v)
    /\ \E d \in InvoiceIds \ issued :
        /\ issued' = issued \cup {d}
        /\ DocRemember(r, [BlankDoc EXCEPT !.doc = d, !.v = v, !.no = no, !.auto = (no = 0)])
    /\ DocGoto(r, IF no = 0 THEN "number" ELSE "insert")
    /\ UNCHANGED <<invoice, entry, slip, struck>>

ReadNumber(r) ==
    LET numbers == {0} \cup Numbers(docMem[r].v.party) IN
    /\ docPc[r] = "number"
    /\ \E max \in numbers :
        /\ \A n \in numbers : n <= max
        /\ DocRemember(r, [docMem[r] EXCEPT !.no = max + 1])
    /\ DocGoto(r, "insert")
    /\ UNCHANGED <<docData, docTraffic>>

InsertInvoice(r) ==
    LET m == docMem[r] IN
    /\ docPc[r] = "insert"
    /\ ~Taken(m.v.party, m.no, m.doc)
    /\ invoice' = [invoice EXCEPT ![m.doc] = [no |-> m.no, v |-> m.v, commission |-> None]]
    /\ entry' = entry \cup Posted(m.doc, Lines(m.v))
    /\ DocEnd(r)
    /\ UNCHANGED <<slip, issued, struck, docTraffic>>

\* an automatic number that was taken meanwhile is read again
RetryInvoice(r) ==
    LET m == docMem[r] IN
    /\ docPc[r] = "insert"
    /\ Taken(m.v.party, m.no, m.doc)
    /\ IF m.auto /\ m.tries < MaxAttempt
       THEN DocGoto(r, "number") /\ DocRemember(r, [m EXCEPT !.tries = @ + 1])
       ELSE DocEnd(r)
    /\ UNCHANGED <<docData, docTraffic>>

-----------------------------------------------------------------------------
(* update                                                                  *)

\* money that was there before, in this treasury and from this party, is not
\* looked at again
SamePaid(old, v) == old.paid = v.paid /\ old.foreign = v.foreign /\ old.party = v.party

BeginUpdateInvoice(r, d, v) ==
    /\ EnterDoc(r)
    /\ Issued(d)
    /\ WrongCash(v) => SamePaid(invoice[d].v, v)
    /\ DocRemember(r, [BlankDoc EXCEPT !.doc = d, !.v = v, !.no = invoice[d].no,
                                       !.to = invoice[d].commission])
    /\ DocGoto(r, "clear")
    /\ UNCHANGED docData

ClearRows(r) ==
    /\ docPc[r] = "clear"
    /\ Take(r, RowsOf(docMem[r].doc))
    /\ DocGoto(r, "rebuild")
    /\ UNCHANGED <<invoice, slip, issued, struck, docMem, docTraffic>>

\* the commission goes to the party that was read before the rows were deleted
RebuiltLines(m) == Lines(m.v)   \* mutant: the commission is not posted again
Rebuilt(m) ==
    Lines(m.v) \cup (IF m.v.fake \/ m.to = None THEN {} ELSE {InvoiceFee(m.to)})

RebuildInvoice(r) ==
    LET m == docMem[r] IN
    /\ docPc[r] = "rebuild"
    /\ Issued(m.doc)
    /\ ~Taken(m.v.party, m.no, m.doc)
    /\ invoice' = [invoice EXCEPT ![m.doc].v = m.v]
    /\ entry' = Left(r) \cup Posted(m.doc, Rebuilt(m))
    /\ struck' = struck \ {m.doc}
    /\ DocEnd(r)
    /\ UNCHANGED <<slip, issued, docTraffic>>

-----------------------------------------------------------------------------
(* updateCommission; p is None when the commission is taken away           *)

BeginCommission(r, d, p) ==
    /\ EnterDoc(r)
    /\ Issued(d)
    /\ DocRemember(r, [BlankDoc EXCEPT !.doc = d, !.to = p])
    /\ DocGoto(r, "fees")
    /\ UNCHANGED docData

FeesOfAll(d) == RowsOf(d)   \* mutant: rows of every type
FeesOf(d) == {e \in RowsOf(d) : e.line.kind \in Fees}

ClearFees(r) ==
    /\ docPc[r] = "fees"
    /\ Take(r, FeesOf(docMem[r].doc))
    /\ DocGoto(r, "award")
    /\ UNCHANGED <<invoice, slip, issued, struck, docMem, docTraffic>>

AwardCommission(r) ==
    LET m == docMem[r] IN
    /\ docPc[r] = "award"
    /\ Issued(m.doc)
    /\ invoice' = [invoice EXCEPT ![m.doc].commission = m.to]
    /\ entry' = Left(r) \cup Posted(m.doc, IF m.to = None THEN {} ELSE {InvoiceFee(m.to)})
    /\ DocEnd(r)
    /\ UNCHANGED <<slip, issued, struck, docTraffic>>

-----------------------------------------------------------------------------
(* remove: the rows go with their invoice (onDelete: Cascade), its returns *)
(* stay and forget it (onDelete: SetNull)                                  *)

BeginRemoveInvoice(r, d, cascade) ==
    /\ EnterDoc(r)
    /\ Issued(d)
    /\ cascade \/ RowsOf(d) = {}
    /\ DocRemember(r, [BlankDoc EXCEPT !.doc = d])
    /\ DocGoto(r, "remove")
    /\ UNCHANGED docData

RemoveInvoice(r) ==
    LET d == docMem[r].doc IN
    /\ docPc[r] = "remove"
    /\ Issued(d)
    /\ invoice' = [invoice EXCEPT ![d] = None]
    /\ entry' = entry \ RowsOf(d)
    /\ struck' = struck \ {d}
    /\ slip' = [s \in ReturnIds |-> IF slip[s] # None /\ slip[s].of = d
                                    THEN [slip[s] EXCEPT !.of = None] ELSE slip[s]]
    /\ DocEnd(r)
    /\ UNCHANGED <<issued, docTraffic>>

\* A row deleted on the screen of the ledger; bound of the model: another one
\* only when that invoice has been updated.
StrikeRow(e) ==
    /\ docOverlap \/ NoneUnderWay
    /\ e \in entry /\ struck = {}
    /\ entry' = entry \ {e}
    /\ struck' = struck \cup {e.of}
    /\ UNCHANGED <<invoice, slip, issued, docPc, docMem, docTraffic>>

-----------------------------------------------------------------------------
(* Returns against an invoice.  The quantity of a version is its items.    *)

SlipsQty(rows, ids) == MapThenSumSet(LAMBDA s : rows[s].qty, ids)
ReturnedOf(d) == SlipsQty(slip, {s \in ReturnIds : slip[s] # None /\ slip[s].of = d})

StillOutAll(d) == invoice[d].v.items   \* mutant: earlier returns are forgotten
StillOut(d) == invoice[d].v.items - ReturnedOf(d)

BeginReturnGoods(r, d, q) ==
    /\ EnterDoc(r)
    /\ Issued(d)
    /\ q <= StillOut(d)
    /\ \E s \in ReturnIds \ issued :
        /\ issued' = issued \cup {s}
        /\ DocRemember(r, [BlankDoc EXCEPT !.doc = d, !.slip = s, !.qty = q])
    /\ DocGoto(r, "return")
    /\ UNCHANGED <<invoice, entry, slip, struck>>

InsertReturn(r) ==
    LET m == docMem[r] IN
    /\ docPc[r] = "return"
    /\ Issued(m.doc)
    /\ slip' = [slip EXCEPT ![m.slip] = [of |-> m.doc, qty |-> m.qty]]
    /\ DocEnd(r)
    /\ UNCHANGED <<invoice, entry, issued, struck, docTraffic>>

RemoveReturn(s) ==
    /\ docOverlap \/ NoneUnderWay
    /\ slip[s] # None
    /\ slip' = [slip EXCEPT ![s] = None]
    /\ UNCHANGED <<invoice, entry, issued, struck, docPc, docMem, docTraffic>>

-----------------------------------------------------------------------------
\* A transaction that is rolled back (a statement failed, a connection was
\* lost) leaves nothing behind.
RollBack(r) ==
    /\ docPc[r] # "idle"
    /\ entry' = Released(r)
    /\ DocEnd(r)
    /\ UNCHANGED <<invoice, slip, issued, struck, docTraffic>>

\* A request refused at once changes nothing: the id it names does not exist,
\* the cash has another currency, rows are attached and cascade was not asked.
RejectDoc(r) == docPc[r] = "idle" /\ UNCHANGED docVars

BeginDoc(r) ==
    \/ RejectDoc(r)
    \/ \E v \in Versions, no \in ManualNos \cup {0} : BeginCreateInvoice(r, v, no)
    \/ \E d \in InvoiceIds :
        \/ \E v \in Versions : BeginUpdateInvoice(r, d, v)
        \/ \E p \in Parties \cup {None} : BeginCommission(r, d, p)
        \/ \E cascade \in BOOLEAN : BeginRemoveInvoice(r, d, cascade)
        \/ \E q \in Sent : BeginReturnGoods(r, d, q)

StepDoc(r) ==
    \/ ReadNumber(r) \/ InsertInvoice(r) \/ RetryInvoice(r)
    \/ ClearRows(r) \/ RebuildInvoice(r)
    \/ ClearFees(r) \/ AwardCommission(r)
    \/ RemoveInvoice(r) \/ InsertReturn(r) \/ RollBack(r)

InvoiceInit ==
    /\ invoice = [d \in InvoiceIds |-> None] /\ entry = {}
    /\ slip = [s \in ReturnIds |-> None]
    /\ issued = {} /\ struck = {}
    /\ docPc = [r \in Requests |-> "idle"]
    /\ docMem = [r \in Requests |-> BlankDoc]
    /\ docOverlap \in BOOLEAN /\ docBegun = 0

InvoiceNext ==
    \/ \E r \in Requests : BeginDoc(r) \/ StepDoc(r)
    \/ \E e \in entry : StrikeRow(e)
    \/ \E s \in ReturnIds : RemoveReturn(s)

InvoiceSpec == InvoiceInit /\ [][InvoiceNext]_docVars

-----------------------------------------------------------------------------
(* Properties.                                                             *)

LineType ==
    [kind : {"goods", "charges", "paid", "itemFee", "invoiceFee"}, party : Parties,
     amount : Nat, foreign : BOOLEAN]

\* Every column and every local of a request has its type.
InvoiceTypeOK ==
    /\ invoice \in [InvoiceIds -> {None} \cup
                       [no : Nat, v : Versions, commission : Parties \cup {None}]]
    /\ entry \subseteq [of : InvoiceIds, line : LineType, takers : SUBSET Requests]
    /\ slip \in [ReturnIds -> {None} \cup [of : InvoiceIds \cup {None}, qty : Nat]]
    /\ issued \subseteq InvoiceIds \cup ReturnIds
    /\ struck \subseteq InvoiceIds
    /\ docPc \in [Requests -> {"idle", "number", "insert", "clear", "rebuild", "fees",
                               "award", "remove", "return"}]
    /\ docMem \in [Requests ->
          [doc : InvoiceIds \cup {None}, slip : ReturnIds \cup {None},
           v : Versions \cup {None}, no : Nat, auto : BOOLEAN, tries : Nat,
           to : Parties \cup {None}, qty : Nat]]
    /\ docOverlap \in BOOLEAN /\ docBegun \in Nat

\* The rows of an invoice, as the ledger shows them.
Shown(d) == {e.line : e \in RowsOf(d)}

\* An invoice that is not fake has, in the ledger, every row of its present
\* version: two updates that overlap may post twice, but no interleaving of
\* updates, commissions and removals leaves an invoice without what it posts.
\* (The commission of an item is left out: see ItemFeesKept.)
InvoicesPosted ==
    \A d \in InvoiceIds : Issued(d) /\ d \notin struck =>
        {l \in Lines(invoice[d].v) : l.kind # "itemFee"} \subseteq Shown(d)

CalmDocs == ~docOverlap /\ NoneUnderWay
AmountOf(lines) == MapThenSumSet(LAMBDA l : l.amount, lines)
Owed(d) == AmountOf({l \in Shown(d) : l.kind \in {"goods", "charges"}})
Net(v) == IF v.fake THEN 0 ELSE v.items + v.charges - Discount(v)

\* Of requests that come one at a time: after any sequence of updates what the
\* party owes for an invoice is its goods and charges less its discount, and
\* nothing for one that is, or has become, fake.
OwedIsNet == CalmDocs => \A d \in InvoiceIds : Issued(d) /\ d \notin struck =>
    Owed(d) = Net(invoice[d].v)

\* Of requests that come one at a time: the commission of an invoice that is
\* not fake is in the ledger, for the party it is due to and for no other; an
\* update does not lose it ("we keep the commission of the invoice and post it
\* again", invoices.repository.ts:116-117), nor does one that made the invoice
\* fake and another that made it real.
CommissionsKept == CalmDocs => \A d \in InvoiceIds :
    Issued(d) /\ d \notin struck /\ ~invoice[d].v.fake =>
        {l.party : l \in {k \in Shown(d) : k.kind = "invoiceFee"}} = {invoice[d].commission} \ {None}

\* The ledger agrees with the invoice: what its party owes, and the commission.
InvoicesBalance == OwedIsNet /\ CommissionsKept

\* Of requests that come one at a time: the returns against an invoice never
\* add up to more than it has, as long as no update takes goods away from it.
Fits(d) == Issued(d) => ReturnedOf(d) <= invoice[d].v.items
ReturnsKeepFitting ==
    [][\A d \in InvoiceIds :
          ~docOverlap /\ Fits(d) /\ (Issued(d) /\ Issued(d)' => invoice[d].v.items <= invoice'[d].v.items)
              => Fits(d)']_docVars

\* "The commission of each item is posted to the account of its owner" (the
\* comment at invoices.repository.ts:540), of requests that come one at a time.
ItemFeesKept == CalmDocs => \A d \in InvoiceIds : Issued(d) /\ d \notin struck =>
    Lines(invoice[d].v) \subseteq Shown(d)

\* "A dollar account does not move by the same number with a pound treasury"
\* (the comment at currency-guard.ts:5): no row carries cash between them.
CashInOwnCurrency == \A e \in entry : ~(e.line.kind = "paid" /\ e.line.foreign)

=============================================================================
