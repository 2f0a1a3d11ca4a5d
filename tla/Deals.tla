--------------------------------- MODULE Deals ---------------------------------
(***************************************************************************)
(* Deals: goods a supplier hands straight to a client, and the rows of the *)
(* ledger (Transaction) that a deal posts to both, to a treasury and to    *)
(* those its commissions are due to.                                       *)
(*                                                                         *)
(* As with invoices, what a data base transaction writes appears when it   *)
(* commits, and what it reads or deletes is what was committed when that   *)
(* statement ran.  There is no column for the commission of the deal: it   *)
(* lives in the ledger only, and update reads it there before it deletes   *)
(* the rows.                                                               *)
(***************************************************************************)
EXTENDS Office

CONSTANTS
    DealIds,        \* ids of Deal rows; each is used once
    DealParties,
    DealForms,      \* what the form of a deal may hold
    MaxDealTries,   \* how often create tries again
    MaxDealBegun    \* bound of the model: requests begun where they may overlap

FormType ==
    [client : DealParties, supplier : DealParties,
     sell : Nat, buy : Nat, charges : Nat, freight : Nat,
     in : Nat, out : Nat,                  \* cash from the client and to the supplier
     till : BOOLEAN,                       \* a treasury is named
     foreignIn : BOOLEAN, foreignOut : BOOLEAN,  \* it has another currency than the party
     costs : Nat,                          \* outside freight and tea of the items
     owner : DealParties \cup {None},      \* whom the commission of an item is due to
     fee : BOOLEAN,                        \* the form gives a commission of the deal
     feeTo : DealParties \cup {None}]      \* and whom it is due to

DealRow == [no : Nat, v : DealForms]
LegKinds == {"sale", "charges", "purchase", "in", "out", "freight", "costs", "dealFee", "itemFee"}
LegType == [kind : LegKinds, party : DealParties \cup {None}, amount : Nat]
LegRow == [of : DealIds, takers : SUBSET Requests, leg : LegType]
DealLocal ==
    [deal : DealIds \cup {None}, v : DealForms \cup {None}, no : Nat,
     auto : BOOLEAN, tries : Nat, to : DealParties \cup {None}]

ASSUME DealAssumption ==
    /\ DealForms \subseteq FormType
    /\ MaxDealTries \in Nat /\ MaxDealBegun \in Nat
    /\ None \notin DealParties \cup DealRow

VARIABLES
    deal,         \* the Deal of each id, None while there is none
    leg,          \* the Transaction rows of deals, each with the requests whose
                  \* delete statement, not yet committed, has taken it
    feeDue,       \* whom the commission of each deal is due to, as last decided
    dealsGiven,   \* ids given out so far
    dealStruck,   \* deals of which a row was deleted since their last update
    dealPc, dealMem,
    dealOverlap,  \* requests may be in progress together (fixed from the start)
    dealBegun     \* requests begun so far, counted where they may overlap

dealData == <<deal, leg, feeDue, dealsGiven, dealStruck>>
dealTraffic == <<dealOverlap, dealBegun>>
dealVars == <<dealData, dealPc, dealMem, dealTraffic>>

DealBlank == [deal |-> None, v |-> None, no |-> 0, auto |-> FALSE, tries |-> 0, to |-> None]

Made(d) == deal[d] # None

DealGoto(r, l) == dealPc' = [dealPc EXCEPT ![r] = l]
DealRemember(r, m) == dealMem' = [dealMem EXCEPT ![r] = m]
DealEnd(r) == DealGoto(r, "idle") /\ DealRemember(r, DealBlank)
DealsIdle == \A r \in Requests : dealPc[r] = "idle"
EnterDeal(r) ==
    /\ dealPc[r] = "idle"
    /\ IF dealOverlap THEN dealBegun < MaxDealBegun /\ dealBegun' = dealBegun + 1
                      ELSE DealsIdle /\ UNCHANGED dealBegun
    /\ UNCHANGED dealOverlap

-----------------------------------------------------------------------------
(* The rows of a form (txns).                                              *)

Leg(kind, party, amount) == [kind |-> kind, party |-> party, amount |-> amount]

DealLegs(v) ==
    {l \in {Leg("sale", v.client, v.sell), Leg("purchase", v.supplier, v.buy)} :
        l.amount # 0 \/ v.charges = 0}
    \cup {l \in {Leg("charges", v.client, v.charges), Leg("in", v.client, v.in),
                 Leg("out", v.supplier, v.out), Leg("freight", v.client, v.freight)} : l.amount # 0}
    \cup {l \in {Leg("costs", None, v.costs)} : l.amount # 0 /\ v.till}

DealFee(p) == IF p = None THEN {} ELSE {Leg("dealFee", p, 1)}
ItemFee(p) == IF p = None THEN {} ELSE {Leg("itemFee", p, 1)}

\* to nobody where the form gives an amount and no party
FormFee(v) == IF v.fee THEN v.feeTo ELSE None

Posting(d, legs) == {[of |-> d, leg |-> l, takers |-> {}] : l \in legs}
LegsOf(d) == {e \in leg : e.of = d}
FeesPosted(d) == {e \in LegsOf(d) : e.leg.kind \in {"dealFee", "itemFee"}}

Taking(r, rows) ==
    leg' = (leg \ rows) \cup {[e EXCEPT !.takers = @ \cup {r}] : e \in rows}
Kept(r) == {e \in leg : r \notin e.takers}

-----------------------------------------------------------------------------
DealNumbers(p) == {deal[d].no : d \in {e \in DealIds : Made(e) /\ deal[e].v.client = p}}

\* @@unique([clientId, no])
NumberTaken(p, no, d) == \E e \in DealIds \ {d} :
    Made(e) /\ deal[e].v.client = p /\ deal[e].no = no

WrongCashIn(v) == v.till /\ v.in > 0 /\ v.foreignIn
WrongCashOut(v) == v.till /\ v.out > 0 /\ v.foreignOut

BeginCreateDeal(r, v, no) ==
    /\ EnterDeal(r)
    /\ ~WrongCashIn(v) /\ ~WrongCashOut(v)
    /\ \E d \in DealIds \ dealsGiven :
        /\ dealsGiven' = dealsGiven \cup {d}
        /\ DealRemember(r, [DealBlank EXCEPT !.deal = d, !.v = v, !.no = no, !.auto = (no = 0)])
    /\ DealGoto(r, IF no = 0 THEN "number" ELSE "insert")
    /\ UNCHANGED <<deal, leg, feeDue, dealStruck>>

NextDealNo(r) ==
    LET numbers == {0} \cup DealNumbers(dealMem[r].v.client) IN
    /\ dealPc[r] = "number"
    /\ \E max \in numbers :
        /\ \A n \in numbers : n <= max
        /\ DealRemember(r, [dealMem[r] EXCEPT !.no = max + 1])
    /\ DealGoto(r, "insert")
    /\ UNCHANGED <<dealData, dealTraffic>>

InsertDeal(r) ==
    LET m == dealMem[r] IN
    /\ dealPc[r] = "insert"
    /\ ~NumberTaken(m.v.client, m.no, m.deal)
    /\ deal' = [deal EXCEPT ![m.deal] = [no |-> m.no, v |-> m.v]]
    /\ leg' = leg \cup Posting(m.deal, DealLegs(m.v) \cup DealFee(FormFee(m.v)) \cup ItemFee(m.v.owner))
    /\ feeDue' = [feeDue EXCEPT ![m.deal] = FormFee(m.v)]
    /\ DealEnd(r)
    /\ UNCHANGED <<dealsGiven, dealStruck, dealTraffic>>

RetryDeal(r) ==
    LET m == dealMem[r] IN
    /\ dealPc[r] = "insert"
    /\ NumberTaken(m.v.client, m.no, m.deal)
    /\ IF m.auto /\ m.tries < MaxDealTries
       THEN DealGoto(r, "number") /\ DealRemember(r, [m EXCEPT !.tries = @ + 1])
       ELSE DealEnd(r)
    /\ UNCHANGED <<dealData, dealTraffic>>

-----------------------------------------------------------------------------
\* an amount that was there before, in this treasury and of this party, is not
\* looked at again
UnchangedIn(old, v) == old.till = v.till /\ old.foreignIn = v.foreignIn
                       /\ old.in = v.in /\ old.client = v.client
UnchangedOut(old, v) == old.till = v.till /\ old.foreignOut = v.foreignOut
                        /\ old.out = v.out /\ old.supplier = v.supplier

BeginUpdateDeal(r, d, v) ==
    /\ EnterDeal(r)
    /\ Made(d)
    /\ WrongCashIn(v) => UnchangedIn(deal[d].v, v)
    /\ WrongCashOut(v) => UnchangedOut(deal[d].v, v)
    /\ DealRemember(r, [DealBlank EXCEPT !.deal = d, !.v = v, !.no = deal[d].no])
    /\ DealGoto(r, "fee")
    /\ UNCHANGED dealData

\* the commission of the deal, told from those of items by its note
ReadFee(r) ==
    LET fees == {e \in LegsOf(dealMem[r].deal) : e.leg.kind = "dealFee"} IN
    /\ dealPc[r] = "fee"
    /\ \E p \in IF fees = {} THEN {None} ELSE {e.leg.party : e \in fees} :
        DealRemember(r, [dealMem[r] EXCEPT !.to = p])
    /\ DealGoto(r, "clear")
    /\ UNCHANGED <<dealData, dealTraffic>>

ClearLegs(r) ==
    /\ dealPc[r] = "clear"
    /\ Taking(r, LegsOf(dealMem[r].deal))
    /\ DealGoto(r, "rebuild")
    /\ UNCHANGED <<deal, feeDue, dealsGiven, dealStruck, dealMem, dealTraffic>>

FeeAfterForm(m) == FormFee(m.v)   \* mutant: the commission that was there is lost
FeeAfter(m) == IF m.v.fee THEN m.v.feeTo ELSE m.to

RebuildDeal(r) ==
    LET m == dealMem[r] IN
    /\ dealPc[r] = "rebuild"
    /\ Made(m.deal)
    /\ ~NumberTaken(m.v.client, m.no, m.deal)
    /\ deal' = [deal EXCEPT ![m.deal].v = m.v]
    /\ leg' = Kept(r) \cup Posting(m.deal, DealLegs(m.v) \cup DealFee(FeeAfter(m)) \cup ItemFee(m.v.owner))
    /\ feeDue' = [feeDue EXCEPT ![m.deal] = IF m.v.fee THEN m.v.feeTo ELSE @]
    /\ dealStruck' = dealStruck \ {m.deal}
    /\ DealEnd(r)
    /\ UNCHANGED <<dealsGiven, dealTraffic>>

-----------------------------------------------------------------------------
(* updateCommission deletes every row of type commission, those of items   *)
(* too, and posts one.                                                     *)

BeginDealFee(r, d, p) ==
    /\ EnterDeal(r)
    /\ Made(d)
    /\ DealRemember(r, [DealBlank EXCEPT !.deal = d, !.to = p])
    /\ DealGoto(r, "clearFees")
    /\ UNCHANGED dealData

ClearDealFees(r) ==
    /\ dealPc[r] = "clearFees"
    /\ Taking(r, FeesPosted(dealMem[r].deal))
    /\ DealGoto(r, "award")
    /\ UNCHANGED <<deal, feeDue, dealsGiven, dealStruck, dealMem, dealTraffic>>

AwardDealFee(r) ==
    LET m == dealMem[r] IN
    /\ dealPc[r] = "award"
    /\ Made(m.deal)
    /\ leg' = Kept(r) \cup Posting(m.deal, DealFee(m.to))
    /\ feeDue' = [feeDue EXCEPT ![m.deal] = m.to]
    /\ DealEnd(r)
    /\ UNCHANGED <<deal, dealsGiven, dealStruck, dealTraffic>>

\* the rows go with their deal (onDelete: Cascade)
RemoveDeal(r, d) ==
    /\ EnterDeal(r)
    /\ Made(d)
    /\ deal' = [deal EXCEPT ![d] = None]
    /\ leg' = leg \ LegsOf(d)
    /\ feeDue' = [feeDue EXCEPT ![d] = None]
    /\ dealStruck' = dealStruck \ {d}
    /\ UNCHANGED <<dealsGiven, dealPc, dealMem>>

\* A row deleted on the screen of the ledger; bound of the model: another one
\* only when that deal has been updated.
StrikeLeg(e) ==
    /\ dealOverlap \/ DealsIdle
    /\ dealStruck = {}
    /\ leg' = leg \ {e}
    /\ feeDue' = IF e.leg.kind = "dealFee" THEN [feeDue EXCEPT ![e.of] = None] ELSE feeDue
    /\ dealStruck' = {e.of}
    /\ UNCHANGED <<deal, dealsGiven, dealPc, dealMem, dealTraffic>>

\* A transaction that is rolled back leaves nothing behind.
RollBackDeal(r) ==
    /\ dealPc[r] # "idle"
    /\ leg' = {[e EXCEPT !.takers = @ \ {r}] : e \in leg}
    /\ DealEnd(r)
    /\ UNCHANGED <<deal, feeDue, dealsGiven, dealStruck, dealTraffic>>

BeginDeal(r) ==
    \/ \E v \in DealForms, no \in {0, 1} : BeginCreateDeal(r, v, no)
    \/ \E d \in DealIds :
        \/ \E v \in DealForms : BeginUpdateDeal(r, d, v)
        \/ \E p \in DealParties \cup {None} : BeginDealFee(r, d, p)
        \/ RemoveDeal(r, d)

StepDeal(r) ==
    \/ NextDealNo(r) \/ InsertDeal(r) \/ RetryDeal(r)
    \/ ReadFee(r) \/ ClearLegs(r) \/ RebuildDeal(r)
    \/ ClearDealFees(r) \/ AwardDealFee(r) \/ RollBackDeal(r)

DealInit ==
    /\ deal = [d \in DealIds |-> None] /\ leg = {}
    /\ feeDue = [d \in DealIds |-> None]
    /\ dealsGiven = {} /\ dealStruck = {}
    /\ dealPc = [r \in Requests |-> "idle"]
    /\ dealMem = [r \in Requests |-> DealBlank]
    /\ dealOverlap \in BOOLEAN /\ dealBegun = 0

DealNext ==
    \/ \E r \in Requests : BeginDeal(r) \/ StepDeal(r)
    \/ \E e \in leg : StrikeLeg(e)

DealSpec == DealInit /\ [][DealNext]_dealVars

-----------------------------------------------------------------------------
(* Properties.                                                             *)

\* Every column and every local of a request has its type.
DealTypeOK ==
    /\ deal \in [DealIds -> {None} \cup DealRow]
    /\ leg \subseteq LegRow
    /\ feeDue \in [DealIds -> DealParties \cup {None}]
    /\ dealsGiven \subseteq DealIds /\ dealStruck \subseteq DealIds
    /\ dealMem \in [Requests -> DealLocal]

PostedLegs(d) == {e.leg : e \in LegsOf(d)}
CalmDeals == ~dealOverlap /\ DealsIdle

\* However updates, commissions and removals overlap, a deal has every row of its present
\* form.  Of requests one at a time it has no other, and the commission of the deal is that
\* which was decided last, by a form or by updateCommission: an update of anything else
\* keeps it ("we keep it before we delete and post it again, or editing a deal would cancel
\* it", deals.repository.ts:88-89).  Commissions of items, which updateCommission deletes,
\* are left out.
DealsPosted ==
    \A d \in DealIds : Made(d) /\ d \notin dealStruck =>
        /\ DealLegs(deal[d].v) \subseteq PostedLegs(d)
        /\ CalmDeals => {l \in PostedLegs(d) : l.kind # "itemFee"} = DealLegs(deal[d].v) \cup DealFee(feeDue[d])

=============================================================================
