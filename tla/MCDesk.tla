--------------------------------- MODULE MCDesk ---------------------------------
(* Instances, for TLC, of modules that share no row with each other: a      *)
(* behaviour is one of one of them.                                         *)
EXTENDS DriverTrips, ManifestTrips, Deals, Parties, Statements, CapitalShares, Reports, TLC

CONSTANTS Parts

VARIABLE part   \* the module that moves

ASSUME DeskAssumption ==
    Parts \subseteq {"trips", "pairs", "deals", "parties", "statements", "shares", "reports"}

CONSTANTS p1, p2, d1, d2, e1, e2, c1, k1, k2, g1

SheetForm(client, date, driver, phone, car, doc, ours) ==
    [client |-> client, date |-> date, driver |-> driver, phone |-> phone, car |-> car,
     doc |-> doc, ours |-> ours]

MCSheetForms == {
    SheetForm(c1, 1, e1, e1, None, d1, TRUE), SheetForm(c1, 3, None, None, k1, None, TRUE),
    SheetForm(None, 1, e2, None, k2, d1, FALSE)}
MCSheetEdits == {
    [doc |-> d2], [doc |-> None], [doc |-> d1, car |-> k1], [driver |-> e2, phone |-> None],
    [ours |-> TRUE], [ours |-> FALSE]}
ASSUME MCPhones == PhonesEntered

MCRideForms == {
    [client |-> c1, date |-> 1, driver |-> e1, car |-> None],
    [client |-> c1, date |-> 2, driver |-> e2, car |-> k1]}
MCRideEdits == {[driver |-> e1], [car |-> k2], [client |-> c1, date |-> 4]}

DealForm(client, supplier, sell, buy, charges, in, till, fee, feeTo) ==
    [client |-> client, supplier |-> supplier, sell |-> sell, buy |-> buy, charges |-> charges,
     freight |-> charges, in |-> in, out |-> in, till |-> till, foreignIn |-> FALSE,
     foreignOut |-> fee, costs |-> 1, owner |-> IF till THEN supplier ELSE None,
     fee |-> fee, feeTo |-> feeTo]

MCDealForms == {
    DealForm(p1, p2, 2, 1, 0, 1, TRUE, FALSE, None), DealForm(p1, p2, 0, 0, 1, 0, FALSE, TRUE, p2),
    DealForm(p2, p1, 0, 1, 1, 1, FALSE, TRUE, None)}

Entry(holder, debit, credit) ==
    [party |-> holder, date |-> 1, debit |-> debit, credit |-> credit, agent |-> 0, stamp |-> 0,
     cashIn |-> 0, cashOut |-> 0, cashIn2 |-> 0, box |-> None, box2 |-> None, doc |-> None]

MCOpenings == {[p \in Holders |-> IF p \in DollarHolders THEN n ELSE 1] : n \in {-1, 2}}

\* a supply of an agent, cash at a rate, a debt without one, an invoice in dollars and one
\* in pounds that is paid, and a transfer between treasuries
MCPostings == {
    <<[Entry("usd", 2, 0) EXCEPT !.agent = 3, !.box = "a", !.cashOut = 2]>>,
    <<[Entry("usd", 1, 0) EXCEPT !.cashOut = 4, !.box = "b"]>>,
    <<Entry("usd", 1, 0)>>,
    <<[Entry("usd", 0, 2) EXCEPT !.doc = 1], [Entry("usd", 0, 1) EXCEPT !.doc = 1]>>,
    \* the commission on one
    <<[Entry("egp", 0, 1) EXCEPT !.doc = 2]>>,
    <<[Entry("egp", 2, 0) EXCEPT !.doc = 2], [Entry("egp", 1, 0) EXCEPT !.doc = 2],
      [Entry("egp", 0, 2) EXCEPT !.doc = 2, !.box = "a", !.cashIn = 2]>>,
    \* a deal, its receipt, and the freight that its client owes
    <<[Entry("egp", 2, 0) EXCEPT !.doc = 3], [Entry("egp", 0, 1) EXCEPT !.doc = 3, !.box = "a", !.cashIn = 1],
      [Entry("egp", 1, 0) EXCEPT !.doc = 3]>>,
    <<[Entry(None, 0, 0) EXCEPT !.box = "a", !.cashOut = 1, !.box2 = "b", !.cashIn2 = 2]>>}

MCBought == Suppliers \X Goods
MCSaleForms == {[date |-> 1, rate |-> 1, lines |-> {[good |-> g1, qty |-> 2, price |-> 3]}]}

BillTotals(kind, fake, discount) ==
    [kind |-> kind, fake |-> fake, goods |-> 3, discount |-> discount, freight |-> 2, day |-> 1]
MCBillForms == {
    BillTotals("SALE", FALSE, 1), BillTotals("SALE", TRUE, 1), BillTotals("PURCHASE", FALSE, 1),
    BillTotals("DEAL", FALSE, 0)}
MCBudgetForms == {
    [activity |-> "TRADE", vehicle |-> TRUE, goods |-> FALSE],
    [activity |-> "SHARED", vehicle |-> FALSE, goods |-> TRUE]}

-----------------------------------------------------------------------------
deskVars == <<part, tripVars, pairVars, dealVars, partyVars, bookVars, shareVars, reportVars>>

\* the module p moves and the others stay
Alone(p) ==
    /\ part = p
    /\ UNCHANGED part
    /\ IF p = "trips" THEN TRUE ELSE UNCHANGED tripVars
    /\ IF p = "pairs" THEN TRUE ELSE UNCHANGED pairVars
    /\ IF p = "deals" THEN TRUE ELSE UNCHANGED dealVars
    /\ IF p = "parties" THEN TRUE ELSE UNCHANGED partyVars
    /\ IF p = "statements" THEN TRUE ELSE UNCHANGED bookVars
    /\ IF p = "shares" THEN TRUE ELSE UNCHANGED shareVars
    /\ IF p = "reports" THEN TRUE ELSE UNCHANGED reportVars

DeskInit ==
    /\ part \in Parts
    /\ TripInit /\ (part # "trips" => ~tripOverlap)
    /\ PairInit
    /\ DealInit /\ (part # "deals" => ~dealOverlap)
    /\ PartyInit /\ (part # "parties" => ~partyOverlap)
    /\ StatementInit
    /\ (part # "statements" => ~linked /\ \A p \in DollarHolders : opened[p] = 2)
    /\ ShareInit /\ (part # "shares" => ~shareOverlap)
    /\ ReportInit
    /\ (part # "reports" => \A b \in Budgets : budget[b].vehicle)

DeskNext ==
    \/ Alone("trips") /\ TripNext
    \/ Alone("pairs") /\ PairNext
    \/ Alone("deals") /\ DealNext
    \/ Alone("parties") /\ PartyNext
    \/ Alone("statements") /\ StatementNext
    \/ Alone("shares") /\ ShareNext
    \* no property relates an expense to a charge: one row of either kind at a time
    \/ Alone("reports") /\ ReportNext /\ (cost' = <<>> \/ charge' = <<>>)

DeskSpec == DeskInit /\ [][DeskNext]_deskVars

\* every column of the part that moves has its type
DeskTypeOK ==
    /\ part \in Parts
    /\ CASE part = "trips" -> TripTypeOK
         [] part = "pairs" -> PairTypeOK
         [] part = "deals" -> DealTypeOK
         [] part = "parties" -> PartyTypeOK
         [] part = "statements" -> StatementTypeOK
         [] part = "shares" -> ShareTypeOK
         [] part = "reports" -> ReportTypeOK

\* of the part that moves: these are dear to evaluate
ScreensAgree == part = "statements" => StatementsAgree
TotalsAgree == part = "reports" => NothingTwice /\ ReportsAgree

DeskSymmetry == Permutations(Requests) \cup Permutations(Suppliers) \cup Permutations(Bills)

=============================================================================
