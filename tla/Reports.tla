-------------------------------- MODULE Reports --------------------------------
(***************************************************************************)
(* The owner's reports: trade, shipping, profit and loss, and the profit   *)
(* of each vehicle.  Each reads the data base on its own and decides on    *)
(* its own what counts: one amount must come up once over trade, shipping  *)
(* and the cost of the goods, in whichever way invoices, deals, vehicles,  *)
(* categories and expenses were recorded, linked, changed and deleted.     *)
(* Reports are in parts of the money unit, so that percentages and shares  *)
(* are exact.                                                              *)
(***************************************************************************)
EXTENDS Office, Sequences, FiniteSetsExt, Functions

CONSTANTS
    Bills,      \* ids of invoices and deals; each is used once
    BillForms,  \* what may be written on one: records [kind, fake, goods, discount, freight, day]
    Wagons,      \* ids of vehicle manifests
    Budgets,     \* ids of expense categories
    BudgetForms, \* their settings: records [activity, vehicle, goods]
    Costs,       \* amounts of expenses, negative where money comes back
    Percents,    \* Config.salaryShippingPct
    Dates,
    Totals,      \* amounts of shipping charges
    Unit,        \* parts that make one unit of money in a report
    MaxCosts,    \* bound of the model: rows of expenses
    MaxCharges   \* bound of the model: rows of shipping charges

Activities == {"TRADE", "SHIPPING", "SHARED"}
BillForm == [kind : {"SALE", "PURCHASE", "DEAL"}, fake : BOOLEAN, goods : Nat, discount : Nat,
             freight : Nat, day : Dates]
BudgetForm == [activity : Activities, vehicle : BOOLEAN, goods : BOOLEAN]

\* the rows of the tables
BillRow == [kind : {"SALE", "PURCHASE", "DEAL"}, fake : BOOLEAN, goods : Nat, discount : Nat,
            freight : Nat, day : Dates, spread : Int]
CostEntry == [type : {"expense", "warehouse", "customs", "rent", "extra", "spread"},
              budget : Budgets \cup {None}, wagon : Wagons \cup {None}, on : Bills \cup {None},
              product : BOOLEAN, out : Int, exp : Int, day : Dates, activity : Activities,
              pct : (0 .. 100) \cup {None}]
ChargeEntry == [bill : Bills, wagon : Wagons \cup {None}, total : Int]

ASSUME ReportAssumption ==
    /\ IsFiniteSet(Bills) /\ IsFiniteSet(Wagons) /\ IsFiniteSet(Dates) /\ Dates # {}
    /\ None \notin Bills \cup Wagons \cup Budgets \cup Int \cup {"no"} /\ "no" \notin Bills
    /\ None \notin BillRow /\ None \notin CostEntry /\ None \notin ChargeEntry
    /\ \A form \in BillForms : form \in BillForm /\ (form.kind = "DEAL" => ~form.fake)
    /\ BudgetForms \subseteq BudgetForm
    /\ Costs \subseteq Int \ {0} /\ Percents \subseteq 0 .. 100 /\ Totals \subseteq Int /\ Dates \subseteq Nat \ {0}
    /\ Unit \in Nat \ {0} /\ Unit % 100 = 0 /\ \A k \in 1 .. Cardinality(Wagons) : Unit % k = 0
    /\ MaxCosts \in Nat /\ MaxCharges \in Nat

VARIABLES
    bill,       \* the row of each invoice or deal, None while there is none
    billsMade,
    wagon,       \* the invoice or deal each manifest is linked to, "no" while there is no manifest
    budget,      \* the settings of each category
    percent,     \* the share of shipping in a shared expense
    cost,        \* rows of the money log and of trips, None where one is deleted
    charge,      \* rows of shipping charges, None likewise
    unspread     \* purchases that keep a goods expense whose row was deleted

reportVars == <<bill, billsMade, wagon, budget, percent, cost, charge, unspread>>

IsBill(p) == p \in Bills /\ bill[p] # None
IsWagon(w) == wagon[w] # "no"
RealSale(p) == IsBill(p) /\ bill[p].kind = "SALE" /\ ~bill[p].fake
RealPurchase(p) == IsBill(p) /\ bill[p].kind = "PURCHASE" /\ ~bill[p].fake
IsDeal(p) == IsBill(p) /\ bill[p].kind = "DEAL"

CostRows == {n \in DOMAIN cost : cost[n] # None}
ChargeRows == {n \in DOMAIN charge : charge[n] # None}
WagonsOf(p) == {w \in Wagons : wagon[w] = p}
Sum(f) == SumFunction(f)

OutOf(S) == Sum([n \in S |-> cost[n].out])
ChargesOf(bills) == Sum([n \in {m \in ChargeRows : charge[m].bill \in bills} |-> charge[n].total])
GoodsOf(S) == Sum([p \in S |-> bill[p].goods])

-----------------------------------------------------------------------------
(* stampActivity: the activity of a row is decided once, when it is made.  *)

StampedByCategory(type, b, onWagon) ==   \* mutant: the vehicle is not looked at
    IF b # None THEN budget[b].activity ELSE IF type = "warehouse" THEN "SHIPPING" ELSE "TRADE"
Stamped(type, b, onWagon) ==
    LET a == IF b # None THEN budget[b].activity
             ELSE IF type = "warehouse" THEN "SHIPPING" ELSE "TRADE"
    IN IF a = "TRADE" /\ onWagon THEN "SHIPPING" ELSE a

PctAlways(a) == percent   \* mutant: of every row
Pct(a) == IF a = "SHARED" THEN percent ELSE None

CostRow(type, b, w, p, out, exp, day) ==
    LET a == IF type \in {"customs", "rent", "extra"} THEN "SHIPPING" ELSE Stamped(type, b, w # None)
    IN [type |-> type, budget |-> b, wagon |-> w, on |-> p, product |-> p # None, out |-> out,
        exp |-> exp, day |-> day, activity |-> a, pct |-> Pct(a)]

-----------------------------------------------------------------------------
(* What is recorded.                                                       *)

WriteBill(p, form) ==
    /\ ~IsBill(p) => p \notin billsMade
    /\ IsBill(p) => form.kind = bill[p].kind
    /\ billsMade' = billsMade \cup {p}
    /\ bill' = [bill EXCEPT ![p] =
            [kind |-> form.kind, fake |-> form.fake, goods |-> form.goods,
             discount |-> form.discount, freight |-> form.freight, day |-> form.day,
             spread |-> IF IsBill(p) THEN bill[p].spread ELSE 0]]
    /\ UNCHANGED <<wagon, budget, percent, cost, charge, unspread>>

\* its charges go with it, links to it are cleared
DropBill(p) ==
    /\ IsBill(p)
    /\ bill' = [bill EXCEPT ![p] = None]
    /\ wagon' = [w \in Wagons |-> IF wagon[w] = p THEN None ELSE wagon[w]]
    /\ charge' = [n \in DOMAIN charge |->
            IF charge[n] # None /\ charge[n].bill = p THEN None ELSE charge[n]]
    /\ cost' = [n \in DOMAIN cost |->
            IF cost[n] # None /\ cost[n].on = p THEN [cost[n] EXCEPT !.on = None] ELSE cost[n]]
    /\ UNCHANGED <<billsMade, budget, percent, unspread>>

LinkWagon(w, p) ==
    /\ p # None => IsBill(p)
    /\ wagon' = [wagon EXCEPT ![w] = p]
    /\ UNCHANGED <<bill, billsMade, budget, percent, cost, charge, unspread>>

DropWagon(w) ==
    /\ IsWagon(w)
    /\ wagon' = [wagon EXCEPT ![w] = "no"]
    /\ charge' = [n \in DOMAIN charge |->
            IF charge[n] # None /\ charge[n].wagon = w THEN [charge[n] EXCEPT !.wagon = None] ELSE charge[n]]
    /\ cost' = [n \in DOMAIN cost |->
            IF cost[n] # None /\ cost[n].wagon = w THEN [cost[n] EXCEPT !.wagon = None] ELSE cost[n]]
    /\ UNCHANGED <<bill, billsMade, budget, percent, unspread>>

AddCharge(p, total) ==
    /\ IsBill(p) /\ Len(charge) < MaxCharges
    /\ charge' = Append(charge, [bill |-> p, wagon |-> None, total |-> total])
    /\ UNCHANGED <<bill, billsMade, wagon, budget, percent, cost, unspread>>

\* only of the invoice or deal the vehicle is linked to; it stays when that changes
AssignCharge(n, w, assign) ==
    /\ n \in ChargeRows /\ IsWagon(w)
    /\ charge[n].bill = wagon[w]
    /\ ~assign => charge[n].wagon = w
    /\ charge' = [charge EXCEPT ![n].wagon = IF assign THEN w ELSE None]
    /\ UNCHANGED <<bill, billsMade, wagon, budget, percent, cost, unspread>>

\* an expense, of a warehouse or not, on a vehicle or as freight on goods that were bought
PostExpense(type, b, w, p, out, day) ==
    /\ Len(cost) < MaxCosts
    /\ w # None => IsWagon(w)
    /\ p # None => RealPurchase(p) /\ out > 0
    /\ cost' = Append(cost, CostRow(type, b, w, p, out, 0, day))
    /\ UNCHANGED <<bill, billsMade, wagon, budget, percent, charge, unspread>>

\* custody settled as an expense: no treasury pays it
PostCustody(b, exp, day) ==
    /\ Len(cost) < MaxCosts
    /\ cost' = Append(cost, CostRow("expense", b, None, None, 0, exp, day))
    /\ UNCHANGED <<bill, billsMade, wagon, budget, percent, charge, unspread>>

\* customs and the rent of a trip, or what else its driver is paid
PostShipping(type, w, out, day) ==
    /\ Len(cost) < MaxCosts /\ out > 0
    /\ w # None => IsWagon(w)
    /\ cost' = Append(cost, CostRow(type, None, w, None, out, 0, day))
    /\ UNCHANGED <<bill, billsMade, wagon, budget, percent, charge, unspread>>

\* distributeGoodsCost: a row of the log, and more freight on the lines of a purchase
SpreadGoodsCost(p, out, day) ==
    /\ Len(cost) < MaxCosts
    /\ RealPurchase(p)
    /\ cost' = Append(cost, CostRow("spread", None, None, p, out, 0, day))
    /\ bill' = [bill EXCEPT ![p].spread = @ + out]
    /\ UNCHANGED <<billsMade, wagon, budget, percent, charge, unspread>>

\* the lines keep what was spread over them
DropCost(n) ==
    /\ n \in CostRows
    /\ cost' = [cost EXCEPT ![n] = None]
    /\ unspread' = IF cost[n].type = "spread" THEN unspread \cup {cost[n].on} ELSE unspread
    /\ UNCHANGED <<bill, billsMade, wagon, budget, percent, charge>>

\* the product goes that freight was put on (onDelete: SetNull); the invoice stays
LoseProduct(p) ==
    /\ IsBill(p)
    /\ cost' = [n \in DOMAIN cost |->
            IF cost[n] # None /\ cost[n].on = p /\ cost[n].type # "spread"
            THEN [cost[n] EXCEPT !.product = FALSE] ELSE cost[n]]
    /\ UNCHANGED <<bill, billsMade, wagon, budget, percent, charge, unspread>>

ChangeBudget(b, form) ==
    /\ budget' = [budget EXCEPT ![b] = form]
    /\ UNCHANGED <<bill, billsMade, wagon, percent, cost, charge, unspread>>

ChangePercent(v) ==
    /\ percent' = v
    /\ UNCHANGED <<bill, billsMade, wagon, budget, cost, charge, unspread>>

-----------------------------------------------------------------------------
(* What the reports read.                                                  *)

\* range: both ends belong to the period
Within(day, from, to) == from <= day /\ day <= to

ExpenseTypes == {"expense", "warehouse"}

\* money out less money in, or where that is nothing the amount that no treasury paid
ExpenseAmount(c) == IF c.out # 0 THEN c.out ELSE c.exp

Portion(amount, c, want) ==
    CASE c.activity = "SHARED" /\ want = "SHIPPING" -> c.pct * amount * (Unit \div 100)
      [] c.activity = "SHARED" /\ want = "TRADE" -> Unit * amount - c.pct * amount * (Unit \div 100)
      [] c.activity = want -> Unit * amount
      [] OTHER -> 0

Amounts(S) == Sum([n \in S |-> ExpenseAmount(cost[n])])
Portions(S, want) == Sum([n \in S |-> Portion(ExpenseAmount(cost[n]), cost[n], want)])

ExpenseRowsWithFreight(from, to) ==   \* mutant: freight on goods is an expense too
    {n \in CostRows : cost[n].type \in ExpenseTypes /\ Within(cost[n].day, from, to)}
ExpenseRows(from, to) ==
    {n \in CostRows : /\ cost[n].type \in ExpenseTypes
                      /\ cost[n].on = None
                      /\ Within(cost[n].day, from, to)}

BillsIn(from, to) == {p \in Bills : IsBill(p) /\ Within(bill[p].day, from, to)}

\* avgCost: what the goods of a purchase cost, the freight on its product included
LinkedFreight(p) ==
    OutOf({n \in CostRows : cost[n].type \in ExpenseTypes /\ cost[n].on = p /\ cost[n].product})
LandedCost(p) == Unit * (bill[p].goods + bill[p].freight + bill[p].spread + LinkedFreight(p))

TradeDiscount(p) == IF bill[p].discount < bill[p].goods THEN bill[p].discount ELSE bill[p].goods

\* of a deal on a vehicle the freight is a cost of the vehicle; one without goods is left out
DealFreightAlways(p) == bill[p].freight   \* mutant: trade counts it on a vehicle too
DealFreight(p) == IF WagonsOf(p) = {} /\ bill[p].goods > 0 THEN bill[p].freight ELSE 0

TradeReport(from, to) ==
    LET sales == {p \in BillsIn(from, to) : RealSale(p)}
        deals == {p \in BillsIn(from, to) : IsDeal(p)}
    IN [sales |-> Unit * GoodsOf(sales \cup deals),
        salesDiscount |-> Unit * Sum([p \in sales |-> TradeDiscount(p)]),
        dealFreight |-> Unit * Sum([p \in deals |-> DealFreight(p)]),
        expenses |-> Portions(ExpenseRows(from, to), "TRADE")]

FreightPaid(p) == IF bill[p].fake THEN 0 ELSE bill[p].freight

ShippingSummary(from, to) ==
    LET Of(type) == {n \in CostRows : cost[n].type = type /\ Within(cost[n].day, from, to)}
        bills == BillsIn(from, to)
        onWagons == {p \in bills : bill[p].kind # "PURCHASE" /\ WagonsOf(p) # {}}
        onVehicles == {n \in ExpenseRows(from, to) :
            cost[n].budget # None /\ budget[cost[n].budget].vehicle}
    IN [income |-> Unit * ChargesOf({p \in bills : RealSale(p) \/ IsDeal(p)}),
        purchaseCharges |-> Unit * ChargesOf({p \in bills : RealPurchase(p)}),
        rent |-> Unit * OutOf(Of("rent")), customs |-> Unit * OutOf(Of("customs")),
        driverExtras |-> Unit * OutOf(Of("extra")),
        invoiceFreight |-> Unit * Sum([p \in onWagons |-> FreightPaid(p)]),
        loading |-> Portions(onVehicles, "SHIPPING"),
        warehouse |-> Portions(ExpenseRows(from, to) \ onVehicles, "SHIPPING")]

\* summary: goods and charges of invoices; deals are in neither
Summary(from, to) ==
    LET sales == {p \in BillsIn(from, to) : RealSale(p)}
        purchases == {p \in BillsIn(from, to) : RealPurchase(p)}
    IN [sales |-> Unit * GoodsOf(sales), purchases |-> Unit * GoodsOf(purchases),
        collected |-> Unit * ChargesOf(sales), paid |-> Unit * ChargesOf(purchases)]

\* profitLoss: five queries over the same rows; what custody paid is in none of them
ProfitLoss(from, to) ==
    LET Of(type) == {n \in CostRows : cost[n].type = type /\ Within(cost[n].day, from, to)}
        onGoods == {n \in CostRows : cost[n].on # None}
        goodsBudget == {n \in CostRows : cost[n].budget # None /\ budget[cost[n].budget].goods}
    IN [operating |-> Unit * (OutOf(Of("expense") \ (onGoods \cup goodsBudget))
                              + OutOf(Of("warehouse") \ onGoods)),
        goods |-> Unit * (OutOf(Of("expense") \cap (onGoods \cup goodsBudget))
                          + OutOf(Of("warehouse") \cap onGoods) + OutOf(Of("spread")))]

\* computeVehicleProfits: charges of the vehicle, and where its invoice or deal has no other
\* vehicle those that are of none
SoleWagon(w) == wagon[w] # None /\ WagonsOf(wagon[w]) = {w}
ChargesOnAll(w) ==   \* mutant: charges of another vehicle are taken for those of none
    {n \in ChargeRows : charge[n].wagon = w \/ (SoleWagon(w) /\ charge[n].bill = wagon[w])}
ChargesOn(w) ==
    {n \in ChargeRows : \/ charge[n].wagon = w
                        \/ SoleWagon(w) /\ charge[n].wagon = None /\ charge[n].bill = wagon[w]}

FreightShare(w) ==
    IF wagon[w] = None \/ bill[wagon[w]].kind = "PURCHASE" THEN 0
    ELSE FreightPaid(wagon[w]) * (Unit \div Cardinality(WagonsOf(wagon[w])))

VehicleProfit(w) ==
    LET Of(S) == Unit * Amounts({n \in S : cost[n].wagon = w})
        Signed(n) == IF bill[charge[n].bill].kind = "PURCHASE" THEN -charge[n].total ELSE charge[n].total
    IN [revenue |-> Unit * Sum([n \in ChargesOn(w) |-> Signed(n)]),
        rent |-> Of({n \in CostRows : cost[n].type = "rent"}),
        customs |-> Of({n \in CostRows : cost[n].type = "customs"}),
        loading |-> Of({n \in CostRows : /\ cost[n].type \in ExpenseTypes /\ cost[n].budget # None
                                         /\ budget[cost[n].budget].vehicle}),
        freight |-> FreightShare(w)]

-----------------------------------------------------------------------------
ReportInit ==
    /\ bill = [p \in Bills |-> None] /\ billsMade = {}
    /\ wagon = [w \in Wagons |-> "no"]
    /\ budget \in [Budgets -> BudgetForms] /\ percent \in Percents
    /\ cost = <<>> /\ charge = <<>> /\ unspread = {}

ReportNext ==
    \/ \E p \in Bills :
        \/ \E form \in BillForms : WriteBill(p, form)
        \/ DropBill(p) \/ LoseProduct(p)
        \/ \E total \in Totals : AddCharge(p, total)
        \/ \E out \in Costs, day \in Dates : SpreadGoodsCost(p, out, day)
    \/ \E w \in Wagons :
        \/ \E p \in Bills \cup {None} : LinkWagon(w, p)
        \/ DropWagon(w)
        \/ \E n \in DOMAIN charge, assign \in BOOLEAN : AssignCharge(n, w, assign)
    \/ \E out \in Costs, day \in Dates, w \in Wagons \cup {None} :
        \/ \E type \in ExpenseTypes, b \in Budgets \cup {None}, p \in Bills \cup {None} :
                PostExpense(type, b, w, p, out, day)
        \/ \E type \in {"customs", "rent", "extra"} : PostShipping(type, w, out, day)
    \/ \E b \in Budgets, day \in Dates, exp \in Costs : exp > 0 /\ PostCustody(b, exp, day)
    \/ \E n \in DOMAIN cost : DropCost(n)
    \/ \E b \in Budgets, form \in BudgetForms : ChangeBudget(b, form)
    \/ \E v \in Percents : ChangePercent(v)

ReportSpec == ReportInit /\ [][ReportNext]_reportVars

-----------------------------------------------------------------------------
(* Properties.                                                             *)

\* Rows refer to rows that are there; an activity is shared with a percentage or not at all.
ReportTypeOK ==
    /\ \A w \in Wagons : wagon[w] \in {"no", None} \/ IsBill(wagon[w])
    /\ \A n \in ChargeRows :
        /\ IsBill(charge[n].bill)
        /\ charge[n].wagon = None \/ IsWagon(charge[n].wagon)
    /\ \A n \in CostRows :
        /\ cost[n].wagon = None \/ IsWagon(cost[n].wagon)
        /\ cost[n].on = None \/ IsBill(cost[n].on)
        /\ cost[n].activity \in {"TRADE", "SHIPPING", "SHARED"}
        /\ (cost[n].activity = "SHARED") = (cost[n].pct \in 0 .. 100)

\* freight on a product that is gone, or on an invoice that was turned into a mere document
Stranded(n) == cost[n].on # None /\ (~cost[n].product \/ ~RealPurchase(cost[n].on))

ExpensesOnce(from, to) ==
    LET rows == {n \in CostRows : cost[n].type \in ExpenseTypes /\ Within(cost[n].day, from, to)}
        onGoods == {n \in rows : cost[n].on # None /\ ~Stranded(n)}
        shipping == ShippingSummary(from, to)
        pl == ProfitLoss(from, to)
        spread == {n \in CostRows : cost[n].type = "spread" /\ Within(cost[n].day, from, to)}
    IN
    /\ TradeReport(from, to).expenses + shipping.loading + shipping.warehouse + Unit * OutOf(onGoods)
       = Unit * Amounts({n \in rows : ~Stranded(n)})
    /\ pl.operating + pl.goods = Unit * OutOf(rows \cup spread)

GoodsCostOnce ==
    \A p \in Bills \ unspread : RealPurchase(p) =>
        LandedCost(p) = Unit * (bill[p].goods + bill[p].freight + OutOf(
            {n \in CostRows : cost[n].on = p /\ (cost[n].type = "spread" \/ ~Stranded(n))}))

DealFreightOnce(from, to) ==
    LET deals == {p \in BillsIn(from, to) : IsDeal(p) /\ (bill[p].goods > 0 \/ WagonsOf(p) # {})}
        sales == {p \in BillsIn(from, to) : RealSale(p) /\ WagonsOf(p) # {}}
    IN TradeReport(from, to).dealFreight + ShippingSummary(from, to).invoiceFreight
       = Unit * Sum([p \in deals \cup sales |-> bill[p].freight])

\* "so that it is not counted twice" (reports.service.ts:39, 114): in every period each
\* expense is counted once over trade, shipping and the cost of goods, a shared one in two
\* parts that make the whole, and once in profit and loss; the freight of a deal once over
\* trade and shipping.  Freight on a product or an invoice that is gone is in neither report,
\* and what was spread over goods stays there when its row is deleted.
NothingTwice ==
    /\ \A to \in Dates : ExpensesOnce(1, to) /\ DealFreightOnce(1, to)
    /\ GoodsCostOnce

\* the summary and the reports of the two activities, apart from deals
SummaryAgrees(from, to) ==
    LET deals == {p \in BillsIn(from, to) : IsDeal(p)} IN
    /\ TradeReport(from, to).sales = Summary(from, to).sales + Unit * GoodsOf(deals)
    /\ ShippingSummary(from, to).income = Summary(from, to).collected + Unit * ChargesOf(deals)
    /\ ShippingSummary(from, to).purchaseCharges = Summary(from, to).paid
    /\ TradeReport(from, to).salesDiscount <= Summary(from, to).sales

\* Reports that read the same rows say the same.  What a vehicle shows is what the shipping
\* report counts for it: no charge is income of two
\* vehicles, one that is assigned or has only one vehicle to go to is income of that one, the
\* freights of vehicles add up to the freight of the report, and the loading of a vehicle is a
\* cost of shipping in full unless its category is shared.
ReportsAgree ==
    LET always == ShippingSummary(1, Max(Dates))
        wagons == {w \in Wagons : IsWagon(w)}
    IN
    /\ \A to \in Dates : SummaryAgrees(1, to)
    /\ \A n \in ChargeRows : Cardinality({w \in wagons : n \in ChargesOn(w)}) =
            IF charge[n].wagon # None \/ Cardinality(WagonsOf(charge[n].bill)) = 1 THEN 1 ELSE 0
    /\ Sum([w \in wagons |-> VehicleProfit(w).freight]) = always.invoiceFreight
    /\ Sum([w \in wagons |-> VehicleProfit(w).rent]) <= always.rent
    /\ Sum([w \in wagons |-> VehicleProfit(w).customs]) <= always.customs
    /\ (\A n \in CostRows : cost[n].activity # "SHARED" /\ cost[n].on = None) =>
        \A n \in CostRows : cost[n].wagon # None /\ cost[n].type \in ExpenseTypes =>
            Portion(ExpenseAmount(cost[n]), cost[n], "SHIPPING") = Unit * ExpenseAmount(cost[n])

\* "A fake invoice: a document only, it does not touch the balance of the party, nor the
\* treasury, nor the reports" (schema.prisma:530).
FakeOutOfReports ==
    \A w \in Wagons : IsWagon(w) /\ VehicleProfit(w).revenue # 0 =>
        \E n \in ChargesOn(w) : ~bill[charge[n].bill].fake

=============================================================================
