----------------------------- MODULE CapitalShares -----------------------------
(***************************************************************************)
(* The settlement of a name in proportion to his capital: price lists of   *)
(* his suppliers say what the goods of a sale had cost, and his capital at *)
(* the date of the sale says how much of its profit is his.  The owner     *)
(* writes any list; the name himself (the holder) writes only the last     *)
(* one, or a later one: "who is paid from these numbers does not price the *)
(* past again" (settlement.service.ts:303-304).                            *)
(***************************************************************************)
EXTENDS Office, Sequences, FiniteSetsExt

CONSTANTS
    Suppliers,      \* the suppliers of the name
    Goods,          \* products that are not services
    Bought,         \* pairs of a supplier and a product bought from him
    LastShareDay,        \* bound of the model: the days are 1 .. LastShareDay
    ListPrices,     \* bound of the model: the prices a list may hold, 0 for no price
    MaxLists,       \* bound of the model: the price lists ever written
    Sales,          \* ids of sale invoices
    SaleForms,      \* bound of the model: the sale invoices that are written
    Capital, CartonExpense,   \* of the name
    CapitalMoves,   \* bound of the model: what one movement adds to the capital
    MaxMoves,       \* bound of the model: the movements ever written
    MaxShareBegun   \* bound of the model: requests begun where they may overlap

SaleForm == [date : Nat, rate : Nat, lines : SUBSET [good : Goods, qty : Nat, price : Nat]]

ASSUME ShareAssumption ==
    /\ Bought \subseteq Suppliers \X Goods
    /\ {LastShareDay, MaxLists, MaxMoves, MaxShareBegun} \subseteq Nat
    /\ ListPrices \subseteq Nat /\ 0 \in ListPrices
    /\ None \notin Sales /\ None \notin SaleForms /\ SaleForms \subseteq SaleForm

VARIABLES
    lists,          \* the price lists, oldest id first; none is ever deleted
    sale,           \* None, or the form of the invoice
    picked,         \* PartnerVehicle: None, or his cartons of a selected invoice
    forced,         \* InvoiceItemWeek: the list put on a product of an invoice
    moves,          \* movements of capital: a function of the day and the amount to how many
    sharePc, shareMem,
    shareOverlap,   \* requests may be in progress together (fixed from the start)
    shareBegun

shareRows == <<lists, sale, picked, forced, moves>>
shareVars == <<shareRows, sharePc, shareMem, shareOverlap, shareBegun>>

ShareDays == 1 .. LastShareDay
ListIds == 1 .. Len(lists)
ListBlank == [owner |-> TRUE, of |-> 0, list |-> None]

ShareGoto(r, l) == sharePc' = [sharePc EXCEPT ![r] = l]
ShareRemember(r, m) == shareMem' = [shareMem EXCEPT ![r] = m]
ShareEnd(r) == ShareGoto(r, "idle") /\ ShareRemember(r, ListBlank)
SharesIdle == \A r \in Requests : sharePc[r] = "idle"
EnterShare(r) ==
    /\ sharePc[r] = "idle"
    /\ IF shareOverlap THEN shareBegun < MaxShareBegun /\ shareBegun' = shareBegun + 1
                       ELSE SharesIdle /\ UNCHANGED shareBegun
\* the handlers of one commit, where requests overlap or do not
AtOnce ==
    /\ shareOverlap \/ SharesIdle
    /\ UNCHANGED <<sharePc, shareMem, shareOverlap, shareBegun>>

-----------------------------------------------------------------------------
(* Price lists: which one prices a product on a day.                       *)

ListsOf(s) == {l \in ListIds : lists[l].supplier = s}
Covers(l, d) == lists[l].from <= d /\ d <= lists[l].to
\* of the lists of his suppliers that cover the day and price the product, the one
\* that starts last
PricingLists(d, g) ==
    {l \in ListIds : Covers(l, d) /\ lists[l].prices[g] # 0}
StartLast(found) ==
    {l \in found : \A k \in found :
        \/ lists[k].from < lists[l].from
        \/ lists[k].from = lists[l].from /\ l <= k}
WeekFor(d, g) ==
    LET last == StartLast(PricingLists(d, g)) IN
    IF last = {} THEN None ELSE CHOOSE l \in last : TRUE

ListFor(i, g) == IF forced[i][g] = None THEN WeekFor(sale[i].date, g) ELSE forced[i][g]
PriceFor(i, g) ==
    LET l == ListFor(i, g) IN IF l = None THEN 0 ELSE lists[l].prices[g]

Latest(s) == CHOOSE l \in ListsOf(s) : \A k \in ListsOf(s) : lists[k].from <= lists[l].from

\* mutant: a list that begins on the last day of another is let through
OverlapsInside(s, from, to, except) ==
    \E l \in ListsOf(s) \ except : lists[l].from < to /\ from < lists[l].to
Overlaps(s, from, to, except) ==
    \E l \in ListsOf(s) \ except : lists[l].from <= to /\ from <= lists[l].to

\* what a request sends of a list: a day or a price that is not sent stays, price 0
\* takes the product out
Sent == [supplier : Suppliers, from : ShareDays \cup {None}, to : ShareDays \cup {None},
         prices : [Goods -> ListPrices \cup {None}]]
OrOld(sent, old) == IF sent = None THEN old ELSE sent
Merged(sent, old) ==
    [supplier |-> old.supplier, from |-> OrOld(sent.from, old.from), to |-> OrOld(sent.to, old.to),
     prices |-> [g \in Goods |-> OrOld(sent.prices[g], old.prices[g])]]

\* mutant: the holder is only kept from moving the days
MayWriteAny(owner, of, l) ==
    owner \/ of = 0 \/ (of # 0 /\ l.from = lists[of].from /\ l.to = lists[of].to)
\* the owner writes any list, the holder adds one after the last of its supplier or
\* prices the last one, whose days stay
MayWrite(owner, of, l) ==
    \/ owner
    \/ of = 0 /\ (ListsOf(l.supplier) # {} => lists[Latest(l.supplier)].to < l.from)
    \/ /\ of # 0 /\ Latest(l.supplier) = of
       /\ l.from = lists[of].from /\ l.to = lists[of].to

BeginCreateList(r, owner, l) ==
    /\ EnterShare(r)
    /\ None \notin {l.from, l.to} /\ \A g \in Goods : l.prices[g] # None
    /\ \E g \in Goods : l.prices[g] # 0
    /\ MayWrite(owner, 0, l)
    /\ l.from <= l.to /\ ~Overlaps(l.supplier, l.from, l.to, {})
    /\ ShareGoto(r, "write")
    /\ ShareRemember(r, [owner |-> owner, of |-> 0, list |-> l])
    /\ UNCHANGED <<shareRows, shareOverlap>>

\* the days are looked at only when one is sent
BeginUpdateList(r, owner, of, sent) ==
    LET l == Merged(sent, lists[of]) IN
    /\ EnterShare(r)
    /\ sent.supplier = lists[of].supplier
    /\ MayWrite(owner, of, l)
    /\ sent.from # None \/ sent.to # None =>
          l.from <= l.to /\ ~Overlaps(l.supplier, l.from, l.to, {of})
    /\ ShareGoto(r, "write")
    /\ ShareRemember(r, [owner |-> owner, of |-> of, list |-> sent])
    /\ UNCHANGED <<shareRows, shareOverlap>>

\* the supplier and the first day of a list are unique
StartTaken(m) ==
    \E k \in ListsOf(m.list.supplier) : k # m.of /\ lists[k].from = m.list.from

WriteList(r) ==
    LET m == shareMem[r] IN
    /\ sharePc[r] = "write" /\ ~StartTaken(m)
    /\ IF m.of = 0 THEN Len(lists) < MaxLists /\ lists' = Append(lists, m.list)
                   ELSE lists' = [lists EXCEPT ![m.of] = Merged(m.list, @)]
    /\ ShareEnd(r)
    /\ UNCHANGED <<sale, picked, forced, moves, shareOverlap, shareBegun>>

RefuseList(r) ==
    /\ sharePc[r] = "write"
    /\ StartTaken(shareMem[r]) \/ (shareMem[r].of = 0 /\ Len(lists) = MaxLists)
    /\ ShareEnd(r)
    /\ UNCHANGED <<shareRows, shareOverlap, shareBegun>>

-----------------------------------------------------------------------------
(* The share of an invoice.                                                *)

SumOf(f) == MapThenSumSet(LAMBDA x : f[x], DOMAIN f)

Scope == {b[2] : b \in Bought}
ScopedLines(i) == {n \in sale[i].lines : n.good \in Scope}
Sellable(i) == sale[i] # None /\ ScopedLines(i) # {}

PricedLines(i) == {n \in ScopedLines(i) : PriceFor(i, n.good) # 0}
NeedsPricing(i) == \E n \in ScopedLines(i) : PriceFor(i, n.good) = 0
GoodsCapital(i) == SumOf([n \in ScopedLines(i) |-> n.qty * PriceFor(i, n.good)])
Cartons(i) ==
    IF picked[i].cartons # None THEN picked[i].cartons
    ELSE SumOf([n \in PricedLines(i) |-> n.qty])
Profit(i) ==
    SumOf([n \in PricedLines(i) |-> n.qty * (n.price * sale[i].rate - PriceFor(i, n.good))])
    - Cartons(i) * CartonExpense

CapitalAt(d) ==
    Capital + SumOf([m \in {k \in DOMAIN moves : k[1] <= d} |-> m[2] * moves[m]])

\* a fraction: numerator and denominator.  An invoice in dollars without a rate, or with
\* one line that has no price, is not counted
Uncounted == <<0, 0>>
Share(i) ==
    IF picked[i] = None \/ ~Sellable(i) \/ sale[i].rate = 0 \/ NeedsPricing(i) THEN Uncounted
    ELSE LET own == CapitalAt(sale[i].date) IN
         <<Profit(i) * (IF own < GoodsCapital(i) THEN own ELSE GoodsCapital(i)), GoodsCapital(i)>>

-----------------------------------------------------------------------------
(* The owner selects invoices, the other modules write them.               *)

WriteSale(i, f) ==
    /\ AtOnce
    /\ sale' = [sale EXCEPT ![i] = f]
    /\ UNCHANGED <<lists, picked, forced, moves>>

SelectInvoices(S) ==
    /\ AtOnce
    /\ S # {} /\ \A i \in S : Sellable(i)
    /\ picked' = [i \in Sales |-> IF i \in S /\ picked[i] = None THEN [cartons |-> None] ELSE picked[i]]
    /\ UNCHANGED <<lists, sale, forced, moves>>

SelectAll ==
    SelectInvoices({i \in Sales : Sellable(i)})

UnselectInvoice(i) ==
    /\ AtOnce
    /\ picked' = [picked EXCEPT ![i] = None]
    /\ UNCHANGED <<lists, sale, forced, moves>>

UpdateVehicle(i, cartons) ==
    /\ AtOnce
    /\ picked[i] # None
    /\ picked' = [picked EXCEPT ![i].cartons = cartons]
    /\ UNCHANGED <<lists, sale, forced, moves>>

SetItemWeek(i, g, l) ==
    /\ AtOnce
    /\ sale[i] # None
    /\ forced' = [forced EXCEPT ![i][g] = l]
    /\ UNCHANGED <<lists, sale, picked, moves>>

MoveCapital(m) ==
    /\ AtOnce
    /\ SumOf(moves) < MaxMoves
    /\ moves' = [moves EXCEPT ![m] = @ + 1]
    /\ UNCHANGED <<lists, sale, picked, forced>>

ShareInit ==
    /\ lists = <<>>
    /\ sale = [i \in Sales |-> None] /\ picked = [i \in Sales |-> None]
    /\ forced = [i \in Sales |-> [g \in Goods |-> None]]
    /\ moves = [m \in ShareDays \X CapitalMoves |-> 0]
    /\ sharePc = [r \in Requests |-> "idle"] /\ shareMem = [r \in Requests |-> ListBlank]
    /\ shareOverlap \in BOOLEAN /\ shareBegun = 0

ShareNext ==
    \/ \E i \in Sales, f \in SaleForms : WriteSale(i, f)
    \/ \E S \in SUBSET Sales : SelectInvoices(S)
    \/ SelectAll
    \/ \E i \in Sales : UnselectInvoice(i)
    \/ \E i \in Sales, n \in {None, 1} : UpdateVehicle(i, n)
    \/ \E i \in Sales, g \in Goods, l \in ListIds \cup {None} : SetItemWeek(i, g, l)
    \/ \E m \in DOMAIN moves : MoveCapital(m)
    \/ \E r \in Requests :
        \/ \E owner \in BOOLEAN, l \in Sent :
              \/ BeginCreateList(r, owner, l)
              \/ \E of \in ListIds : BeginUpdateList(r, owner, of, l)
        \/ WriteList(r) \/ RefuseList(r)

ShareSpec == ShareInit /\ [][ShareNext]_shareVars

-----------------------------------------------------------------------------
(* Properties.                                                             *)

ListRow ==
    [supplier : Suppliers, from : ShareDays, to : ShareDays, prices : [Goods -> ListPrices]]

\* Every column and every local of a request has its type.
ShareTypeOK ==
    /\ Len(lists) <= MaxLists
    /\ lists \in Seq(ListRow)
    /\ sale \in [Sales -> SaleForms \cup {None}]
    /\ \A i \in Sales : picked[i] = None \/ picked[i].cartons \in {None, 1}
    /\ forced \in [Sales -> [Goods -> ListIds \cup {None}]]
    /\ sharePc \in [Requests -> {"idle", "write"}]
    /\ \A r \in Requests : sharePc[r] = "write" => shareMem[r].list.supplier \in Suppliers

\* "The period must not overlap another list of the supplier, two overlapping periods
\* mean that one date has two prices" (settlement.service.ts:246-249): never, as long
\* as no two requests write lists together.
PriceListsApart ==
    ~shareOverlap => \A l, k \in ListIds :
        l # k /\ lists[l].supplier = lists[k].supplier =>
            lists[l].to < lists[k].from \/ lists[k].to < lists[l].from

\* What the holder writes on the lists of a supplier leaves his share of every invoice
\* before the last of them as it was, as long as nobody forced a list of that supplier
\* on one of its goods.
HolderWrites(r, s) ==
    /\ sharePc[r] = "write" /\ lists' # lists
    /\ ~shareMem[r].owner /\ shareMem[r].list.supplier = s
Past(i, s) ==
    /\ sale[i] # None /\ ListsOf(s) # {} /\ sale[i].date < lists[Latest(s)].from
    /\ \A g \in Goods : forced[i][g] = None \/ lists[forced[i][g]].supplier # s
PastKept ==
    \A r \in Requests, s \in Suppliers : HolderWrites(r, s) /\ ~shareOverlap =>
       \A i \in Sales : Past(i, s) => Share(i)' = Share(i)
HolderKeepsPast == [][PastKept]_shareVars

=============================================================================
