------------------------------- MODULE Products -------------------------------
(***************************************************************************)
(* Products, which the lines of the other modules point at, and their      *)
(* merging and removal.  A removal counts the lines first and deletes in   *)
(* later commits; a merge looks at the products first and is one commit.   *)
(***************************************************************************)
EXTENDS Office, FiniteSets

CONSTANTS
    Products,
    Lines,           \* ids of rows that point at a product
    Papers,          \* invoices and price lists that lines belong to
    Prices,
    ProductForms,    \* what users enter of a product: service and price
    MaxProductBegun  \* bound of the model: requests begun

Moved == {"invoiceItem", "returnItem", "dealItem", "adjustment", "loan"}
Keyed == {"listItem", "week"}       \* one of a product on a paper
Cascading == {"adjustment", "week", "partnerItem"}
LineKinds == Moved \cup Keyed \cup {"partnerItem"}

ProductRow == [service : BOOLEAN, price : Prices, hidden : BOOLEAN]
LineRow == [kind : LineKinds, product : Products, paper : Papers \cup {None}, price : Prices]

ASSUME ProductAssumption ==
    /\ Prices \subseteq Nat /\ 0 \in Prices
    /\ ProductForms \subseteq [service : BOOLEAN, price : Prices]
    /\ MaxProductBegun \in Nat
    /\ None \notin Products \cup Lines \cup Papers \cup ProductRow \cup LineRow

VARIABLES
    product,   \* None while there is none
    line,      \* the row of each id, None while there is none
    prodPc, prodMem, prodBegun, prodCuts

productRows == <<product, line>>
prodVars == <<productRows, prodPc, prodMem, prodBegun, prodCuts>>

ProductBlank == [of |-> None, from |-> {}]

ProductGoto(r, l) == prodPc' = [prodPc EXCEPT ![r] = l]
ProductRemember(r, m) == prodMem' = [prodMem EXCEPT ![r] = m]
ProductEnd(r) == ProductGoto(r, "idle") /\ ProductRemember(r, ProductBlank)
EnterProduct(r) ==
    /\ prodPc[r] = "idle"
    /\ prodBegun < MaxProductBegun
    /\ prodBegun' = prodBegun + 1

Known(p) == product[p] # None
LinesOf(ps, kinds) ==
    {l \in Lines : line[l] # None /\ line[l].product \in ps /\ line[l].kind \in kinds}
OnPaper(ps, k, paper) == {l \in LinesOf(ps, {k}) : line[l].paper = paper}
Positive(ls) == {l \in ls : line[l].price > 0}

-----------------------------------------------------------------------------
(* Products and their lines.                                               *)

CreateProduct(p, form) ==
    /\ ~Known(p)
    /\ product' = [product EXCEPT ![p] = [service |-> form.service, price |-> form.price, hidden |-> FALSE]]
    /\ UNCHANGED <<line, prodPc, prodMem, prodBegun, prodCuts>>

UpdateProduct(p, form) ==
    /\ Known(p)
    /\ product' = [product EXCEPT ![p].service = form.service, ![p].price = form.price]
    /\ UNCHANGED <<line, prodPc, prodMem, prodBegun, prodCuts>>

\* the other modules write lines; the unique keys (priceListId, productId) and
\* (invoiceId, productId) refuse a second one
WriteLine(l, kind, p, paper, price) ==
    /\ Known(p) /\ line[l] = None
    /\ kind \in Keyed <=> paper # None
    /\ kind = "listItem" \/ price = 0
    /\ kind \in Keyed => \A k \in LinesOf({p}, {kind}) : line[k].paper # paper
    /\ line' = [line EXCEPT ![l] = [kind |-> kind, product |-> p, paper |-> paper, price |-> price]]
    /\ UNCHANGED <<product, prodPc, prodMem, prodBegun, prodCuts>>

-----------------------------------------------------------------------------
(* Merging: the service compares target and sources, the repository merges *)
(* in one transaction.                                                     *)

BeginMerge(r, target, sources) ==
    /\ EnterProduct(r)
    /\ sources # {} /\ target \notin sources
    /\ \A p \in sources \cup {target} : Known(p)
    /\ \A p \in sources : product[p].service = product[target].service
    /\ ProductGoto(r, "merge")
    /\ ProductRemember(r, [ProductBlank EXCEPT !.of = target, !.from = sources])
    /\ UNCHANGED <<productRows, prodCuts>>

\* The entry of a price list that stays, and the price it has afterwards: the
\* target's, or a positive one of the others, in the order they are read.
Stayers(own, others) == IF own # {} THEN own ELSE others

PricesUnfilled(own, others) == {line[l].price : l \in IF own # {} THEN own ELSE others}  \* mutant
PricesFilled(own, others) ==
    LET positive == IF Positive(own) # {} THEN Positive(own) ELSE Positive(others) IN
    IF positive = {} THEN {0} ELSE {line[l].price : l \in positive}

\* all lines after the merge, one of the possible orders of reading
MergedLines(target, sources, stays, priced) ==
    [l \in Lines |->
        IF line[l] = None THEN None
        ELSE LET k == line[l].kind IN
             IF k \in Keyed /\ line[l].product \in sources \cup {target} THEN
                 IF l = stays[k][line[l].paper]
                 THEN [line[l] EXCEPT !.product = target,
                                      !.price = IF k = "listItem" THEN priced[line[l].paper] ELSE line[l].price]
                 ELSE None
             ELSE IF line[l].product \notin sources THEN line[l]
             ELSE IF k \in Moved THEN [line[l] EXCEPT !.product = target]
             ELSE None]   \* partnerItem: onDelete: Cascade

Merge(r) ==
    LET target == prodMem[r].of
        sources == {p \in prodMem[r].from : Known(p)}
        may(k, paper) == Stayers(OnPaper({target}, k, paper), OnPaper(sources, k, paper))
        positive == {product[p].price : p \in sources} \ {0}
    IN
    /\ prodPc[r] = "merge"
    /\ Known(target)
    /\ \E stays \in [Keyed -> [Papers -> Lines \cup {None}]], priced \in [Papers -> Prices] :
        /\ \A k \in Keyed, paper \in Papers :
              IF may(k, paper) = {} THEN stays[k][paper] = None ELSE stays[k][paper] \in may(k, paper)
        /\ \A paper \in Papers :
              priced[paper] \in PricesFilled(OnPaper({target}, "listItem", paper), OnPaper(sources, "listItem", paper))
        /\ line' = MergedLines(target, sources, stays, priced)
    /\ \E price \in Prices :
        /\ IF product[target].price > 0 \/ positive = {} THEN price = product[target].price
                                                         ELSE price \in positive
        /\ product' = [p \in Products |->
              IF p \in sources THEN None
              ELSE IF p = target THEN [product[p] EXCEPT !.price = price] ELSE product[p]]
    /\ ProductEnd(r)
    /\ UNCHANGED <<prodBegun, prodCuts>>

-----------------------------------------------------------------------------
(* Removal: invoice and deal items forbid it, adjustments and loans go     *)
(* with the product in commits of their own.                               *)

BlockersAll(p) == LinesOf({p}, {"invoiceItem", "dealItem", "adjustment", "loan"})
HardBlockers(p) == LinesOf({p}, {"invoiceItem", "dealItem"})

Way(p, mode) ==
    IF BlockersAll(p) = {} THEN "adjustments"
    ELSE IF mode = "archive" THEN "archive"
    ELSE IF mode = "cascade" /\ HardBlockers(p) = {} THEN "adjustments"
    ELSE "refuse"

BeginRemoveProduct(r, p, mode) ==
    /\ EnterProduct(r)
    /\ Known(p)
    /\ Way(p, mode) # "refuse"
    /\ ProductGoto(r, Way(p, mode))
    /\ ProductRemember(r, [ProductBlank EXCEPT !.of = p])
    /\ UNCHANGED <<productRows, prodCuts>>

ArchiveProduct(r) ==
    LET p == prodMem[r].of IN
    /\ prodPc[r] = "archive" /\ Known(p)
    /\ product' = [product EXCEPT ![p].hidden = TRUE]
    /\ ProductEnd(r)
    /\ UNCHANGED <<line, prodBegun, prodCuts>>

WithoutLines(ls) == [l \in Lines |-> IF l \in ls THEN None ELSE line[l]]

DropAdjustments(r) ==
    /\ prodPc[r] = "adjustments"
    /\ line' = WithoutLines(LinesOf({prodMem[r].of}, {"adjustment"}))
    /\ ProductGoto(r, "loans")
    /\ UNCHANGED <<product, prodMem, prodBegun, prodCuts>>

DropLoans(r) ==
    /\ prodPc[r] = "loans"
    /\ line' = WithoutLines(LinesOf({prodMem[r].of}, {"loan"}))
    /\ ProductGoto(r, "product")
    /\ UNCHANGED <<product, prodMem, prodBegun, prodCuts>>

\* onDelete: Restrict of the lines that do not go with it
Restricting == LineKinds \ Cascading

DropProduct(r) ==
    LET p == prodMem[r].of IN
    /\ prodPc[r] = "product" /\ Known(p)
    /\ LinesOf({p}, Restricting) = {}
    /\ product' = [product EXCEPT ![p] = None]
    /\ line' = WithoutLines(LinesOf({p}, Cascading))
    /\ ProductEnd(r)
    /\ UNCHANGED <<prodBegun, prodCuts>>

-----------------------------------------------------------------------------
ProductRefused(r) ==
    LET m == prodMem[r] IN
    \/ prodPc[r] \in {"merge", "archive", "product"} /\ ~Known(m.of)
    \/ prodPc[r] = "product" /\ LinesOf({m.of}, Restricting) # {}

RefuseProduct(r) ==
    /\ ProductRefused(r)
    /\ ProductEnd(r)
    /\ UNCHANGED <<productRows, prodBegun, prodCuts>>

CutProduct(r) ==
    /\ prodPc[r] # "idle" /\ prodCuts < MaxCuts
    /\ prodCuts' = prodCuts + 1
    /\ ProductEnd(r)
    /\ UNCHANGED <<productRows, prodBegun>>

ProductInit ==
    /\ product = [p \in Products |-> None] /\ line = [l \in Lines |-> None]
    /\ prodPc = [r \in Requests |-> "idle"] /\ prodMem = [r \in Requests |-> ProductBlank]
    /\ prodBegun = 0 /\ prodCuts = 0

StepProduct(r) ==
    \/ Merge(r) \/ ArchiveProduct(r) \/ DropAdjustments(r) \/ DropLoans(r) \/ DropProduct(r)
    \/ RefuseProduct(r) \/ CutProduct(r)

ProductNext ==
    \/ \E p \in Products, form \in ProductForms :
          CreateProduct(p, form) \/ UpdateProduct(p, form)
    \/ \E l \in Lines, kind \in LineKinds, p \in Products, paper \in Papers \cup {None}, price \in Prices :
          WriteLine(l, kind, p, paper, price)
    \/ \E r \in Requests :
        \/ StepProduct(r)
        \/ \E target \in Products, sources \in SUBSET Products : BeginMerge(r, target, sources)
        \/ \E p \in Products, mode \in {"strict", "cascade", "archive"} : BeginRemoveProduct(r, p, mode)

ProductSpec == ProductInit /\ [][ProductNext]_prodVars

-----------------------------------------------------------------------------
(* Properties.                                                             *)

\* Every column and every local of a request has its type.
ProductTypeOK ==
    /\ product \in [Products -> ProductRow \cup {None}]
    /\ line \in [Lines -> LineRow \cup {None}]
    /\ \A r \in Requests :
        prodPc[r] \in {"idle", "merge", "archive", "adjustments", "loans", "product"}

\* A merge loses nothing (products.repository.ts:98-103): every line of goods points at
\* the target, so its stock is the sum; a price list or an invoice that knew one of the
\* products knows the target, once; its price stays if it had one and is filled if
\* another had.  And nothing that happens to a product takes a line of an invoice, a
\* deal or a return away: "deleting the product would mean silently deleting other
\* parties' invoices" (78-79).
LinesStay ==
    \A l \in Lines :
        line[l] # None /\ line[l].kind \in {"invoiceItem", "dealItem", "returnItem"} =>
            line'[l] # None /\ product'[line'[l].product] # None
KeyedMerged(target, all, k, paper) ==
    LET own == OnPaper({target}, k, paper)
        before == OnPaper(all, k, paper)
        after == {l \in Lines : line'[l] # None /\ line'[l].product \in all
                                 /\ line'[l].kind = k /\ line'[l].paper = paper}
    IN
    IF before = {} THEN after = {}
    ELSE \E l \in Lines :
            /\ after = {l} /\ line'[l].product = target
            /\ own # {} => l \in own
            /\ l \in Positive(own) => line'[l].price = line[l].price
            /\ Positive(before) # {} => line'[l].price > 0
Merged(target, all) ==
    /\ product[target].price > 0 => product'[target].price = product[target].price
    /\ (\E p \in all : product[p].price > 0) => product'[target].price > 0
    /\ \A l \in LinesOf(all, Moved) : line'[l] # None /\ line'[l].product = target
    /\ \A k \in Keyed, paper \in Papers : KeyedMerged(target, all, k, paper)
MergeKept ==
    /\ LinesStay
    /\ \A r \in Requests :
        prodPc[r] = "merge" /\ product' # product /\ prodPc'[r] = "idle" =>
            Merged(prodMem[r].of, {p \in prodMem[r].from : Known(p)} \cup {prodMem[r].of})

MergeKeeps == [][MergeKept]_prodVars

\* "Every line that points at a merged product moves to the target" (98): what a
\* partner was charged for too.
EveryLineMoves ==
    [][\A l \in Lines, p \in Products :
          /\ line[l] # None /\ line[l].kind = "partnerItem" /\ line[l].product = p
          /\ \E r \in Requests : prodPc[r] = "merge" /\ p \in prodMem[r].from /\ prodPc'[r] = "idle"
          => line'[l] # None
      ]_prodVars

=============================================================================
