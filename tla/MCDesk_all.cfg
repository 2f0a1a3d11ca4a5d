SPECIFICATION DeskSpec
CONSTANTS
    Parts = {"trips", "pairs", "deals", "parties", "statements", "shares", "reports"}
    Requests = {r1, r2}
    MaxCuts = 1
    None = None
    Trips = {x1}
    TripAmounts = {1}
    Freights = {1, 2}
    LateDays = {0, 1}
    GraceDays = 0
    FeePerDay = 1
    MaxTripRows = 2
    MaxTripBegun = 2
    d1 = d1
    d2 = d2
    e1 = e1
    e2 = e2
    c1 = c1
    k1 = k1
    k2 = k2
    MaxSheets = 2
    MaxRides = 2
    Clients = {c1}
    Drivers = {e1, e2}
    Cars = {k1, k2}
    Docs = {d1, d2}
    Registered = {e2}
    MaxDays = 1
    MaxPairBegun = 4
    SheetForms <- MCSheetForms
    SheetEdits <- MCSheetEdits
    RideForms <- MCRideForms
    RideEdits <- MCRideEdits
    p1 = p1
    p2 = p2
    DealIds = {l1, l2}
    DealParties = {p1, p2}
    DealForms <- MCDealForms
    MaxDealTries = 1
    MaxDealBegun = 3
    Partners = {q1, q2, q3}
    Paperwork = {x1}
    MaxPartyBegun = 2
    Holders = {"usd", "egp"}
    DollarHolders = {"usd"}
    Boxes = {"a", "b"}
    LastDate = 2
    Openings <- MCOpenings
    Postings <- MCPostings
    MaxRows = 4
    g1 = g1
    Suppliers = {s1, s2}
    Goods = {g1}
    Bought <- MCBought
    LastShareDay = 2
    ListPrices = {0, 1}
    MaxLists = 2
    Sales = {x1}
    SaleForms <- MCSaleForms
    Capital = 1
    CartonExpense = 1
    CapitalMoves = {1}
    MaxMoves = 1
    MaxShareBegun = 2
    Bills = {l1, l2}
    BillForms <- MCBillForms
    Wagons = {r1, r2}
    Budgets = {x1}
    BudgetForms <- MCBudgetForms
    Costs = {2}
    Totals = {1}
    Unit = 100
    Percents = {30}
    Dates = {1, 2}
    MaxCosts = 1
    MaxCharges = 1
SYMMETRY DeskSymmetry
INVARIANTS
    DeskTypeOK
    PaymentsBacked
    TripBooksAgree
    PairsAgree
    DealsPosted
    PartiesPaired
    
    PriceListsApart
    
PROPERTIES
    HolderKeepsPast
CHECK_DEADLOCK FALSE
