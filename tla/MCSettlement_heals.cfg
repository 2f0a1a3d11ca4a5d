SPECIFICATION FairSpec
CONSTANTS
    Requests = {r1, r2}
    Items = {i1}
    Movements = {}
    Payments = {y1}
    Postings = {p1, p2}
    Accounts = {a1}
    Rates = {1}
    Quantities = {1}
    Amounts = {1}
    Capitals = {0}
    Handlers = {"addItems", "setItemRate", "removeItem", "postItems", "deletePosting", "addPayment", "deletePayment", "overview"}
    Linked = TRUE
    MaxCuts = 1
    None = None
INVARIANTS
    RowsHaveSources
PROPERTIES
    EventuallyExact
