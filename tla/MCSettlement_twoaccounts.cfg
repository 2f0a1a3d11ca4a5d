SPECIFICATION FairSpec
CONSTANTS
    Requests = {r1, r2}
    Items = {}
    Movements = {}
    Payments = {y1}
    Postings = {}
    Accounts = {a1, a2}
    Rates = {1}
    Quantities = {1}
    Amounts = {1}
    Capitals = {0}
    Handlers = {"addPayment", "overview"}
    Linked = FALSE
    MaxCuts = 0
    None = None
PROPERTIES
    EventuallyExact
