SPECIFICATION SliceSpec
CONSTANTS
    Requests = {r1, r2}
    Items = {i1, i2}
    Movements = {m1}
    Payments = {y1}
    Postings = {p1, p2}
    Accounts = {a1, a2}
    a1 = a1
    Rates = {1}
    Quantities = {0, 1, 2}
    Amounts = {1}
    Capitals = {0, 1}
    Handlers = {"addItems", "setItemRate", "removeItem", "postItems", "deletePosting", "addCapitalMovement", "deleteCapitalMovement", "addPayment", "deletePayment", "updatePartner", "overview", "report"}
    Linked = FALSE
    MaxCuts = 0
    None = None
SYMMETRY SliceSymmetry
ACTION_CONSTRAINT InSlice
INVARIANTS
    TypeOK
    PostedItemsHavePostings
    NumbersDistinct
    PostingsNotEmpty
    ExactWhenSerial
PROPERTIES
    BookSpec
    FrozenWhilePosted
