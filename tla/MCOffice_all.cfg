SPECIFICATION OfficeSpec
CONSTANTS
    Parts = {"loans", "invoices", "agents"}
    Requests = {r1, r2}
    MaxCuts = 1
    None = None
    Loans = {l1}
    Ids = {u1, u2, u3}
    Quantities = {1, 2}
    InvoiceIds = {x1, x2}
    ReturnIds = {s1, s2}
    p1 = p1
    p2 = p2
    Parties = {p1, p2}
    Versions <- MCVersions
    ManualNos = {1}
    Sent = {1}
    MaxAttempt = 1
    MaxAgentTx = 2
    MaxEntries = 3
    Supplies <- MCSupplies
    AgentEdits <- MCAgentEdits
    Moves <- MCMoves
    EntryEdits <- MCEntryEdits
    MaxAgentBegun = 3
    MaxBegun = 4
SYMMETRY OfficeSymmetry
INVARIANTS
    OfficeTypeOK
    CountersWithinLoan
    
    InvoicesPosted
    InvoicesBalance
    TwinsAgree
    AgentRowsKept
PROPERTIES
    ReturnsKeepFitting
