SPECIFICATION Spec
CONSTANTS
    Requests = {r1}
    Rows = {t1, t2, t3, t4}
    Groups = {g1, g2}
    Parties = {p1, p2}
    Amounts = {1, 2}
    Dates = {d1, d2}
    Rates = {1, 2}
    Kinds = {"collect", "expense", "partyTransfer", "treasuryTransfer", "unknown"}
    Handlers = {"update", "resolve", "remove", "undo"}
    MayFail = FALSE
    None = None
SYMMETRY Symmetry
INVARIANTS
    EntriesAgree
    RateKept
PROPERTIES
    ResolvedOnce
