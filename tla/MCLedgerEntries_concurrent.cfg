SPECIFICATION Spec
CONSTANTS
    Requests = {r1, r2}
    Rows = {t1, t2, t3}
    Groups = {g1, g2}
    Parties = {p1, p2}
    Amounts = {1, 2}
    Dates = {d1}
    Rates = {1}
    Kinds = {"partyTransfer", "unknown"}
    Handlers = {"update", "resolve", "remove"}
    MayFail = TRUE
    None = None
SYMMETRY Symmetry
INVARIANTS
    TypeOK
    PairsWhole
