SPECIFICATION Spec
CONSTANTS
    Requests = {r1}
    Rows = {t1, t2}
    Groups = {g1}
    Parties = {p1, p2}
    Amounts = {1}
    Dates = {d1}
    Rates = {1}
    Kinds = {"partyTransfer"}
    Handlers = {"undo"}
    MayFail = FALSE
    None = None
SYMMETRY Symmetry
INVARIANTS
    PairsWhole
