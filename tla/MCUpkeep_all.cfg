SPECIFICATION UpkeepSpec
CONSTANTS
    Parts = {"dues", "discounts", "products", "labels", "reviews"}
    Schedules = {s1}
    Horizon = 1
    Limit = 240
    Requests = {r1, r2}
    MaxCuts = 1
    None = None
    DiscountSchedules = {x1}
    MonthLength <- MCMonths
    Periods = {1}
    DiscountLimit = 3
    MaxDropped = 1
    StartDays = {2}
    MaxDiscountBegun = 2
    Products = {q1, q2}
    Lines = {l1, l2}
    Papers = {x1}
    Prices = {0, 1}
    ProductForms <- MCProductForms
    MaxProductBegun = 1
    Labels = {q1, q2, q3}
    LabelNames = {"n", "m"}
    Uses = {l1}
    MaxLabelBegun = 3
    Records = {o1, t1}
    KindOf <- MCKindOf
    Fields = {"name"}
    FieldValues = {0, 1}
    MaxLogged = 3
    MaxReviewBegun = 2
    o1 = o1
    t1 = t1
INVARIANTS
    UpkeepTypeOK
    NoGaps
    PaidWithCash
    
    
PROPERTIES
    EveryMonthDue
    MergeKeeps
    RevertSound
CHECK_DEADLOCK FALSE
