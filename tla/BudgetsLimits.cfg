\* Two requests racing over one user's month of two categories.
SPECIFICATION Spec
CONSTANTS
    Requests = {r1, r2}
    Users = {a}
    TxIds = {x1, x2}
    LimitIds = {l1, l2}
    c1 = c1
    Categories = {c1, c2}
    Months = {m1}
    LimitAmounts <- SubCentLimits
    Drafts <- LimitDrafts
    Patches <- Nothing
    Filters = {None}
    CategoryTypes = {}
    PageLimit = 1
    None = None
    Ops = {"create", "delete", "getOne", "upsert", "list"}
    Faults = {"db"}
SYMMETRY BudgetSymmetry
INVARIANT LimitsUnique
PROPERTY ToldTheTruth
\* Clients may stop sending requests.
CHECK_DEADLOCK FALSE
