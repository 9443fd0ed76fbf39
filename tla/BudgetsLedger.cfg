\* Two users' transactions under two requests in flight at once.
SPECIFICATION Spec
CONSTANTS
    Requests = {r1, r2}
    Users = {a, b}
    TxIds = {x1, x2}
    LimitIds = {}
    c1 = c1
    Categories = {c1}
    Months = {m1}
    LimitAmounts <- Nothing
    Drafts <- LedgerDrafts
    Patches <- LedgerPatches
    Filters = {None, "expense"}
    CategoryTypes = {"expense"}
    PageLimit = 1
    None = None
    Ops = {"create", "update", "delete", "pages", "createCategory", "updateCategory", "deleteCategory", "listCategories"}
    Faults = {}
SYMMETRY LedgerSymmetry
INVARIANT IInv
PROPERTIES DeletedStaysDeleted OwnersOnly PagesMissNothing PagesRepeatNothing
\* Clients may stop sending requests.
CHECK_DEADLOCK FALSE
