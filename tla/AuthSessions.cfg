\* One account's chains of logins, refreshes and logouts, with every fault.
SPECIFICATION Spec
CONSTANTS
    u1 = u1
    u2 = u2
    e1 = e1
    e2 = e2
    n1 = n1
    n2 = n2
    p1 = p1
    p2 = p2
    None = None
    UserIds = {u1}
    Emails = {e1}
    Usernames = {n1}
    Passwords = {p1}
    Requests = {r1, r2}
    Tokens = {t1, t2, t3}
    Ops = {"login", "refresh", "logout"}
    Faults = {"db", "crash", "expiry"}
    Accounts0 <- OneAccount
    Registrations <- Nobody
SYMMETRY SafetySymmetry
INVARIANTS
    IInv
    RefreshAfterEndFails
    RefreshConsumesToken
PROPERTY RefinesLifecycle
\* The clients may stop sending requests, and the tokens of an instance run out.
CHECK_DEADLOCK FALSE
