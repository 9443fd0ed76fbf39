\* Registrations, logins, refreshes and password changes racing; nothing fails, everything must end.
SPECIFICATION FairSpec
CONSTANTS
    u1 = u1
    u2 = u2
    e1 = e1
    e2 = e2
    n1 = n1
    n2 = n2
    p1 = p1
    p2 = p2
    None = None
    UserIds = {u1, u2, u3}
    Emails = {e1, e2}
    Usernames = {n1, n2}
    Passwords = {p1, p2}
    Requests = {r1, r2}
    Tokens = {t1, t2}
    Ops = {"register", "login", "refresh", "updateMe"}
    Faults = {}
    Accounts0 <- OneAccount
    Registrations <- Colliding
INVARIANTS
    AccountsUnique
    PairsBelongToOneAccount
    LoginUsesHeldPassword
PROPERTIES
    RequestsAnswered
    SignedTokensStored
\* The clients may stop sending requests, and the tokens of an instance run out.
CHECK_DEADLOCK FALSE
