\* Two requests at once over two keys; sessions, items and the cache change under them.
SPECIFICATION Spec
CONSTANTS
    Requests = {r1, r2}
    Keys = {k1, k2}
    Values = {v1}
    Batches = {b1, b2}
    Tokens <- TwoTokens
    Introspection = Introspection
    Roles = {"admin"}
    Sent <- EachWay
    None = None
SYMMETRY Symmetry
INVARIANTS IInv LoadsAnswerTheirKey GuardedNeedsSession
