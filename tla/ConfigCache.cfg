\* Two calls racing over two keys.
SPECIFICATION Spec
CONSTANTS
    k1 = k1
    k2 = k2
    Requests = {r1, r2}
    Keys = {k1, k2}
    Values = {v1, v2}
    Empty = Empty
    None = None
    Tags = {h1}
    Queries <- TwoKeyQueries
    Prefixes <- AllNames
    Ops = {"getByKey", "setByKey", "getByMultiKeys"}
    Faults = {}
SYMMETRY Symmetry
INVARIANTS IInv AnswersTheKeyAsked
PROPERTY MultiGetComplete
