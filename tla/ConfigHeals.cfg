\* One key with its two entries, which a multi-key read names twice, where calls fail and entries are dropped by prefix.
SPECIFICATION FairSpec
CONSTANTS
    k1 = k1
    k2 = k2
    Requests = {r1, r2}
    Keys = {k1}
    Values = {v1, Empty}
    Empty = Empty
    None = None
    Tags = {h1}
    Queries <- DuplicateQueries
    Prefixes <- AllNames
    Ops = {"getByKey", "setByKey", "getByMultiKeys", "expireConfigs", "keys"}
    Faults = {"fail"}
INVARIANT StaleOnlyAfterRace
PROPERTIES MultiGetComplete CacheHeals
