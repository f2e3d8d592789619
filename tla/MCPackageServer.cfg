\* One catalog that may move, two packages of which an update drops one
SPECIFICATION MCSpec
CONSTANTS
    Keys = {k1}
    Addresses = {a1, a2}
    Conns = {c1, c2}
    None = None
    p1 = p1
    p2 = p2
    a1 = a1
    v = v
    Packages = {p1, p2}
    Contents = {v}
    Catalogs <- MCCatalogs
    MaxEvents = 2
INVARIANTS
    ProviderTypeOK
    DialedAddress
PROPERTY
    PackagesSettle
CHECK_DEADLOCK FALSE
