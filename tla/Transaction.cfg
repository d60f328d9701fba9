SPECIFICATION FairSpec
CONSTANTS
    r1 = r1
    r2 = r2
    c1 = c1
    Requests = {r1, r2}
    Conns = {c1}
    NoCon = NoCon
    Types <- TxTypes
    Breaks = TRUE
    MaxDepth = 2
    MaxWrites = 2
INVARIANTS
    TypeOK
    ConnectionsAccounted
    NothingLeftOver
    AllOrNothing
PROPERTIES
    PoolRefills
