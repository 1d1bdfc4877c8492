SPECIFICATION FairSpec
CONSTANTS
    Threads = {t1, t2, t3}
    Payloads = {jpeg, png, broken, empty}
    Decodable = {jpeg, png}
    Empty = empty
    None = none
INVARIANTS TypeOK ExclusiveNpu QueueDepthExact OwnDetections
PROPERTIES ImplementsAtomic NpuServesSomeone
