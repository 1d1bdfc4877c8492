SPECIFICATION Spec
CONSTANTS
    Calls = {c1, c2, c3, c4}
    SessionIds = {s1, s2}
    Models = {yolov5}
    Yolov5 = yolov5
    IdleTimeout = 1
    TicksPerSecond = 2
    Images = {jpeg, empty}
    Decodable = {jpeg}
    Empty = empty
    TooLarge = {}
    Misdeclared = {}
    MaxRequests = 1
    None = none
INVARIANTS ExclusiveOwnership
