SPECIFICATION FairSpec
CONSTANTS
    Calls = {c1, c2, c3}
    SessionIds = {s1}
    Models = {yolov5}
    Yolov5 = yolov5
    IdleTimeout = 1
    TicksPerSecond = 2
    Images = {jpeg, empty}
    Decodable = {jpeg}
    Empty = empty
    TooLarge = {}
    Misdeclared = {}
    MaxRequests = 2
    None = none
PROPERTIES CallsAnswered
