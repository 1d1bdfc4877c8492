SPECIFICATION Spec
CONSTANTS
    Calls = {c1, c2, c3}
    SessionIds = {s1, s2}
    Models = {yolov5, other}
    Yolov5 = yolov5
    IdleTimeout = 1
    TicksPerSecond = 2
    Images = {jpeg, png, broken, empty, huge, gif}
    Decodable = {jpeg, png, huge}
    Empty = empty
    TooLarge = {huge}
    Misdeclared = {gif}
    MaxRequests = 2
    None = none
SYMMETRY Symmetry
INVARIANTS TypeOK OneHolder AnswersInOrder ClosedOnce
PROPERTIES ClosedStaysClosed RefusedOnlyWhenTaken
