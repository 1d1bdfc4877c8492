SPECIFICATION Spec
CONSTANTS
    MaxVideos = 2
    MaxEvents = 1
PROPERTIES PutLatestSucceeds
CHECK_DEADLOCK FALSE
