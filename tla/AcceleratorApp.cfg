SPECIFICATION AppSpec
CONSTANTS
    Threads = {worker1, worker2, tk}
    Tk = tk
    MaxActive = 2
    Connections = {connection1}
    None = none
INVARIANTS AppTypeOK   ConnectionWhole InternalErrorOnlyByOverlap
CHECK_DEADLOCK FALSE
SYMMETRY WorkerSymmetry
