SPECIFICATION FairSpec
CONSTANTS
    Calls = {c1, c2}
    MaxDatagrams = 2
INVARIANTS TypeOK UsersHaveObjects NothingLeft
PROPERTIES SignalEndsServer
CHECK_DEADLOCK FALSE
