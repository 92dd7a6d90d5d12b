\* Two boots over two trading days, one session each at most; three overlapping calls.
SPECIFICATION ServiceSpec
CONSTANTS
    c1 = c1
    c2 = c2
    c3 = c3
    None = None
    Calls = {c1, c2, c3}
    MaxStarts = 4
    MaxBoots = 2
    MaxDays = 2
INVARIANTS
    ServiceTypeOK
    ApiIsOpen
    CleanSessionKeepsApi
    CleanSessionIsClosed
    NightIsQuiet
    DayIsWatched
PROPERTIES
    ClientSpec
    JobsEnd
CHECK_DEADLOCK FALSE
