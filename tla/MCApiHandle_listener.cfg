\* A call that began before the session.
SPECIFICATION Spec
CONSTANTS
    c1 = c1
    c2 = c2
    None = None
    Calls = {c1, c2}
    MaxStarts = 3
INVARIANTS
    ListenerRuns
