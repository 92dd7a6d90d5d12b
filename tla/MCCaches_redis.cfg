\* Three callers, metrics that live for two of five steps.
SPECIFICATION Spec
CONSTANTS
    a1 = a1
    a2 = a2
    a3 = a3
    None = None
    Never = Never
    Callers = {a1, a2, a3}
    TTL = 2
    MaxNow = 5
SYMMETRY CallerSymmetry
INVARIANTS
    CachesTypeOK
    MetricsAreRecent
