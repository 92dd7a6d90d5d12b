\* Two instruments, one account, a future that expires, calls that raise.
SPECIFICATION Spec
CONSTANTS
    i1 = i1
    i2 = i2
    a1 = a1
    a2 = a2
    None = None
    Instruments = {i1, i2}
    Accounts = {a1}
    Expiring = {i1}
INVARIANTS
    TypeOK
    EntriesAreLive
    TrackedOrMissed
