\* One instrument, two accounts that the user adds and removes while prices arrive.
SPECIFICATION Spec
CONSTANTS
    i1 = i1
    i2 = i2
    a1 = a1
    a2 = a2
    None = None
    Instruments = {i1}
    Accounts = {a1, a2}
    Prices <- MCPrices
    Bands <- OneBand
    Portfolios <- LongOrFlat
    Saved = {a1}
    Addable = {a1, a2}
    Favourites = {}
    Expiring = {i1}
    MaxDay = 2
    MaxLost = 1
INVARIANTS
    DisarmedMeansSignalled
    LinksAreBacked
PROPERTIES
    IsLedger
    OvertakenByDialogOnly
