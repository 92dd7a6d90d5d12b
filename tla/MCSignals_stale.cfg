\* An account added while a signal is sent.
SPECIFICATION Spec
CONSTANTS
    i1 = i1
    i2 = i2
    a1 = a1
    a2 = a2
    None = None
    Instruments = {i1}
    Accounts = {a1}
    Prices <- MCPrices
    Bands <- OneBand
    Portfolios <- LongOrFlat
    Saved = {}
    Addable = {a1}
    Favourites = {i1}
    Expiring = {}
    MaxDay = 1
    MaxLost = 0
PROPERTIES
    AddAccountKeepsFields
