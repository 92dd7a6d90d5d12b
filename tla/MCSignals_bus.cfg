\* One instrument, one stored account, prices, portfolio updates, favourites,
\* the jobs and a crash over two days; the market insists, calls do not always fail.
SPECIFICATION MarketSpec
CONSTANTS
    i1 = i1
    i2 = i2
    a1 = a1
    a2 = a2
    None = None
    Instruments = {i1}
    Accounts = {a1}
    Prices <- MCPrices
    Bands <- TwoBands
    Portfolios <- AnyPosition
    Saved = {a1}
    Addable = {}
    Favourites = {i1}
    Expiring = {i1}
    MaxDay = 2
    MaxLost = 1
INVARIANTS
    TypeOK
    SignalBudget
PROPERTIES
    NewStampArms
    BusReturns
    RefreshEnds
    SignalGoesOut
