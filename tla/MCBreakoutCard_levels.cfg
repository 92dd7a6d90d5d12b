\* Levels, ATR and the message card over days with and without trades.
SPECIFICATION Spec
CONSTANTS
    None = None
    t1 = t1
    MaxPrice = 2
    Traded = {0, 2}
    FirstDay = 4
    MaxDay = 6
    Histories <- MCHistories
    Horizon = 5
    LongWindow = 3
    ShortWindow = 2
    Period = 2
    Tasks = {t1}
    Totals <- MCTotals
    Yields <- MCYields
    PointValues <- MCPointValues
INVARIANTS
    TypeOK
    ChannelsNest
    LevelsComeInPairs
    BreakoutIsExtreme
    AtrWithinRanges
    CardRisk
