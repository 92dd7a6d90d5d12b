\* Two streams, a queue of two, backpressure, stop and restart.
SPECIFICATION FairSpec
CONSTANTS
    market = market
    portfolio = portfolio
    price = price
    position = position
    StopTopic = StopTopic
    Topics = {market, portfolio}
    Handlers = {price, position}
    Subs <- ServiceSubs
    Maxsize = 2
    MaxEvents = 3
    MaxStops = 2
INVARIANTS
    TypeOK
    InOrder
    StopIsGraceful
PROPERTIES
    IsOrderedChannel
    StopWithRoomReturns
    BackpressureEnds
\* stop() may hang: it found no room and the consumer has ended
CHECK_DEADLOCK FALSE
