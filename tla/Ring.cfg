SPECIFICATION FairSpec
CONSTANTS
    Producers = {p1, p2}
    Consumers = {c1, c2}
    Items = {d1, d2}
    NoItem = NoItem
    RING_SIZE = 2
    MaxInFlight = 2
    NumRequests = 3
INVARIANTS TypeOK CounterOrder SlotRaceFree
PROPERTIES IsFifoQueue Progress
