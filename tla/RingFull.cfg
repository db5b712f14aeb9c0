SPECIFICATION Spec
CONSTANTS
    Producers = {p1, p2}
    Consumers = {c1, c2}
    Items = {d1}
    NoItem = NoItem
    RING_SIZE = 2
    MaxInFlight = 3
    NumRequests = 4
PROPERTY BlocksWhenFull
