SPECIFICATION SysFairSpec
CONSTANTS
    p1 = p1
    p2 = p2
    Producers = {p1, p2}
    Consumers = {c1, c2}
    Keys = {1, 2}
    Workloads <- MCWorkloads
    Items <- MCItems
    NoItem = NoItem
    RING_SIZE = 2
    MaxInFlight = 2
    NumRequests = 4
INVARIANTS AnswersCorrect BoardSafe
PROPERTIES RingPromise AllDone
