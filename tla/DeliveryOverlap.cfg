SPECIFICATION DeliverySpec
CONSTANTS
    s1 = s1
    s2 = s2
    u1 = u1
    Sockets = {s1, s2}
    Users = {u1}
    UserOf <- OneUser
    None = None
    Rooms = {r1}
    Callers = {h1, h2}
    Events = {"join_room"}
    MaxDbFaults = 0
    InitialBackoff = 1
    MaxBackoff = 1
    MaxSubscribers = 4
    MaxFaults = 0
    HistoryLimit = 2
    Slow = {}
    MaxMessages = 1
INVARIANTS NothingMissed
CHECK_DEADLOCK FALSE
