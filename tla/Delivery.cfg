SPECIFICATION DeliverySpec
CONSTANTS
    s1 = s1
    s2 = s2
    u1 = u1
    Sockets = {s1, s2}
    Users = {u1}
    UserOf <- OneUser
    None = None
    Rooms = {r1}
    Callers = {h1}
    Events = {"join_room", "leave_room", "close", "shutdown"}
    MaxDbFaults = 0
    InitialBackoff = 1
    MaxBackoff = 1
    MaxSubscribers = 3
    MaxFaults = 1
    HistoryLimit = 2
    Slow = {s2}
    MaxMessages = 2
CONSTRAINTS LostWhileAlone FirstStays
INVARIANTS DeliveryTypeOK LiveInOrder BufferedIsScheduled NothingMissed
CHECK_DEADLOCK FALSE
