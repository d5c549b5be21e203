SPECIFICATION FairSpec
CONSTANTS
    s1 = s1
    s2 = s2
    u1 = u1
    u2 = u2
    Sockets = {s1}
    Users = {u1}
    UserOf <- OneUser
    None = None
    Rooms = {r1}
    Callers = {h1, h2}
    Events = {"join_room", "leave_room", "refuse", "sweep", "vanish", "close", "heartbeat", "shutdown"}
    MaxDbFaults = 1
    InitialBackoff = 1
    MaxBackoff = 1
    MaxSubscribers = 3
    MaxFaults = 0
INVARIANTS NodeTypeOK ClosedNotRegistered
PROPERTIES ListenSpec VanishedIsCleanedUp HandlersFinish
CHECK_DEADLOCK FALSE
