SPECIFICATION Spec
CONSTANTS
    s1 = s1
    s2 = s2
    u1 = u1
    u2 = u2
    Sockets = {s1, s2}
    Users = {u1, u2}
    UserOf <- TwoUsers
    None = None
    Rooms = {r1}
    Callers = {h1, h2}
    Events = {"join_room", "http", "close", "heartbeat", "shutdown"}
    MaxDbFaults = 1
    InitialBackoff = 1
    MaxBackoff = 1
    MaxSubscribers = 4
    MaxFaults = 0
SYMMETRY Symmetry
INVARIANTS AckedIsServed
