SPECIFICATION FairSpec
CONSTANTS
    s1 = s1
    s2 = s2
    n1 = n1
    n2 = n2
    u1 = u1
    Nodes = {n1, n2}
    Sockets = {s1, s2}
    NodeOf <- TwoNodes
    Users = {u1}
    UserOf <- OneUser
    Callers = {h1, h2}
    None = None
    Slow = {s2}
    Lossy = {n2}
    Mortal = {n1}
    MaxWrites = 2
INVARIANTS IndicatorsTypeOK NewestShown
PROPERTIES AbsentIsSwept
CHECK_DEADLOCK FALSE
