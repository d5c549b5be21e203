SPECIFICATION Spec
CONSTANTS
    Callers = {h1, h2}
    Emails = {e1, e2}
    Names = {n1, n2}
    None = None
    MaxSessions = 4
    MaxDbFaults = 1
SYMMETRY Symmetry
INVARIANTS SessionsTypeOK AccountsUnique HeldCanRefresh LoginsKept
