SPECIFICATION Spec
CONSTANTS
    Callers = {h1}
    Emails = {e1}
    Names = {n1}
    None = None
    MaxSessions = 3
    MaxDbFaults = 0
PROPERTIES LoggedOutStaysOut
CHECK_DEADLOCK FALSE
