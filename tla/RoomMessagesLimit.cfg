SPECIFICATION Spec
CONSTANTS
    Rooms = {r1}
    Users = {u1}
    Readers = {}
    Pagers = {}
    Senders = {h1}
    None = None
    PageSize = 2
    MaxMessages = 1
    MaxFaults = 0
PROPERTIES AcceptedIsStored
