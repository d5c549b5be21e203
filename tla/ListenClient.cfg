SPECIFICATION FairListenSpec
CONSTANTS
    Rooms = {r1, r2}
    Callers = {c1, c2}
    InitialBackoff = 1
    MaxBackoff = 2
    MaxSubscribers = 2
    MaxFaults = 2
INVARIANTS TypeOK ListenIntent SettledListens RecoveryUnderWay ConnectionPhases
PROPERTIES BackoffFallsWhenListening CountedIsListened
