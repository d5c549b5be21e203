SPECIFICATION FairSpec
CONSTANTS
    Rooms = {r1}
    Users = {u1}
    Readers = {u1}
    Pagers = {u1}
    Senders = {h1, h2}
    None = None
    PageSize = 2
    MaxMessages = 3
    MaxFaults = 1
INVARIANTS TypeOK RowHeldByOne InsertFindsRow GaplessSeq NotifiedInOrder CatchUpSkipsNothing PagesAreContiguous
PROPERTIES LogSpec PostsFinish
