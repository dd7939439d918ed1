SPECIFICATION MCSpec
CONSTANTS
    Conns = {a, b}
    NoConn = NoConn
    MaxSessions = 1
    Behaviours = {"reattach", "rebind", "unregister", "read_error"}
    MaxSids = 3
    MaxTasks = 2
    MaxCount = 2
    MboxCap = 1
    Methods <- MCMethods
    Classes <- MCClasses
    slot_count = 3
    frames_cap = 1
    CHANGES_HISTORY = 2
    Tiles = {1}
    PicSizes = {1}
    Readers = {v1}
    MaxReads = 1
    MaxFrames = 4
SYMMETRY ConnSymmetry
INVARIANTS
    NeverUndercounted SlotHoldsItsTask
    AdvertisedIsServed NothingIgnored 
    EventNamesItsFrame 
CHECK_DEADLOCK FALSE
