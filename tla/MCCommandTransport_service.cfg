CONSTANTS
    Clients = {c1, c2}
    Server = server
    NoThread = nobody
    DrawKeys = {k1}
    Tags = {t1, t2}
    Nothing = nothing
    ClientOps = {"instantiateArtboard", "draw", "runOnce", "loadFile", "createDrawKey", "disconnect"}
    ServeModes = {"waitCommands", "processCommands"}
    MaxQueued = 2
SPECIFICATION FairSpec
INVARIANTS
    NoLostWakeup
    OwnObject
    BatchEndsAtItsMarker
PROPERTIES
    ImplementsService
    DrawsAreReached
\* After a disconnect the server thread is gone and the queue fills up.
CHECK_DEADLOCK FALSE
