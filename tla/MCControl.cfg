CONSTANTS
    Conn = {c1, c2}
    Command = {"doctor", "subscribe", "subscribe eww", "reload", "bogus", "oversized"}
    MaxClients = 1
    MaxActions = 1
    MaxBacklog = 2
    PipeSize = 1
    SocketSize = 1
    MaxRevision = 2
    PollMayFail = TRUE
SPECIFICATION Spec
INVARIANTS TornIsLast AcceptedOnce
PROPERTY ImplementsFeed
SYMMETRY ConnSymmetry
