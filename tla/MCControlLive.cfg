CONSTANTS
    Conn = {c1, c2}
    Command = {"subscribe eww"}
    MaxClients = 2
    MaxActions = 1
    MaxBacklog = 1
    PipeSize = 1
    SocketSize = 1
    MaxRevision = 1
    PollMayFail = FALSE
SPECIFICATION FairSpec
INVARIANTS SlotsConsistent PollfdsAligned NoLostSnapshot
PROPERTIES NoInnocentDropped CatchesUp Answered StopReturns
