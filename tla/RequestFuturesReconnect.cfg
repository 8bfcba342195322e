CONSTANTS
    IqRequests = {}
    PingRequests = {ping}
    MamRequests = {mam}
    JoinRequests = {join}
    MucRequests = {}
    Rooms = {room}
    RoomOf <- MCRoomOf
    TheRoom = room
    Nobody = nobody
    Timeout = 1
    MaxConnections = 2
    MaxArchived = 1
SPECIFICATION Spec
CONSTRAINT TwoRequestsOrConnections
INVARIANTS
    NoLostWakeup
    AnsweredGetsReply
    MamComplete
PROPERTIES
    ImplementsService
CHECK_DEADLOCK FALSE
