CONSTANTS
    IqRequests = {iq}
    PingRequests = {}
    MamRequests = {}
    JoinRequests = {}
    MucRequests = {}
    Rooms = {}
    RoomOf <- MCRoomOf
    TheRoom = room
    Nobody = nobody
    Timeout = 1
    MaxConnections = 2
    MaxArchived = 0
SPECIFICATION Spec
INVARIANTS
    StreamEndIsQueued
CHECK_DEADLOCK FALSE
