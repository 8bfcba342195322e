CONSTANTS
    Old = old
    New = new
    MucIds = {old}
    NoRoom = NoRoom
    NewLocation <- MCStaying
    UserJoins = {u1}
    Invites = {}
    BookmarkJoins = {b1}
    Moves = {}
    PingTasks = {}
    Reloads = {}
    RoomOf <- MCRoomOf
    MaxSessions = 2
SPECIFICATION Spec
INVARIANTS
    ConnectedInThisSession
CHECK_DEADLOCK FALSE
