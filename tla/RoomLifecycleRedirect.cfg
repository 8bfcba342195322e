CONSTANTS
    Old = old
    New = new
    MucIds = {old, new}
    NoRoom = NoRoom
    NewLocation <- MCMoving
    UserJoins = {u1}
    Invites = {}
    BookmarkJoins = {}
    Moves = {}
    PingTasks = {}
    Reloads = {}
    RoomOf <- MCRoomOf
    MaxSessions = 1
SPECIFICATION Spec
INVARIANTS
    RemoveOnErrorRemoves
CHECK_DEADLOCK FALSE
