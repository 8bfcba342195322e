CONSTANTS
    Old = old
    New = new
    MucIds = {old}
    NoRoom = NoRoom
    NewLocation <- MCStaying
    UserJoins = {}
    Invites = {}
    BookmarkJoins = {b1}
    Moves = {}
    PingTasks = {p1}
    Reloads = {}
    RoomOf <- MCRoomOf
    MaxSessions = 1
SPECIFICATION Spec
PROPERTIES
    PermanentRemovalIsFinal
CHECK_DEADLOCK FALSE
