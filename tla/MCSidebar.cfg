CONSTANTS
    Old = old
    New = new
    MucIds = {old}
    NoRoom = NoRoom
    NewLocation <- MCStaying
    UserJoins = {u1}
    Invites = {}
    BookmarkJoins = {b1}
    Moves = {}
    PingTasks = {p1}
    Reloads = {c1}
    RoomOf <- MCRoomOf
    MaxSessions = 2
SPECIFICATION MCSpec
INVARIANTS
    TypesOK
    ConnectingIsOwned
    RemoveOnErrorRemoves
    ChangesAreAnnounced
    SidebarFollowsBookmarks
CHECK_DEADLOCK FALSE
