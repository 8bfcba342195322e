------------------------------- MODULE Sidebar ------------------------------
(***************************************************************************)
(* The sidebar: connected rooms and their sidebar state, the bookmarks of  *)
(* the account's PubSub node, and the SidebarChanged events that make the  *)
(* application read the sidebar again.                                     *)
(*                                                                         *)
(* An operation of SidebarDomainService is a task that runs up to its next *)
(* request and goes on with the answer.  A task keeps the Room it started  *)
(* with, and the repository may have another one for the same id by the    *)
(* time the task goes on: a Room is an object here, known by a number.     *)
(*                                                                         *)
(* The server publishes a bookmark to every resource of the account, this  *)
(* one included, and answers requests in order.  How a room is joined is   *)
(* the subject of RoomLifecycle; here a join has a first part, which may   *)
(* wait for the user's own profile, and an answer.                         *)
(***************************************************************************)
EXTENDS Naturals, Sequences, FiniteSets, Functions

CONSTANTS
    Room,           \* the id of the room the behaviour is about
    Alternate,      \* the id of the room that may replace it
    MaxTasks,       \* bound: tasks at a time
    MaxOps,         \* bound: operations of the application
    MaxEvents       \* bound: changes by others

Rooms == {Room, Alternate}
None == "none"
Slots == 1 .. MaxTasks
ObjIds == 1 .. 2 * MaxTasks

\* RoomType, RoomSidebarState, RoomState.  A room that is disconnected is
\* "failed"; whether it may be tried again matters to RoomLifecycle only.
Channels == {"private", "public"}
Types == Channels \cup {"dm", "group"}
Sidebars == {"out", "in", "favorite"}
Names == {"old", "new"}
Marks == [room : Rooms, type : Types, name : Names \cup {"id"}, sidebar : Sidebars]
Objs == [room : Rooms, type : Types \cup {"unknown"}, name : Names \cup {"id", None},
         sidebar : Sidebars, state : {"pending", "connecting", "connected", "failed"}]
InSidebar(x) == x.sidebar # "out"
NoMark == [room |-> None, type |-> None, name |-> None, sidebar |-> "out"]
NoObj == [room |-> None, type |-> None, name |-> None, sidebar |-> "out", state |-> None]
Nobody == 0     \* the number of no object

VARIABLES
    objs,       \* the Rooms that something refers to
    repo,       \* ConnectedRoomsRepository
    tasks,
    net,        \* requests under way to the server
    inbox,      \* answers and events under way to the client
    marks,      \* at the server: bookmarks
    muc,        \* at the server: type and name of a room, or where it moved
    shown,      \* history: the sidebar items when SidebarChanged came last
    silent,     \* history: rooms with a change that is not announced
    unsaved,    \* history: rooms whose bookmark the server did not change
    astray,     \* history: rooms whose bookmark changed while they were joined or
                \* disconnected, or that moved while they were joined
    ops, events \* numbers of operations and of changes by others

vars == <<objs, repo, tasks, net, inbox, marks, muc, shown, silent, unsaved, astray,
          ops, events>>
server == <<marks, muc>>
history == <<silent, unsaved, astray, ops, events>>

\* SidebarService::sidebar_items.
Items(o, r) == {[o[r[i]] EXCEPT !.state = IF @ = "connecting" THEN "pending" ELSE @] :
                    i \in {i \in Rooms : r[i] # Nobody /\ o[r[i]].type # "unknown"
                                         /\ InSidebar(o[r[i]])}}

Idle == [op |-> None, room |-> None, obj |-> Nobody, mark |-> NoMark, pc |-> None]
Task(op, room, obj, mark, pc) ==
    [op |-> op, room |-> room, obj |-> obj, mark |-> mark, pc |-> pc]
Running == {s \in Slots : tasks[s].op # None}

TypeOfMuc(i) == muc[i].type
Init ==
    /\ muc \in {[i \in Rooms |-> [type |-> IF i = Room THEN t ELSE "public",
                                  name |-> "old", there |-> TRUE, moved |-> None]] :
                    t \in Types}
    \* A favorite is made by the application or elsewhere.
    /\ \E s \in Sidebars \ {"favorite"}, m \in {TRUE, FALSE} :
        marks = [i \in Rooms |-> IF i = Room /\ m
                 THEN [room |-> i, type |-> TypeOfMuc(i), name |-> "old", sidebar |-> s]
                 ELSE NoMark]
    /\ objs = [o \in ObjIds |-> NoObj]
    /\ repo = [i \in Rooms |-> Nobody]
    /\ tasks = [s \in Slots |-> Idle]
    /\ net = <<>>
    \* populate_sidebar: the bookmarks are loaded.
    /\ inbox = IF marks[Room] = NoMark THEN <<>> ELSE <<[kind |-> "added", mark |-> marks[Room]]>>
    /\ shown = {} /\ silent = {} /\ unsaved = {} /\ astray = {}
    /\ ops = 0 /\ events = 0

-----------------------------------------------------------------------------
\* A Room that nothing refers to is gone.
Kept(o) == [x \in ObjIds |->
    IF x \in Range(repo') \/ \E s \in Slots : tasks'[s].obj = x THEN o[x] ELSE NoObj]
Fresh == CHOOSE x \in ObjIds : objs[x] = NoObj
Set(o, x, room) == [o EXCEPT ![x] = room]
Announce == shown' = Items(objs', repo')
Quiet == UNCHANGED shown

\* A task begins in a free slot, goes on, or ends.
FreeSlot == CHOOSE s \in Slots : tasks[s] = Idle /\ \A q \in 1 .. s - 1 : tasks[q] # Idle
HasSlot == \E s \in Slots : tasks[s] = Idle
Do(s, t) == tasks' = [tasks EXCEPT ![s] = t]
End(s) == Do(s, Idle)
NoEffect(s) == End(s) /\ UNCHANGED <<repo, net>> /\ objs' = Kept(objs) /\ Quiet

\* TryFrom<&Room> for Bookmark; delete_bookmark, save_bookmark_for_room: the
\* request, or none for a room of unknown type.
ToBookmark(o) == [room |-> o.room, type |-> o.type, sidebar |-> o.sidebar,
                  name |-> IF o.name = None THEN "id" ELSE o.name]
SaveRequest(s, o) ==
    IF o.type = "unknown" THEN <<>> ELSE <<[kind |-> "save", mark |-> ToBookmark(o), slot |-> s]>>
DeleteRequest(s, i) == <<[kind |-> "delete", room |-> i, slot |-> s]>>

\* A task saves the bookmark of the room o and then announces, or announces
\* at once when there is no bookmark to save.
SaveThenAnnounce(s, t, x, o) ==
    LET request == SaveRequest(s, o[x]) IN
    /\ net' = net \o request
    /\ IF request = <<>> THEN End(s) ELSE Do(s, [t EXCEPT !.obj = x, !.pc = "announce"])
    /\ objs' = Kept(o)
    /\ IF request = <<>> THEN Announce ELSE Quiet

\* insert_connecting_room: the object that is connecting now.
Claimable(i) == repo[i] # Nobody => objs[repo[i]].state \in {"pending", "failed"}
Claim(s, t, sidebar) ==
    IF repo[t.room] # Nobody
    THEN /\ UNCHANGED repo
         /\ Do(s, [t EXCEPT !.obj = repo[t.room], !.pc = "join"])
         /\ objs' = Kept([objs EXCEPT ![repo[t.room]].state = "connecting"])
    ELSE /\ repo' = [repo EXCEPT ![t.room] = Fresh]
         /\ Do(s, [t EXCEPT !.obj = Fresh, !.pc = "join"])
         /\ objs' = Kept(Set(objs, Fresh, [room |-> t.room, type |-> "unknown", name |-> None,
                                           sidebar |-> sidebar, state |-> "connecting"]))

-----------------------------------------------------------------------------
\* extend_items_from_bookmarks_with_context, for one bookmark: up to the join.

NeedsJoin(m) == InSidebar(m) \/ m.type = "group"
ExtendSkipsSidebarState(s, m) == NoEffect(s)
ExtendKnown(s, m) ==
    IF objs[repo[m.room]].sidebar # m.sidebar
    THEN /\ End(s) /\ UNCHANGED <<repo, net>>
         /\ objs' = Kept([objs EXCEPT ![repo[m.room]].sidebar = m.sidebar])
         /\ Announce
    ELSE NoEffect(s)
Pending(m) ==
    [room |-> m.room, type |-> m.type, name |-> m.name, sidebar |-> m.sidebar, state |-> "pending"]
ExtendUnknown(s, m) ==
    LET inserts == NeedsJoin(m) /\ repo[m.room] = Nobody
    IN  /\ repo' = IF inserts THEN [repo EXCEPT ![m.room] = Fresh] ELSE repo
        /\ IF NeedsJoin(m) THEN Do(s, Task("extend", m.room, Nobody, m, "prepare")) ELSE End(s)
        /\ objs' = Kept(IF inserts THEN Set(objs, Fresh, Pending(m)) ELSE objs)
        /\ UNCHANGED net
        /\ Announce
Extend(s, m) ==
    IF repo[m.room] # Nobody /\ objs[repo[m.room]].state # "failed"
    THEN ExtendKnown(s, m) ELSE ExtendUnknown(s, m)

\* join_room after the profile was loaded; join_direct_message, which replaces
\* what is there unless it is connected.
SidebarOf(t) == IF t.op \in {"extend", "destroyed"} THEN t.mark.sidebar
                ELSE IF t.op = "message" THEN "out" ELSE "in"
IsDm(t) == muc[t.room].type = "dm"
Connected(i, sidebar) ==
    [room |-> i, type |-> muc[i].type, name |-> muc[i].name, sidebar |-> sidebar,
     state |-> "connected"]

\* What the operations do with the room x they joined, in the objects o.
AfterJoin(s, t, x, o) ==
    CASE t.op = "extend" ->
            IF o[x].room # t.mark.room
            THEN /\ net' = net \o SaveRequest(s, o[x])
                 /\ Do(s, [t EXCEPT !.obj = x, !.pc = "drop old"])
                 /\ objs' = Kept(o)
                 /\ IF InSidebar(t.mark) THEN Announce ELSE Quiet
            ELSE LET save == IF o[x].type # t.mark.type \/ o[x].name # t.mark.name
                             THEN SaveRequest(s, o[x]) ELSE <<>>
                 IN  /\ net' = net \o save
                     /\ IF save = <<>> THEN End(s) ELSE Do(s, [t EXCEPT !.obj = x, !.pc = "end"])
                     /\ objs' = Kept(o)
                     /\ IF InSidebar(t.mark) THEN Announce ELSE Quiet
      [] t.op = "message" ->
            IF InSidebar(o[x])
            THEN /\ End(s) /\ objs' = Kept(o) /\ Announce /\ UNCHANGED net
            ELSE SaveThenAnnounce(s, t, x, [o EXCEPT ![x].sidebar = "in"])
      [] t.op = "insert" ->
            SaveThenAnnounce(s, t, x, [o EXCEPT ![x].sidebar = IF InSidebar(o[x]) THEN @ ELSE "in"])
      [] OTHER ->   \* handle_destroyed_room: the alternate room
            SaveThenAnnounce(s, t, x, o)

Prepared(s) ==
    LET t == tasks[s] IN
    /\ t.pc = "prepare"
    /\ UNCHANGED <<inbox, server, history>>
    /\ IF IsDm(t)
       THEN /\ repo' = [repo EXCEPT ![t.room] = Fresh]
            /\ AfterJoin(s, t, Fresh, Set(objs, Fresh, Connected(t.room, SidebarOf(t))))
       ELSE IF Claimable(t.room)
       THEN /\ Claim(s, t, SidebarOf(t)) /\ UNCHANGED net /\ Quiet
       ELSE \* RoomIsAlreadyConnected
            IF t.op = "insert"
            THEN /\ UNCHANGED repo
                 /\ IF InSidebar(objs[repo[t.room]]) THEN NoEffect(s)
                    ELSE AfterJoin(s, t, repo[t.room], objs)
            ELSE /\ End(s) /\ UNCHANGED <<repo, net>> /\ objs' = Kept(objs)
                 /\ IF t.op # "extend" \/ InSidebar(t.mark) THEN Announce ELSE Quiet

\* The answer of the join: finalize_pending_room.
Joined(s) ==
    LET t == tasks[s]
        i == t.room
        resolved == [Connected(i, objs[repo[i]].sidebar) EXCEPT !.room = i]
    IN
    /\ t.pc = "join" /\ muc[i].there
    /\ UNCHANGED <<inbox, server, history>>
    /\ IF repo[i] = Nobody            \* RoomWasModified
       THEN /\ End(s) /\ UNCHANGED <<repo, net>> /\ objs' = Kept(objs)
            /\ IF (t.op = "extend" /\ ~InSidebar(t.mark)) \/ t.op = "insert" THEN Quiet ELSE Announce
       ELSE IF objs[repo[i]].state # "connecting"
       THEN /\ UNCHANGED repo /\ AfterJoin(s, t, repo[i], objs)
       ELSE /\ repo' = [repo EXCEPT ![i] = Fresh]
            /\ AfterJoin(s, t, Fresh, Set(objs, Fresh, resolved))

\* The room is gone: the redirect is followed, or the join has failed.
FollowRedirect(s) ==
    LET t == tasks[s] IN
    /\ t.pc = "join" /\ ~muc[t.room].there /\ muc[t.room].moved # None
    /\ LET n == [t EXCEPT !.room = muc[t.room].moved, !.obj = Nobody]
           r == [repo EXCEPT ![t.room] = Nobody]
           x == r[n.room]
       IN  IF x = Nobody
           THEN /\ repo' = [r EXCEPT ![n.room] = Fresh]
                /\ Do(s, [n EXCEPT !.obj = Fresh])
                /\ objs' = Kept(Set(objs, Fresh, [room |-> n.room, type |-> "unknown",
                                name |-> None, sidebar |-> SidebarOf(t), state |-> "connecting"]))
                /\ Quiet
           ELSE IF objs[x].state \in {"pending", "failed"}
           THEN /\ repo' = r /\ Do(s, [n EXCEPT !.obj = x])
                /\ objs' = Kept([objs EXCEPT ![x].state = "connecting"])
                /\ Quiet
           ELSE /\ repo' = r /\ End(s) /\ objs' = Kept(objs)
                /\ IF t.op = "extend" /\ ~InSidebar(t.mark) THEN Quiet ELSE Announce
    /\ silent' = silent \cup (IF t.op = "insert" THEN {t.room} ELSE {})
    /\ astray' = astray \cup {t.room, muc[t.room].moved}
    /\ UNCHANGED <<net, inbox, server, unsaved, ops, events>>

\* The join has failed, for one of the reasons that the code tells apart.  The
\* hidden bookmark of a room that is gone, or that the user is not a member
\* of, is deleted; other failures leave the room with an error
\* (system_initiated) or remove it (user_initiated).
JoinFails(s, reason) ==
    LET t == tasks[s]
        hidden == t.op = "extend" /\ ~InSidebar(t.mark)
    IN
    /\ t.pc = "join"
    /\ IF reason = "gone" THEN ~muc[t.room].there /\ muc[t.room].moved = None
       ELSE muc[t.room].there
    /\ IF hidden /\ reason \in {"gone", "registration required"}
       THEN /\ repo' = [repo EXCEPT ![t.mark.room] = Nobody]
            /\ net' = net \o DeleteRequest(s, t.mark.room)
            /\ Do(s, [t EXCEPT !.obj = Nobody, !.pc = "end"])
            /\ objs' = Kept(objs) /\ Quiet
       ELSE IF t.op = "insert"
       THEN /\ repo' = [repo EXCEPT ![t.room] = Nobody]
            /\ End(s) /\ UNCHANGED net /\ objs' = Kept(objs) /\ Quiet
       ELSE /\ End(s) /\ UNCHANGED <<repo, net>>
            /\ objs' = Kept([objs EXCEPT ![t.obj].state = "failed"])
            /\ IF hidden THEN Quiet ELSE Announce
    /\ silent' = silent \cup (IF t.op = "insert" THEN {o.room : o \in shown} \cap {t.room} ELSE {})
    /\ UNCHANGED <<inbox, server, unsaved, astray, ops, events>>

-----------------------------------------------------------------------------
\* Operations of the application, on a room that the repository has: any other
\* id is an error, or nothing happens.  The types of rename_item and of
\* reconfigure_item_with_spec are those of the Room<Kind> with the method.

Operation ==
    /\ ops < MaxOps /\ ops' = ops + 1 /\ HasSlot
    /\ UNCHANGED <<inbox, server, silent, unsaved, astray, events>>

\* insert_item_by_creating_or_joining_room, of a room that is not connected.
InsertItem(i) ==
    /\ Operation /\ repo[i] = Nobody
    /\ Do(FreeSlot, Task("insert", i, Nobody, NoMark, "prepare"))
    /\ UNCHANGED <<repo, net, objs, shown>>

\* toggle_item_is_favorite.
Toggle(i) ==
    /\ Operation /\ repo[i] # Nobody /\ InSidebar(objs[repo[i]])
    /\ UNCHANGED repo
    /\ SaveThenAnnounce(FreeSlot, Task("toggle", i, Nobody, NoMark, None), repo[i],
            [objs EXCEPT ![repo[i]].sidebar = IF @ = "in" THEN "favorite" ELSE "in"])

\* disconnect_and_delete_room, of the room behind i: a room whose type is not
\* known yet stays as it is.  exit_room sends a presence and waits for nothing.
WithoutRoom(i) ==
    IF objs[repo[i]].type \in {"group", "unknown"} THEN repo ELSE [repo EXCEPT ![i] = Nobody]

\* remove_items.
RemoveItem(i) ==
    LET x == repo[i] IN
    /\ Operation /\ x # Nobody
    /\ repo' = WithoutRoom(i)
    /\ CASE objs[x].type \in {"group", "private"} ->
                SaveThenAnnounce(FreeSlot, Task("remove", i, Nobody, NoMark, None), x,
                                 [objs EXCEPT ![x].sidebar = "out"])
         [] objs[x].type \in {"dm", "public"} ->
                /\ net' = net \o DeleteRequest(FreeSlot, i)
                /\ Do(FreeSlot, Task("remove", i, Nobody, NoMark, "announce"))
                /\ objs' = Kept(objs) /\ Quiet
         [] OTHER -> UNCHANGED <<net, tasks, objs>> /\ Announce

\* destroy_room.
DestroyItem(i) ==
    /\ Operation /\ repo[i] # Nobody /\ objs[repo[i]].type # "dm"
    /\ net' = net \o <<[kind |-> "destroy", room |-> i, slot |-> FreeSlot]>>
    /\ Do(FreeSlot, Task("destroy", i, Nobody, NoMark, "destroyed"))
    /\ UNCHANGED <<repo, objs, shown>>
\* The room is destroyed: it leaves the repository, then its bookmark.
Destroyed(s) ==
    /\ repo' = [repo EXCEPT ![tasks[s].room] = Nobody]
    /\ net' = net \o DeleteRequest(s, tasks[s].room)
    /\ Do(s, [tasks[s] EXCEPT !.pc = "announce"])
    /\ objs' = Kept(objs) /\ Quiet

\* rename_item, and rename_room: the name is set before the server is asked,
\* and it is set back, without an event, when the server refuses.
RenameItem(i) ==
    /\ Operation /\ repo[i] # Nobody /\ objs[repo[i]].type \in Channels
    /\ objs[repo[i]].name # "new"
    /\ net' = net \o <<[kind |-> "rename", room |-> i, slot |-> FreeSlot]>>
    /\ Do(FreeSlot, Task("rename", i, repo[i], [NoMark EXCEPT !.name = objs[repo[i]].name],
                         "renamed"))
    /\ UNCHANGED <<repo, shown>>
    /\ objs' = Kept([objs EXCEPT ![repo[i]].name = "new"])
Renamed(s) ==
    /\ UNCHANGED repo
    /\ SaveThenAnnounce(s, tasks[s], tasks[s].obj, [objs EXCEPT ![tasks[s].obj].name = "new"])
RenameFails(s) ==
    /\ End(s) /\ UNCHANGED <<repo, net>> /\ Quiet
    /\ objs' = Kept([objs EXCEPT ![tasks[s].obj].name = tasks[s].mark.name])

\* reconfigure_item_with_spec, of a channel: the room changes its type after the
\* server has; its name follows with the configuration that is then loaded.
ReconfigureItem(i) ==
    /\ Operation /\ repo[i] # Nobody /\ objs[repo[i]].type \in Channels
    /\ net' = net \o <<[kind |-> "reconfigure", room |-> i, slot |-> FreeSlot,
                        type |-> IF objs[repo[i]].type = "private" THEN "public" ELSE "private"]>>
    /\ Do(FreeSlot, Task("reconfigure", i, Nobody, NoMark, "reconfigured"))
    /\ UNCHANGED <<repo, objs, shown>>
Reconfigured(s, type) ==
    LET i == tasks[s].room IN
    IF repo[i] = Nobody THEN NoEffect(s)
    ELSE /\ repo' = [repo EXCEPT ![i] = Fresh]
         /\ Do(s, [tasks[s] EXCEPT !.obj = Fresh, !.pc = "end"])
         /\ objs' = Kept(Set(objs, Fresh, [objs[repo[i]] EXCEPT !.type = type]))
         /\ net' = net \o SaveRequest(s, objs'[Fresh])
         /\ Announce

-----------------------------------------------------------------------------
\* Events.

\* handle_removed_items: the bookmark was deleted.
HandleRemovedItemsQuietly(s, i) ==
    IF repo[i] = Nobody THEN NoEffect(s)
    ELSE /\ End(s) /\ UNCHANGED net /\ repo' = WithoutRoom(i)
         /\ objs' = Kept([objs EXCEPT ![repo[i]].sidebar =
                            IF objs[repo[i]].type = "group" THEN "out" ELSE @])
         /\ Quiet
HandleRemovedItems(s, i) ==
    IF repo[i] = Nobody THEN End(s) /\ UNCHANGED <<repo, net, objs>> /\ Announce
    ELSE /\ End(s) /\ UNCHANGED net
         /\ repo' = WithoutRoom(i)
         /\ objs' = Kept([objs EXCEPT ![repo[i]].sidebar =
                            IF objs[repo[i]].type = "group" THEN "out" ELSE @])
         /\ Announce

\* handle_remote_purge: all rooms are deleted, then those of a MUC are left one
\* after the other.  When one cannot be left, the handler ends without an event.
LeftRooms == {i \in Rooms : repo[i] # Nobody /\ objs[repo[i]].type # "dm"}
HandlePurge(s) ==
    /\ End(s) /\ UNCHANGED net
    /\ repo' = [i \in Rooms |-> Nobody]
    /\ objs' = Kept(objs)
    /\ \/ Announce
       \/ LeftRooms # {} /\ Quiet

\* The bookmark of the room that takes the place of o, in Room::pending.
MovedToOldId(o, alt) == ToBookmark(o)
MovedTo(o, alt) == [ToBookmark(o) EXCEPT !.room = alt]

\* handle_destroyed_room.  When the alternate room is connected already, it is
\* that room's bookmark that is deleted, and nothing is announced.
HandleDestroyedRoom(s, i, alt) ==
    LET x == repo[i] IN
    IF x = Nobody THEN NoEffect(s)
    ELSE IF alt = None
    THEN /\ End(s) /\ UNCHANGED <<repo, net>>
         /\ objs' = Kept([objs EXCEPT ![x].state = "failed"]) /\ Announce
    ELSE IF repo[alt] # Nobody
    THEN /\ repo' = [repo EXCEPT ![i] = Nobody]
         /\ net' = net \o DeleteRequest(s, alt)
         /\ Do(s, Task("destroyed", alt, Nobody, NoMark, "end"))
         /\ objs' = Kept(objs) /\ Quiet
    ELSE /\ repo' = [repo EXCEPT ![i] = Nobody, ![alt] = Fresh]
         /\ net' = net \o DeleteRequest(0, i)
         /\ Do(s, Task("destroyed", alt, Nobody, MovedTo(objs[x], alt), "prepare"))
         /\ objs' = Kept(Set(objs, Fresh, Pending(MovedTo(objs[x], alt))))
         /\ Announce

\* handle_changed_room_config: the configuration is loaded, and the room is
\* replaced when its type has changed (reevaluate_room_spec).
HandleChangedConfig(s, i) ==
    IF repo[i] = Nobody \/ objs[repo[i]].state = "connecting" THEN NoEffect(s)
    ELSE /\ Do(s, Task("config", i, repo[i], ToBookmark(objs[repo[i]]), "config"))
         /\ UNCHANGED <<repo, net, objs, shown>>
ConfigLoaded(s) ==
    LET t == tasks[s]
        named == [objs EXCEPT ![t.obj].name = muc[t.room].name]
        changed == <<muc[t.room].name, muc[t.room].type>> # <<t.mark.name, t.mark.type>>
    IN
    /\ t.pc = "config"
    /\ UNCHANGED <<inbox, server, history>>
    /\ IF objs[t.obj].type = muc[t.room].type
       THEN /\ UNCHANGED repo
            /\ IF changed THEN SaveThenAnnounce(s, t, t.obj, named)
               ELSE End(s) /\ UNCHANGED net /\ objs' = Kept(named) /\ Quiet
       ELSE IF repo[t.room] = Nobody
       THEN End(s) /\ UNCHANGED <<repo, net>> /\ objs' = Kept(named) /\ Quiet
       ELSE /\ repo' = [repo EXCEPT ![t.room] = Fresh]
            /\ SaveThenAnnounce(s, t, Fresh, Set(named, Fresh,
                    [named[repo[t.room]] EXCEPT !.type = muc[t.room].type]))

\* handle_received_message, of a conversation.
HandleReceivedMessage(s, i) ==
    IF repo[i] = Nobody
    THEN IF muc[i].type = "dm"
         THEN Do(s, Task("message", i, Nobody, NoMark, "prepare")) /\ UNCHANGED <<repo, net, objs, shown>>
         ELSE NoEffect(s)
    ELSE /\ UNCHANGED repo
         /\ IF objs[repo[i]].type \in {"dm", "group"} /\ ~InSidebar(objs[repo[i]])
            THEN SaveThenAnnounce(s, Task("message", i, Nobody, NoMark, None), repo[i],
                                  [objs EXCEPT ![repo[i]].sidebar = "in"])
            ELSE End(s) /\ UNCHANGED net /\ objs' = Kept(objs) /\ Announce

\* The client takes the next answer or event.
Handle(e) ==
    CASE e.kind = "added" -> HasSlot /\ Extend(FreeSlot, e.mark)
      [] e.kind = "deleted" -> HasSlot /\ HandleRemovedItems(FreeSlot, e.room)
      [] e.kind = "purged" -> HasSlot /\ HandlePurge(FreeSlot)
      [] e.kind = "destroyed" -> HasSlot /\ HandleDestroyedRoom(FreeSlot, e.room, e.alt)
      [] e.kind = "config" -> HasSlot /\ HandleChangedConfig(FreeSlot, e.room)
      [] e.kind = "message" -> HasSlot /\ HandleReceivedMessage(FreeSlot, e.room)
      [] OTHER ->   \* a bookmark that the server did not change is only logged
            LET s == e.slot IN
            CASE s = 0 -> UNCHANGED <<repo, tasks, net, objs, shown>>
              [] e.kind = "refused" /\ tasks[s].pc = "renamed" -> RenameFails(s)
              [] e.kind = "refused" /\ tasks[s].pc \in {"destroyed", "reconfigured"} -> NoEffect(s)
              [] tasks[s].pc = "announce" ->
                    End(s) /\ UNCHANGED <<repo, net>> /\ objs' = Kept(objs) /\ Announce
              [] tasks[s].pc = "destroyed" -> Destroyed(s)
              [] tasks[s].pc = "renamed" -> Renamed(s)
              [] tasks[s].pc = "reconfigured" -> Reconfigured(s, e.type)
              [] tasks[s].pc = "drop old" ->
                    /\ net' = net \o DeleteRequest(s, tasks[s].mark.room)
                    /\ Do(s, [tasks[s] EXCEPT !.obj = Nobody, !.pc = "end"])
                    /\ UNCHANGED repo /\ objs' = Kept(objs) /\ Quiet
              [] tasks[s].pc = "end" -> NoEffect(s)

Receive ==
    /\ inbox # <<>>
    /\ Handle(Head(inbox))
    /\ inbox' = Tail(inbox)
    /\ LET e == Head(inbox)
           known == e.kind = "destroyed" /\ e.alt # None /\ repo[e.alt] # Nobody
                                         /\ repo[e.room] # Nobody
           unheard == CASE known -> {e.room}
                        [] e.kind = "purged" /\ shown' # Items(objs', repo') -> Rooms
                        [] e.kind = "refused" /\ e.slot # 0 /\ tasks[e.slot].pc = "renamed" ->
                                {o.room : o \in {o \in shown : o.name = "new"}}
                        [] OTHER -> {}
       IN  /\ silent' = silent \cup unheard
           /\ astray' = astray \cup (IF known THEN Rooms ELSE {i \in Rooms :
                /\ e.kind \in {"added", "deleted", "purged"}
                /\ \/ \E s \in Running : tasks[s].room = i /\ tasks[s].pc \in {"prepare", "join"}
                   \/ repo[i] # Nobody /\ objs[repo[i]].state = "failed"})
    /\ UNCHANGED <<server, unsaved, ops, events>>

-----------------------------------------------------------------------------
\* The server, and the other clients of the account and of the room.

Serve ==
    /\ net # <<>>
    /\ LET q == Head(net)
           answer == <<[kind |-> "answer", slot |-> q.slot]>>
       IN
       CASE q.kind = "save" ->
                /\ marks' = [marks EXCEPT ![q.mark.room] = q.mark]
                /\ inbox' = inbox \o <<[kind |-> "added", mark |-> q.mark]>> \o answer
                /\ UNCHANGED muc
         [] q.kind = "delete" ->
                /\ marks' = [marks EXCEPT ![q.room] = NoMark]
                /\ inbox' = inbox \o (IF marks[q.room] = NoMark THEN <<>>
                                      ELSE <<[kind |-> "deleted", room |-> q.room]>>) \o answer
                /\ UNCHANGED muc
         [] q.kind = "destroy" ->
                /\ muc' = [muc EXCEPT ![q.room].there = FALSE]
                /\ inbox' = inbox \o (IF muc[q.room].there
                        THEN <<[kind |-> "destroyed", room |-> q.room, alt |-> None]>>
                        ELSE <<>>) \o answer
                /\ UNCHANGED marks
         [] q.kind = "rename" ->
                /\ muc' = [muc EXCEPT ![q.room].name = "new"]
                /\ inbox' = inbox \o <<[kind |-> "config", room |-> q.room]>> \o answer
                /\ UNCHANGED marks
         [] q.kind = "reconfigure" ->
                /\ muc' = [muc EXCEPT ![q.room].type = q.type, ![q.room].name = "new"]
                /\ inbox' = inbox \o <<[kind |-> "config", room |-> q.room],
                                       [kind |-> "answer", slot |-> q.slot, type |-> q.type]>>
                /\ UNCHANGED marks
    /\ net' = Tail(net)
    /\ UNCHANGED <<objs, repo, tasks, shown, history>>

\* A request fails, at the server or on the way there.
Refuse ==
    /\ net # <<>> /\ events < MaxEvents /\ events' = events + 1
    /\ LET q == Head(net) IN
        /\ inbox' = Append(inbox, [kind |-> "refused", slot |-> q.slot])
        /\ unsaved' = unsaved \cup (CASE q.kind = "save" -> {q.mark.room}
                                      [] q.kind = "delete" -> {q.room}
                                      [] OTHER -> {})
    /\ net' = Tail(net)
    /\ UNCHANGED <<objs, repo, tasks, shown, server, silent, astray, ops>>

Other ==
    /\ events < MaxEvents /\ events' = events + 1
    /\ UNCHANGED <<objs, repo, tasks, net, shown, silent, unsaved, astray, ops>>

OthersSave(i, s) ==
    /\ Other
    /\ LET m == [room |-> i, type |-> muc[i].type, name |-> muc[i].name, sidebar |-> s]
       IN  marks' = [marks EXCEPT ![i] = m]
           /\ inbox' = Append(inbox, [kind |-> "added", mark |-> m])
    /\ UNCHANGED muc
OthersDelete(i) ==
    /\ Other /\ marks[i] # NoMark
    /\ marks' = [marks EXCEPT ![i] = NoMark]
    /\ inbox' = Append(inbox, [kind |-> "deleted", room |-> i])
    /\ UNCHANGED muc
Purge ==
    /\ Other
    /\ marks' = [i \in Rooms |-> NoMark]
    /\ inbox' = Append(inbox, [kind |-> "purged"])
    /\ UNCHANGED muc
\* A room writes to the clients that entered it or are about to.
ToOccupants(i, e) ==
    IF repo[i] # Nobody /\ objs[repo[i]].state \in {"connecting", "connected"}
    THEN Append(inbox, e) ELSE inbox
OthersDestroy(alt) ==
    /\ Other /\ muc[Room].there /\ muc[Room].type # "dm"
    /\ muc' = [muc EXCEPT ![Room].there = FALSE, ![Room].moved = alt]
    /\ inbox' = ToOccupants(Room, [kind |-> "destroyed", room |-> Room, alt |-> alt])
    /\ UNCHANGED marks
OthersConfigure(i, type) ==
    /\ Other /\ muc[i].there /\ muc[i].type \in Channels
    /\ muc' = [muc EXCEPT ![i].type = type, ![i].name = "new"]
    /\ inbox' = ToOccupants(i, [kind |-> "config", room |-> i])
    /\ UNCHANGED marks
Message(i) ==
    /\ Other /\ muc[i].there
    /\ inbox' = IF muc[i].type = "dm" THEN Append(inbox, [kind |-> "message", room |-> i])
                ELSE ToOccupants(i, [kind |-> "message", room |-> i])
    /\ UNCHANGED server

Next ==
    \/ Receive \/ Serve \/ Refuse
    \/ \E s \in Slots : Prepared(s) \/ Joined(s) \/ FollowRedirect(s) \/ ConfigLoaded(s)
    \/ \E s \in Slots, reason \in {"gone", "registration required", "other"} : JoinFails(s, reason)
    \/ \E i \in Rooms : InsertItem(i) \/ Toggle(i) \/ RemoveItem(i) \/ DestroyItem(i)
                        \/ RenameItem(i) \/ ReconfigureItem(i) \/ OthersDelete(i) \/ Message(i)
    \/ \E i \in Rooms, s \in Sidebars : OthersSave(i, s)
    \/ \E i \in Rooms, t \in Channels : OthersConfigure(i, t)
    \/ \E alt \in {None, Alternate} : OthersDestroy(alt)
    \/ Purge

Spec == Init /\ [][Next]_vars

-----------------------------------------------------------------------------
\* Every variable holds a value of its type.
TypeOK ==
    /\ objs \in [ObjIds -> Objs \cup {NoObj}]
    /\ \A i \in Rooms : repo[i] # Nobody => repo[i] \in ObjIds /\ objs[repo[i]].room = i
    /\ \A i \in Rooms : marks[i] # NoMark => marks[i] \in Marks /\ marks[i].room = i
    /\ \A s \in Running : tasks[s].obj # Nobody => objs[tasks[s].obj] # NoObj

AtRest == Running = {} /\ net = <<>> /\ inbox = <<>>

\* The application was told of the sidebar as it is, once nothing is under
\* way: every operation and every handler ends with SidebarChanged when
\* something visible changed.  Not so for the rooms of `silent`: a refused
\* rename, a purge that cannot leave a room, and a join of the user that fails
\* or is redirected change the repository and end without the event.
ChangesAreAnnounced ==
    AtRest =>
        {o \in Items(objs, repo) : o.room \notin silent \cup astray} =
            {o \in shown : o.room \notin silent \cup astray}

\* Once nothing is under way the sidebar is what the bookmarks say: whatever
\* the order in which the user's changes, those of other clients and the
\* echoes of the user's own bookmarks were handled.
SidebarFollowsBookmarks ==
    AtRest => \A i \in Rooms \ (astray \cup unsaved) :
        /\ marks[i] # NoMark /\ InSidebar(marks[i]) =>
            repo[i] # Nobody /\ (objs[repo[i]].state # "failed" =>
                                    objs[repo[i]].sidebar = marks[i].sidebar)
        /\ repo[i] # Nobody /\ objs[repo[i]].state # "failed" /\ InSidebar(objs[repo[i]]) =>
            marks[i] # NoMark /\ marks[i].sidebar = objs[repo[i]].sidebar

\* A group stays connected while it has a bookmark, so that its messages
\* arrive and bring it back to the sidebar.
GroupsStayConnected ==
    AtRest => \A i \in Rooms \ (astray \cup unsaved) :
        marks[i] # NoMark /\ marks[i].type = "group" => repo[i] # Nobody

\* A room that exists loses its bookmark only when the user removes or destroys
\* it or another client deletes the bookmark: handle_destroyed_room "Removes
\* the connected room" and "Joins `alternate_room`", it does not drop that one.
BookmarksAreKept ==
    [][\A i \in Rooms : marks[i] # NoMark /\ marks'[i] = NoMark /\ muc[i].there
            => events' # events \/ \E s \in Running : tasks[s].op \in {"remove", "destroy"}]_vars
=============================================================================
