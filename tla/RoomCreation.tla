----------------------------- MODULE RoomCreation -----------------------------
(***************************************************************************)
(* Creating rooms (RoomsDomainService::create_room and what it calls):      *)
(* groups, whose id is a hash of their members so that everybody who starts *)
(* the same conversation comes to the same room, channels, whose id is      *)
(* random, and the conversion of a group into a private channel, which      *)
(* creates a channel, copies the messages and destroys the group with the   *)
(* channel as its alternate room.                                           *)
(*                                                                          *)
(* A creation is a task of many requests.  Each of them may fail, other     *)
(* tasks and other users act in between.  The server (external) answers a   *)
(* presence to a room that never was by creating it, locked until it is     *)
(* configured, and keeps a tombstone of a room that was destroyed.          *)
(***************************************************************************)
EXTENDS Naturals, Sequences, FiniteSets, SequencesExt

CONSTANTS
    Tasks,
    Me,
    Others,         \* the other participants of the group
    GroupIds,       \* the hash and its suffixed forms #0, #1, ..., in this order
    ChannelIds,     \* new ids, one for each task
    Elsewhere,      \* a channel of somebody else
    MaxAttempts,    \* attempts at a nickname (10)
    MaxFailures, MaxOthers

None == "none"
Groups == Range(GroupIds)
Ids == Groups \cup Range(ChannelIds) \cup {Elsewhere}
Kinds == {"group", "private", "public"}

VARIABLES
    rooms,      \* at the server
    repo,       \* ConnectedRoomsRepository: the state of a room
    notices,    \* rooms whose destruction we are told of
    tasks,
    left,       \* history: rooms that a failed creation could not or did not destroy
    unsent,     \* history: rooms whose invitations could not be sent
    failures, others

vars == <<rooms, repo, notices, tasks, left, unsent, failures, others>>
history == <<left, unsent, failures, others>>

NoRoom == [there |-> "never", type |-> None, moved |-> None, by |-> None,
           members |-> {}, taken |-> 0]
Live(i) == rooms[i].there \in {"locked", "open"}
Idle == [op |-> None, pc |-> "idle", id |-> None, old |-> None, attempt |-> 0, nick |-> 0,
         created |-> FALSE, todo |-> {}]

Init ==
    /\ \E n \in 0 .. 1 :
        rooms = [i \in Ids |-> IF i = Elsewhere
                 THEN [NoRoom EXCEPT !.there = "open", !.type = "private", !.by = "other", !.taken = n]
                 ELSE NoRoom]
    /\ repo = [i \in Ids |-> None]
    /\ notices = {}
    /\ tasks = [t \in Tasks |-> Idle]
    /\ left = {} /\ unsent = {} /\ failures = 0 /\ others = 0

-----------------------------------------------------------------------------
To(t, new) == tasks' = [tasks EXCEPT ![t] = new]
\* A request of a task fails.
Fails == failures < MaxFailures /\ failures' = failures + 1
Works == UNCHANGED failures

\* start_conversation with two or more participants, create_room_for_group,
\* create_room_for_private_channel, create_room_for_public_channel.
StartConversation(t, op) ==
    /\ tasks[t].pc = "idle"
    /\ To(t, [Idle EXCEPT !.op = op, !.pc = IF op = "public" THEN "unique" ELSE "names",
                          !.id = IF op = "group" THEN GroupIds[1] ELSE ChannelIds[t]])
    /\ UNCHANGED <<rooms, repo, notices, history>>

\* The end of create_room with an error: the room that a conversion took out of
\* the repository is put back unless there is one (connected_rooms_repo.set).
PutBack(r, t) ==
    IF tasks[t].old # None /\ r[tasks[t].old] = None
    THEN [r EXCEPT ![tasks[t].old] = "connected"] ELSE r
Failed(t) == To(t, [tasks[t] EXCEPT !.pc = "failed"])
GiveUp(t, r) == repo' = PutBack(r, t) /\ Failed(t)
\* create_or_join_room_with_spec "Remove pending room again".
Forgotten(i) == [repo EXCEPT ![i] = None]

\* insert_connecting_room.
Claimable(r, i) == r[i] \in {None, "failed"}

\* The loop of create_or_join_room_with_spec: the room is inserted, or it is in
\* the repository and create_room returns it.
Attempt(t, task, r) ==
    IF Claimable(r, task.id)
    THEN /\ repo' = [r EXCEPT ![task.id] = "connecting"]
         /\ To(t, [task EXCEPT !.pc = "enter", !.nick = 0, !.created = FALSE])
    ELSE /\ repo' = r
         /\ To(t, [task EXCEPT !.pc = "done"])

\* is_public_channel_name_unique: load_public_rooms, and a name that is taken.
LoadPublicRooms(t) ==
    /\ tasks[t].pc = "unique"
    /\ \/ Works /\ To(t, [tasks[t] EXCEPT !.pc = "names"])
       \/ Fails /\ Failed(t)
    /\ UNCHANGED <<rooms, repo, notices, left, unsent, others>>

\* The names of the participants and of the user are loaded; the latter has to be.
LoadNames(t) ==
    /\ tasks[t].pc = "names"
    /\ \/ Works /\ Attempt(t, tasks[t], repo)
       \/ Fails /\ GiveUp(t, repo)
    /\ UNCHANGED <<rooms, notices, left, unsent, others>>

\* The id that is tried after a tombstone (CreateUniqueIfGone).
NextId(t) == GroupIds[tasks[t].attempt + 2]

\* The room is gone (gone_err): a new id is made for it, or the id is that of
\* the new location, which is no local part of a JID.
Gone(t) ==
    LET task == tasks[t] IN
    IF task.op = "private" \/ rooms[task.id].moved # None THEN GiveUp(t, Forgotten(task.id))
    ELSE Attempt(t, [task EXCEPT !.id = NextId(t), !.attempt = @ + 1], Forgotten(task.id))

\* try_until_nickname_unique, when the nickname is taken.
ConflictOnceMore(t) ==
    IF tasks[t].nick + 1 > MaxAttempts THEN GiveUp(t, Forgotten(tasks[t].id))
    ELSE UNCHANGED repo /\ To(t, [tasks[t] EXCEPT !.nick = @ + 1])
Conflict(t) ==
    IF tasks[t].nick + 1 >= MaxAttempts THEN GiveUp(t, Forgotten(tasks[t].id))
    ELSE UNCHANGED repo /\ To(t, [tasks[t] EXCEPT !.nick = @ + 1])

\* send_presence_to_room, and what its answer means.
SendPresenceToRoom(t) ==
    LET task == tasks[t]
        room == rooms[task.id]
    IN
    CASE room.there = "gone" -> Gone(t) /\ UNCHANGED rooms
      [] room.there = "never" ->
            /\ rooms' = [rooms EXCEPT ![task.id] =
                    [NoRoom EXCEPT !.there = "locked", !.by = "us", !.members = {Me}]]
            /\ To(t, [task EXCEPT !.pc = "form", !.created = TRUE])
            /\ UNCHANGED repo
      [] room.there = "locked" -> GiveUp(t, Forgotten(task.id)) /\ UNCHANGED rooms
      [] room.there = "open" /\ room.taken > task.nick -> Conflict(t) /\ UNCHANGED rooms
      [] OTHER -> To(t, [task EXCEPT !.pc = "info"]) /\ UNCHANGED <<rooms, repo>>

\* create_reserved_room.
Enter(t) ==
    /\ tasks[t].pc = "enter"
    /\ \/ Works /\ SendPresenceToRoom(t)
       \/ Fails /\ GiveUp(t, Forgotten(tasks[t].id)) /\ UNCHANGED rooms
    /\ UNCHANGED <<notices, left, unsent, others>>

\* configure_room: the form is requested, filled out and submitted.
ConfigureRoom(t) ==
    LET task == tasks[t] IN
    /\ \/ /\ task.pc = "form"
          /\ \/ /\ Works /\ To(t, [task EXCEPT !.pc = "submit"])
                /\ UNCHANGED <<rooms, repo, left>>
             \/ /\ Fails /\ GiveUp(t, Forgotten(task.id))
                /\ left' = left \cup {task.id} /\ UNCHANGED rooms
       \/ /\ task.pc = "submit"
          /\ \/ /\ \E type \in {task.op, "generic"} :
                    /\ IF type = task.op THEN Works ELSE Fails
                    /\ rooms' = IF Live(task.id)
                                THEN [rooms EXCEPT ![task.id].there = "open", ![task.id].type = type]
                                ELSE rooms
                /\ To(t, [task EXCEPT !.pc = "info"])
                /\ UNCHANGED <<repo, left>>
             \/ /\ Fails /\ GiveUp(t, Forgotten(task.id))
                /\ left' = left \cup {task.id} /\ UNCHANGED rooms
    /\ UNCHANGED <<notices, unsent, others>>

\* A room that is not what it should be is destroyed if we created it.
RejectedOnly(t) == GiveUp(t, Forgotten(tasks[t].id))
Rejected(t) ==
    IF tasks[t].created THEN To(t, [tasks[t] EXCEPT !.pc = "undo"]) /\ UNCHANGED repo
    ELSE GiveUp(t, Forgotten(tasks[t].id))

\* load_room_info, validate_against.
LoadRoomInfo(t) ==
    LET task == tasks[t] IN
    /\ task.pc = "info"
    /\ \/ /\ Works /\ Live(task.id)
          /\ UNCHANGED left
          /\ CASE rooms[task.id].type = task.op ->
                    To(t, [task EXCEPT !.pc = "members"]) /\ UNCHANGED repo
               [] OTHER -> Rejected(t)
       \/ /\ IF Live(task.id) THEN Fails ELSE Works
          /\ GiveUp(t, Forgotten(task.id))
          /\ left' = left \cup (IF task.created THEN {task.id} ELSE {})
    /\ UNCHANGED <<rooms, notices, unsent, others>>

\* The server destroys the room i.
Destroyed(i, alternate) ==
    [rooms EXCEPT ![i] = [@ EXCEPT !.there = "gone", !.moved = alternate]]

\* destroy_room after a failure, whose own failure is ignored.
Undo(t) ==
    LET task == tasks[t] IN
    /\ task.pc = "undo"
    /\ \/ Works /\ Live(task.id) /\ rooms' = Destroyed(task.id, None) /\ UNCHANGED left
       \/ (IF Live(task.id) THEN Fails ELSE Works) /\ UNCHANGED rooms /\ left' = left \cup {task.id}
    /\ GiveUp(t, IF task.todo = {} THEN Forgotten(task.id) ELSE repo)
    /\ UNCHANGED <<notices, unsent, others>>

\* load_room_members, whose failure is ignored, and what comes next: a group
\* that was created gets its owners (create_or_join_group).
LoadRoomMembers(t) ==
    /\ tasks[t].pc = "members"
    /\ Works
    /\ To(t, [tasks[t] EXCEPT
            !.pc = IF tasks[t].op = "group" /\ tasks[t].created THEN "owners" ELSE "finalize",
            !.todo = Others])
    /\ UNCHANGED <<rooms, repo, notices, left, unsent, others>>

\* invite_users_to_room, which fails when the connection is lost.
InviteUsersToRoom(t) ==
    \/ /\ Works /\ To(t, [tasks[t] EXCEPT !.todo = {}, !.pc = "finalize"])
       /\ UNCHANGED unsent
    \/ Fails /\ Failed(t) /\ unsent' = unsent \cup {tasks[t].id}

\* set_room_owners, one user at a time; after the last one the invitations are
\* sent.
SetRoomOwners(t, u) ==
    LET task == tasks[t]
        rest == task.todo \ {u}
    IN
    /\ task.pc = "owners" /\ u \in task.todo
    /\ \/ /\ Live(task.id)
          /\ rooms' = [rooms EXCEPT ![task.id].members = @ \cup {u}]
          /\ UNCHANGED repo
          /\ IF rest = {} THEN InviteUsersToRoom(t)
             ELSE Works /\ To(t, [task EXCEPT !.todo = rest]) /\ UNCHANGED unsent
       \/ /\ IF Live(task.id) THEN Fails ELSE Works
          /\ repo' = Forgotten(task.id)
          /\ To(t, [task EXCEPT !.pc = "undo"])
          /\ UNCHANGED <<rooms, unsent>>
    /\ UNCHANGED <<notices, left, others>>

\* finalize_pending_room, once the names of the members and the settings are
\* loaded; a conversion goes on to copy the messages.
FinalizePendingRoom(t) ==
    LET task == tasks[t] IN
    /\ task.pc = "finalize"
    /\ Works
    /\ IF repo[task.id] = None THEN GiveUp(t, repo)
       ELSE /\ repo' = [repo EXCEPT ![task.id] = IF @ = "connecting" THEN "connected" ELSE @]
            /\ To(t, [task EXCEPT !.pc = IF task.old = None THEN "done" ELSE "copy"])
    /\ UNCHANGED <<rooms, notices, left, unsent, others>>

-----------------------------------------------------------------------------
\* reconfigure_room_with_spec, of a group to a private channel.
Convert(t, g) ==
    /\ tasks[t].pc = "idle" /\ repo[g] = "connected"
    /\ repo' = [repo EXCEPT ![g] = None]
    /\ To(t, [Idle EXCEPT !.op = "private", !.pc = "names", !.id = ChannelIds[t], !.old = g])
    /\ UNCHANGED <<rooms, notices, history>>

\* copy_all_messages_from_room; when it fails the group is put back and the
\* channel is destroyed, but it stays in the repository.
CopyMessages(t) ==
    LET task == tasks[t] IN
    /\ task.pc = "copy"
    /\ \/ Works /\ To(t, [task EXCEPT !.pc = "grant", !.todo = rooms[task.old].members \ {Me}])
          /\ UNCHANGED repo
       \/ Fails /\ repo' = PutBack(repo, t) /\ To(t, [task EXCEPT !.pc = "undo", !.todo = {Me}])
    /\ UNCHANGED <<rooms, notices, left, unsent, others>>

\* grant_membership, whose failure is logged.
GrantMembership(t) ==
    LET task == tasks[t] IN
    /\ task.pc = "grant"
    /\ UNCHANGED repo
    /\ IF task.todo = {}
       THEN /\ Works /\ To(t, [task EXCEPT !.pc = "destroy old"])
            /\ UNCHANGED rooms
       ELSE \E u \in task.todo :
            /\ To(t, [task EXCEPT !.todo = @ \ {u}])
            /\ \/ Works /\ rooms' = [rooms EXCEPT ![task.id].members = @ \cup {u}]
               \/ Fails /\ UNCHANGED rooms
    /\ UNCHANGED <<notices, left, unsent, others>>

\* destroy_room of the group, with the channel as its alternate; a failure is
\* logged.
DestroyOld(t) ==
    LET task == tasks[t] IN
    /\ task.pc = "destroy old"
    /\ To(t, [task EXCEPT !.pc = "done"])
    /\ \/ Works /\ rooms' = IF Live(task.old) THEN Destroyed(task.old, task.id) ELSE rooms
       \/ Fails /\ UNCHANGED rooms
    /\ UNCHANGED <<repo, notices, left, unsent, others>>

-----------------------------------------------------------------------------
\* The other participants: they start the conversation with the same algorithm,
\* and they destroy or convert the group.
Other == others < MaxOthers /\ others' = others + 1
         /\ UNCHANGED <<repo, tasks, left, unsent, failures>>
FirstNotGone == CHOOSE k \in 1 .. Len(GroupIds) :
    /\ rooms[GroupIds[k]].there # "gone"
    /\ \A j \in 1 .. k - 1 : rooms[GroupIds[j]].there = "gone"
OthersCreate ==
    /\ Other
    /\ \A i \in Groups : rooms[i].moved = None
    /\ rooms[GroupIds[FirstNotGone]].there = "never"
    /\ \E n \in 0 .. MaxAttempts :
        rooms' = [rooms EXCEPT ![GroupIds[FirstNotGone]] =
            [NoRoom EXCEPT !.there = "open", !.type = "group", !.by = "other",
                           !.members = Others \cup {Me}, !.taken = n]]
    /\ UNCHANGED notices
OthersDestroy(i, alternate) ==
    /\ Other
    /\ i \in Groups /\ rooms[i].there = "open"
    /\ rooms' = Destroyed(i, alternate)
    /\ notices' = IF repo[i] = None THEN notices ELSE notices \cup {i}

\* handle_destroyed_room, as far as the repository is concerned.
HandleDestroyedRoom(i) ==
    /\ i \in notices /\ notices' = notices \ {i}
    /\ repo' = [repo EXCEPT ![i] =
            CASE @ = None -> None [] rooms[i].moved = None -> "failed" [] OTHER -> None]
    /\ UNCHANGED <<rooms, tasks, history>>

Step(t) ==
    \/ LoadPublicRooms(t) \/ LoadNames(t) \/ Enter(t) \/ ConfigureRoom(t) \/ LoadRoomInfo(t)
    \/ Undo(t) \/ LoadRoomMembers(t) \/ FinalizePendingRoom(t)
    \/ (\E u \in Others : SetRoomOwners(t, u))
    \/ CopyMessages(t) \/ GrantMembership(t) \/ DestroyOld(t)

Next ==
    \/ \E t \in Tasks : Step(t)
    \/ \E t \in Tasks, op \in Kinds : StartConversation(t, op)
    \/ \E t \in Tasks, g \in Groups : Convert(t, g)
    \/ OthersCreate
    \/ \E i \in Groups, a \in {None, Elsewhere} : OthersDestroy(i, a)
    \/ \E i \in Groups : HandleDestroyedRoom(i)

Spec == Init /\ [][Next]_vars
\* Every request of a task is answered or fails (RequestFutures).
FairSpec == Spec /\ \A t \in Tasks : WF_vars(Step(t))

-----------------------------------------------------------------------------
Ended(t) == tasks[t].pc \in {"done", "failed"}
AtRest == notices = {} /\ \A t \in Tasks : tasks[t].pc \in {"idle", "done", "failed"}

\* Every variable holds a value of its type; a task is busy with a room.
TypeOK ==
    /\ \A i \in Ids : rooms[i].there \in {"never", "locked", "open", "gone"}
                      /\ rooms[i].type \in Kinds \cup {"generic", None}
                      /\ rooms[i].moved \in Ids \cup {None}
    /\ repo \in [Ids -> {None, "connecting", "connected", "failed"}]
    /\ notices \subseteq Ids
    /\ \A t \in Tasks : tasks[t].pc # "idle" => tasks[t].id \in Ids /\ tasks[t].op \in Kinds
    /\ \A t \in Tasks : tasks[t].nick < MaxAttempts

\* There is never more than one room of the same people: the ids are tried in
\* the same order by everybody, so a room is only created when all of those
\* before it are gone.
OneLiveGroup == Cardinality({i \in Ids : Live(i) /\ rooms[i].type = "group"}) <= 1

\* Once nothing is under way no room is left connecting, except one whose
\* invitations could not be sent: every other way out removes the pending room
\* (or completes it).
NothingLeftConnecting == AtRest => \A i \in Ids : repo[i] = "connecting" => i \in unsent

\* A room that we created and that is there once nothing is under way was
\* returned by the task that created it, or by its conversion, unless a request
\* between its creation and its validation, or the one to destroy it, failed.
NoOrphans ==
    AtRest => \A i \in Ids \ (left \cup unsent) : Live(i) /\ rooms[i].by = "us"
                => \E t \in Tasks : \/ tasks[t].id = i /\ tasks[t].pc = "done"
                                    \/ tasks[t].old = i

\* A conversion that has ended leaves the user with the group or with the
\* channel, whatever failed, unless a destroyed group was taken away since.
ConversionKeepsARoom ==
    \A t \in Tasks : Ended(t) /\ tasks[t].old # None =>
        repo[tasks[t].old] # None \/ repo[tasks[t].id] # None \/ ~Live(tasks[t].old)

Underway(t) == ~Ended(t) /\ tasks[t].pc # "idle"

\* A creation ends: the nicknames and the suffixes run out.
EveryCreationEnds == \A t \in Tasks : []<>~Underway(t)

\* FollowThenCreateUnique "Tries to join the specified alternate room when
\* encountering a tombstone with the same JID": starting the conversation again
\* after the group was converted comes to the channel.
CreationFollowsTheMove ==
    \A t \in Tasks : tasks[t].op = "group" /\ tasks[t].pc = "failed" /\ failures = 0 =>
        ~\E i \in Groups : rooms[i].there = "gone" /\ rooms[i].moved # None
                           /\ rooms[rooms[i].moved].taken = 0 /\ Live(rooms[i].moved)
=============================================================================
