--------------------------- MODULE RoomLifecycle ----------------------------
(***************************************************************************)
(* The life of a multi-user room in prose-core-client: the repository of   *)
(* connected rooms (in_memory_connected_rooms_repository.rs), joining and  *)
(* reconnecting (RoomsDomainService) and the handlers that take a room     *)
(* away or mark it disconnected (SidebarDomainService).                    *)
(*                                                                         *)
(* A Room is an Arc: a task keeps the Arc it found while the repository    *)
(* goes on with another one, and what it then writes is seen by nobody.    *)
(* `arc[r]` numbers the Arc that the repository holds for r, and a task    *)
(* remembers the number it got.  A step is the code between two awaits;    *)
(* the look-up and the write of insert_connecting_room, which several      *)
(* threads may reach at once, are two.  Names, participants, sidebar state *)
(* and bookmarks are left out.                                             *)
(***************************************************************************)
EXTENDS Naturals

CONSTANTS
    MucIds,         \* rooms
    NoRoom,         \* no such room
    NewLocation,    \* the room that takes the place of a destroyed one
    UserJoins,      \* RoomsService::join_room (JoinRoomBehavior::user_initiated)
    Invites,        \* ReceivedInvitation (RetainOnError)
    BookmarkJoins,  \* bookmarks (JoinRoomBehavior::system_initiated)
    Moves,          \* Destroyed events that name an alternate room
    PingTasks,      \* visits of a room by handle_ping_timer_event
    Reloads,        \* handle_changed_room_config, reconfigure_room_with_spec
    RoomOf,         \* the room a task starts with
    MaxSessions     \* bound: connections made in a behaviour

Tasks == UserJoins \cup Invites \cup BookmarkJoins \cup Moves \cup PingTasks \cup Reloads

ASSUME RoomAssumption ==
    /\ NoRoom \notin MucIds
    /\ NewLocation \in [MucIds -> MucIds \cup {NoRoom}]
    /\ \A r \in MucIds : NewLocation[r] # r
    /\ RoomOf \in [Tasks -> MucIds]
    /\ \A t \in Moves : NewLocation[RoomOf[t]] # NoRoom
    /\ MaxSessions \in Nat \ {0}
    /\ UserJoins \cap (Invites \cup BookmarkJoins \cup Moves \cup PingTasks \cup Reloads) = {}

VARIABLES
    state,      \* RoomState; "Retry" and "Final" are Disconnected with and
                \* without can_retry, "Absent" is no entry in the repository
    arc,        \* the Arc the repository holds, 0 for none
    known,      \* the RoomType is not Unknown
    joinedIn,   \* history: the session whose join resolved the room
    arcs,       \* number of Arcs made so far
    retyped,    \* history: the Arcs that replaced the one of a connecting room
    pc,         \* where a task is
    at,         \* the room a task is joining
    handle,     \* the Arc a task holds while it may write to it
    sent,       \* the session in which a task sent its join, until it ends
    session,    \* number of connections so far
    online,     \* the stream of the current connection is up
    account,    \* connection_properties are set (connected_account() is Ok)
    lost        \* Disconnected events whose handler has not run yet

rooms == <<state, arc, known, joinedIn, arcs, retyped>>
tasks == <<pc, at, handle, sent>>
network == <<session, online, account, lost>>
vars == <<rooms, tasks, network>>

Disconnected == {"Retry", "Final"}
States == {"Absent", "Pending", "Connecting", "Connected"} \cup Disconnected

Init ==
    /\ state = [r \in MucIds |-> "Absent"]
    /\ arc = [r \in MucIds |-> 0]
    /\ known = [r \in MucIds |-> FALSE]
    /\ joinedIn = [r \in MucIds |-> 0]
    /\ arcs = 0
    /\ retyped = {}
    /\ pc = [t \in Tasks |-> "idle"]
    /\ at = RoomOf
    /\ handle = [t \in Tasks |-> 0]
    /\ sent = [t \in Tasks |-> 0]
    /\ session = 1
    /\ online = TRUE
    /\ account = TRUE
    /\ lost = 0

-----------------------------------------------------------------------------
(***************************************************************************)
(* The repository.                                                         *)
(***************************************************************************)

\* set, set_or_replace or update put a new Arc under r.
Put(r, s, isKnown, in) ==
    /\ state' = [state EXCEPT ![r] = s]
    /\ arc' = [arc EXCEPT ![r] = arcs + 1]
    /\ known' = [known EXCEPT ![r] = isKnown]
    /\ joinedIn' = [joinedIn EXCEPT ![r] = in]
    /\ arcs' = arcs + 1
    /\ retyped' = IF state[r] = "Connecting" /\ s = "Connecting" THEN retyped \cup {arcs + 1}
                  ELSE retyped

\* delete(r) for every r in R.
Delete(R) ==
    /\ state' = [r \in MucIds |-> IF r \in R THEN "Absent" ELSE state[r]]
    /\ arc' = [r \in MucIds |-> IF r \in R THEN 0 ELSE arc[r]]
    /\ known' = [r \in MucIds |-> r \notin R /\ known[r]]
    /\ joinedIn' = [r \in MucIds |-> IF r \in R THEN 0 ELSE joinedIn[r]]
    /\ UNCHANGED <<arcs, retyped>>

\* Room::set_state through the Arc h of room r.
SetState(r, h, s) ==
    /\ state' = IF h # 0 /\ arc[r] = h THEN [state EXCEPT ![r] = s] ELSE state
    /\ UNCHANGED <<arc, known, joinedIn, arcs, retyped>>

Goto(t, l) == pc' = [pc EXCEPT ![t] = l]

Hold(t, h) == handle' = [handle EXCEPT ![t] = h]

-----------------------------------------------------------------------------
(***************************************************************************)
(* How a join begins.                                                      *)
(***************************************************************************)

\* insert_item_by_creating_or_joining_room, up to get_user_info.
StartJoin(t) ==
    /\ t \in UserJoins \cup Invites
    /\ pc[t] = "idle"
    /\ Goto(t, IF account THEN "preparing" ELSE "aborted")
    /\ UNCHANGED <<rooms, at, handle, sent, network>>

\* extend_items_from_bookmarks_with_context, up to get_user_info: a room that
\* is not disconnected is skipped, otherwise a pending one is inserted (if
\* there is none) and joined.
ReceiveBookmark(t) ==
    /\ t \in BookmarkJoins
    /\ pc[t] = "idle"
    /\ LET r == RoomOf[t]
           skipped == state[r] \notin Disconnected \cup {"Absent"}
       IN  /\ Goto(t, CASE ~account -> "aborted"
                        [] account /\ skipped -> "done"
                        [] OTHER -> "preparing")
           /\ IF account /\ state[r] = "Absent"
              THEN Put(r, "Pending", TRUE, 0)
              ELSE UNCHANGED rooms
    /\ UNCHANGED <<at, handle, sent, network>>

\* reconnect_room_if_needed, up to the self-ping or get_user_info.
PingRoom(t) ==
    /\ t \in PingTasks
    /\ pc[t] = "idle"
    /\ account
    /\ LET r == RoomOf[t]
       IN  /\ Goto(t, CASE state[r] = "Connected" -> "pinging"
                        [] state[r] = "Retry" -> "preparing"
                        [] OTHER -> "done")
           /\ Hold(t, IF state[r] = "Connected" THEN arc[r] ELSE 0)
           /\ IF state[r] = "Retry"
              THEN SetState(r, arc[r], "Pending")
              ELSE UNCHANGED rooms
    /\ UNCHANGED <<at, sent, network>>

\* handle_destroyed_room with an alternate room, up to get_user_info: the room
\* is deleted and, unless it is there already, a pending alternate inserted.
HandleDestroyedRoom(t) ==
    /\ t \in Moves
    /\ pc[t] = "idle"
    /\ online
    /\ state[RoomOf[t]] # "Absent"
    /\ LET r == RoomOf[t]
           new == NewLocation[r]
           inserts == state[new] = "Absent"
       IN  /\ state' = [state EXCEPT ![r] = "Absent",
                                     ![new] = IF inserts THEN "Pending" ELSE @]
           /\ arc' = [arc EXCEPT ![r] = 0,
                                 ![new] = IF inserts THEN arcs + 1 ELSE @]
           /\ known' = [known EXCEPT ![r] = FALSE, ![new] = inserts \/ @]
           /\ joinedIn' = [joinedIn EXCEPT ![r] = 0]
           /\ arcs' = IF inserts THEN arcs + 1 ELSE arcs
           /\ at' = [at EXCEPT ![t] = new]
           /\ Goto(t, IF inserts THEN "preparing" ELSE "done")
    /\ UNCHANGED <<retyped, handle, sent, network>>

\* The self-ping came back, or with an error that does not mean that we left.
SelfPingStillJoined(t) ==
    /\ pc[t] = "pinging"
    /\ Hold(t, 0)
    /\ Goto(t, "done")
    /\ UNCHANGED <<rooms, at, sent, network>>

\* Disconnected, TimedOut, RemoteServerNotFound or RemoteServerTimeout.
SelfPingUnreachable(t) ==
    /\ pc[t] = "pinging"
    /\ SetState(at[t], handle[t], "Retry")
    /\ Hold(t, 0)
    /\ Goto(t, "done")
    /\ UNCHANGED <<at, sent, network>>

\* Any other error: reconnect_room, up to get_user_info.
SelfPingNotJoined(t) ==
    /\ pc[t] = "pinging"
    /\ SetState(at[t], handle[t], "Pending")
    /\ Hold(t, 0)
    /\ Goto(t, IF account THEN "preparing" ELSE "aborted")
    /\ UNCHANGED <<at, sent, network>>

-----------------------------------------------------------------------------
(***************************************************************************)
(* join_room and finalize_pending_room.                                    *)
(***************************************************************************)

\* get_user_info and the account settings are there.
Prepared(t) ==
    /\ pc[t] = "preparing"
    /\ Goto(t, "inserting")
    /\ UNCHANGED <<rooms, at, handle, sent, network>>

\* One of them failed, and `?` leaves join_room.
PrepareFails(t) ==
    /\ pc[t] = "preparing"
    /\ Goto(t, "aborted")
    /\ UNCHANGED <<rooms, at, handle, sent, network>>

\* insert_connecting_room, the look-up: is there a room to be taken over?
LookUp(t) ==
    /\ pc[t] = "inserting"
    /\ IF state[at[t]] \in Disconnected \cup {"Pending"}
       THEN Goto(t, "claiming") /\ Hold(t, arc[at[t]])
       ELSE Goto(t, "setting") /\ UNCHANGED handle
    /\ UNCHANGED <<rooms, at, sent, network>>

\* insert_connecting_room: the room found is switched to Connecting.
Claim(t) ==
    /\ pc[t] = "claiming"
    /\ SetState(at[t], handle[t], "Connecting")
    /\ Goto(t, "joining")
    /\ sent' = [sent EXCEPT ![t] = session]
    /\ UNCHANGED <<at, handle, network>>

\* insert_connecting_room: a new room is set, unless there is one by now.
SetConnecting(t) ==
    /\ pc[t] = "setting"
    /\ state[at[t]] = "Absent"
    /\ Put(at[t], "Connecting", FALSE, 0)
    /\ Hold(t, arcs + 1)
    /\ Goto(t, "joining")
    /\ sent' = [sent EXCEPT ![t] = session]
    /\ UNCHANGED <<at, network>>

\* RoomIsAlreadyConnected.
AlreadyConnected(t) ==
    /\ pc[t] = "setting"
    /\ state[at[t]] # "Absent"
    /\ Goto(t, "done")
    /\ UNCHANGED <<rooms, at, handle, sent, network>>

\* The server let us in.
JoinOk(t) ==
    /\ pc[t] = "joining"
    /\ online
    /\ sent[t] = session
    /\ Hold(t, 0)
    /\ Goto(t, "joined")
    /\ UNCHANGED <<rooms, at, sent, network>>

\* Mutant: a tombstone without a new location is followed too.
FollowAlways(t) ==
    /\ pc[t] = "joining"
    /\ online
    /\ sent[t] = session
    /\ Delete({at[t]})
    /\ at' = [at EXCEPT ![t] = NewLocation[at[t]]]
    /\ Hold(t, 0)
    /\ Goto(t, "inserting")
    /\ UNCHANGED <<sent, network>>

\* A tombstone with a new location (every caller passes FollowIfGone).
FollowIfGone(t) ==
    /\ pc[t] = "joining"
    /\ online
    /\ sent[t] = session
    /\ NewLocation[at[t]] # NoRoom
    /\ Delete({at[t]})
    /\ at' = [at EXCEPT ![t] = NewLocation[at[t]]]
    /\ Hold(t, 0)
    /\ Goto(t, "inserting")
    /\ UNCHANGED <<sent, network>>

\* Mutant: a failed join keeps the state of the room.
JoinFailsKeepsState(t) ==
    /\ pc[t] = "joining"
    /\ IF t \in UserJoins THEN Delete({RoomOf[t]}) ELSE UNCHANGED rooms
    /\ Goto(t, "failed")
    /\ UNCHANGED <<at, handle, sent, network>>

\* Mutant: every failed join retains its room.
JoinFailsRetains(t) ==
    /\ pc[t] = "joining"
    /\ SetState(at[t], handle[t], "Retry")
    /\ Goto(t, "failed")
    /\ UNCHANGED <<at, handle, sent, network>>

\* Any other error, a timeout or a lost connection.  The closure that cleans
\* up has captured the room_id that join_room was called with.
JoinFails(t) ==
    /\ pc[t] = "joining"
    /\ IF t \in UserJoins
       THEN Delete({RoomOf[t]})
       ELSE SetState(at[t], handle[t], "Retry")
    /\ Goto(t, "failed")
    /\ sent' = [sent EXCEPT ![t] = 0]
    /\ UNCHANGED <<at, handle, network>>

\* finalize_pending_room, up to the vCards and the settings.
Finalize(t) ==
    /\ pc[t] = "joined"
    /\ Goto(t, IF account THEN "resolving" ELSE "aborted")
    /\ UNCHANGED <<rooms, at, handle, sent, network>>

\* Mutant: the room is put back as it was.
ResolveKeeps(t) ==
    /\ pc[t] = "resolving"
    /\ Goto(t, "done")
    /\ UNCHANGED <<rooms, at, handle, sent, network>>

\* finalize_pending_room, the update: only a connecting room is resolved.
Resolve(t) ==
    /\ pc[t] = "resolving"
    /\ IF state[at[t]] = "Connecting"
       THEN Put(at[t], "Connected", TRUE, sent[t])
       ELSE UNCHANGED rooms
    /\ Goto(t, IF state[at[t]] = "Absent" THEN "aborted" ELSE "done")
    /\ sent' = [sent EXCEPT ![t] = 0]
    /\ UNCHANGED <<at, handle, network>>

-----------------------------------------------------------------------------
(***************************************************************************)
(* Changes of the type of a room.                                          *)
(***************************************************************************)

\* handle_changed_room_config, up to load_room_config, of a room that is not
\* connecting; reconfigure_room_with_spec, up to the answer, of a room whose
\* type is known.
ReloadConfig(t) ==
    /\ t \in Reloads
    /\ pc[t] = "idle"
    /\ account
    /\ state[RoomOf[t]] # "Absent"
    /\ known[RoomOf[t]] \/ state[RoomOf[t]] # "Connecting"
    /\ Goto(t, "loading")
    /\ UNCHANGED <<rooms, at, handle, sent, network>>

\* The type is the same as before, or the request failed.
TypeRemains(t) ==
    /\ pc[t] = "loading"
    /\ Goto(t, "done")
    /\ UNCHANGED <<rooms, at, handle, sent, network>>

\* update with by_changing_type: a new Arc with the state of the room that is
\* there now, connecting or not.
ChangeType(t) ==
    /\ pc[t] = "loading"
    /\ IF state[at[t]] # "Absent"
       THEN Put(at[t], state[at[t]], TRUE, joinedIn[at[t]]) /\ Goto(t, "done")
       ELSE UNCHANGED rooms /\ Goto(t, "aborted")
    /\ UNCHANGED <<at, handle, sent, network>>

-----------------------------------------------------------------------------
(***************************************************************************)
(* Events that take rooms away, and the connection.                        *)
(***************************************************************************)

\* remove_items and handle_removed_items for a channel: nothing is done to a
\* room whose type is not known yet.
RemoveItem(r) ==
    /\ account
    /\ known[r]
    /\ Delete({r})
    /\ UNCHANGED <<tasks, network>>

\* destroy_room, once the server has destroyed the room.
DestroyRoom(r) ==
    /\ state[r] # "Absent"
    /\ Delete({r})
    /\ UNCHANGED <<tasks, network>>

\* clear_cache and handle_remote_purge.
DeleteAll ==
    /\ account
    /\ \E r \in MucIds : state[r] # "Absent"
    /\ Delete(MucIds)
    /\ UNCHANGED <<tasks, network>>

\* handle_removal_from_room, and handle_destroyed_room without an alternate
\* room (which is a permanent removal).
HandleRemovalFromRoom(r, isPermanent) ==
    /\ online
    /\ state[r] # "Absent"
    /\ SetState(r, arc[r], IF isPermanent THEN "Final" ELSE "Retry")
    /\ UNCHANGED <<tasks, network>>

\* handle_disconnect: every room in the repository can be retried.
AllDisconnected ==
    /\ state' = [r \in MucIds |->
                   IF state[r] = "Absent" THEN "Absent" ELSE "Retry"]
    /\ UNCHANGED <<arc, known, joinedIn, arcs, retyped>>

\* The stream ends; its Disconnected event is on its way.
LoseConnection ==
    /\ online
    /\ online' = FALSE
    /\ lost' = lost + 1
    /\ UNCHANGED <<rooms, tasks, session, account>>

\* ConnectionEventHandler, Disconnected.
HandleDisconnected ==
    /\ lost > 0
    /\ lost' = lost - 1
    /\ IF account THEN AllDisconnected ELSE UNCHANGED rooms
    /\ UNCHANGED <<tasks, session, online, account>>

\* ConnectionService::disconnect.
Disconnect ==
    /\ online
    /\ online' = FALSE
    /\ AllDisconnected
    /\ account' = FALSE
    /\ lost' = lost + 1
    /\ UNCHANGED <<tasks, session>>

\* The application calls connect once it knows that the connection is gone:
\* from the event that the handler of Disconnected dispatches, or because it
\* has called disconnect itself (and then the handler may still be pending).
MayConnect == ~online /\ (account => lost = 0)

\* ConnectionService::connect.
Connect ==
    /\ MayConnect
    /\ session < MaxSessions
    /\ session' = session + 1
    /\ online' = TRUE
    /\ account' = TRUE
    /\ UNCHANGED <<rooms, tasks, lost>>

\* connect gets no connection and takes the connection_properties back.
ConnectFails ==
    /\ MayConnect
    /\ account
    /\ account' = FALSE
    /\ UNCHANGED <<rooms, tasks, session, online, lost>>

-----------------------------------------------------------------------------
\* The steps of a task that do not wait for anybody.
Local(t) ==
    \/ LookUp(t)
    \/ Claim(t)
    \/ SetConnecting(t)
    \/ AlreadyConnected(t)
    \/ Finalize(t)
    \/ Resolve(t)

\* Answers to the requests of a task.
Answer(t) ==
    \/ SelfPingStillJoined(t)
    \/ SelfPingUnreachable(t)
    \/ SelfPingNotJoined(t)
    \/ Prepared(t)
    \/ PrepareFails(t)
    \/ JoinOk(t)
    \/ FollowIfGone(t)
    \/ JoinFails(t)
    \/ TypeRemains(t)
    \/ ChangeType(t)

Step(t) ==
    \/ StartJoin(t)
    \/ ReceiveBookmark(t)
    \/ PingRoom(t)
    \/ HandleDestroyedRoom(t)
    \/ ReloadConfig(t)
    \/ Local(t)
    \/ Answer(t)

Next ==
    \/ \E t \in Tasks : Step(t)
    \/ \E r \in MucIds : \/ RemoveItem(r)
                         \/ DestroyRoom(r)
                         \/ \E p \in BOOLEAN : HandleRemovalFromRoom(r, p)
    \/ DeleteAll
    \/ LoseConnection
    \/ HandleDisconnected
    \/ Disconnect
    \/ Connect
    \/ ConnectFails

Spec == Init /\ [][Next]_vars

(***************************************************************************)
(* Tasks make progress and every request completes, with an answer or with *)
(* a timeout (EveryRequestCompletes of RequestFutures).                    *)
(***************************************************************************)
Fairness == \A t \in Tasks : WF_vars(Local(t)) /\ WF_vars(Answer(t))

FairSpec == Spec /\ Fairness

-----------------------------------------------------------------------------
(***************************************************************************)
(* Properties.                                                             *)
(***************************************************************************)

\* Type invariant.
TypeOK ==
    /\ state \in [MucIds -> States]
    /\ arc \in [MucIds -> 0 .. arcs]
    /\ known \in [MucIds -> BOOLEAN]
    /\ joinedIn \in [MucIds -> 0 .. MaxSessions]
    /\ arcs \in Nat
    /\ retyped \in SUBSET Nat
    /\ pc \in [Tasks -> {"idle", "pinging", "loading", "preparing", "inserting",
                         "claiming", "setting", "joining", "joined",
                         "resolving", "done", "failed", "aborted"}]
    /\ at \in [Tasks -> MucIds]
    /\ handle \in [Tasks -> 0 .. arcs]
    /\ sent \in [Tasks -> 0 .. MaxSessions]
    /\ session \in 1 .. MaxSessions
    /\ online \in BOOLEAN
    /\ account \in BOOLEAN
    /\ lost \in Nat
    /\ \A r \in MucIds : (state[r] = "Absent") <=> (arc[r] = 0)

Joining(t, r) == pc[t] \in {"joining", "joined", "resolving"} /\ at[t] = r

\* A room that shows as connecting is being joined by somebody: no task ends
\* and leaves a room in Connecting, which the ping timer and the bookmarks
\* leave alone and a new join takes for an existing connection.  Not so when
\* the type of the room changed meanwhile: a join that fails marks the Arc it
\* holds, and the one that took its place stays connecting.
ConnectingIsOwned ==
    \A r \in MucIds :
      state[r] = "Connecting" /\ arc[r] \notin retyped => \E t \in Tasks : Joining(t, r)

\* JoinRoomFailureBehavior::RemoveOnError: "If the connection fails, the room
\* is removed."
RemoveOnErrorRemoves ==
    \A t \in UserJoins :
      pc[t] = "failed" /\ handle[t] # 0 => arc[at[t]] # handle[t]

\* finalize_pending_room does not resolve a room that "has been modified in
\* the meanwhile": once the loss of a connection has been handled, no room is
\* connected on the strength of a join of that connection.
ConnectedInThisSession ==
    \A r \in MucIds :
      state[r] = "Connected" /\ lost = 0 => joinedIn[r] = session

\* reconnect_room_if_needed: "disconnected with no chance of retrying, we'll
\* leave it alone".
PermanentRemovalIsFinal ==
    [][\A t \in PingTasks, r \in MucIds :
         pc[t] = "pinging" /\ pc'[t] # "pinging" /\ state[r] = "Final"
           => state'[r] = "Final"]_vars

Connecting(r) == state[r] = "Connecting" /\ arc[r] \notin retyped

\* Whatever happens to the join, a connecting room does not stay so, unless
\* its type changed while it was connecting.
ConnectingEnds ==
    \A r \in MucIds : []<>~Connecting(r)

-----------------------------------------------------------------------------
(***************************************************************************)
(* The inductive invariant behind these properties.                        *)
(***************************************************************************)

\* No room that a user asks to join has moved.
UserRoomsStay == \A t \in UserJoins : NewLocation[RoomOf[t]] = NoRoom

\* The room that the clean-up of a user's join takes away is the one it joins.
UserJoinsStay == \A t \in UserJoins : at[t] = RoomOf[t]

\* The properties of the connection are there as long as its stream is up.
OnlineHasAccount == online => account

\* A task that will see to a connecting room: its clean-up holds the Arc of the
\* room, it resolves the room next, or it is about to find the account.
Owns(t, r) ==
    /\ at[t] = r
    /\ \/ pc[t] = "joining" /\ handle[t] = arc[r]
       \/ pc[t] = "resolving"
       \/ pc[t] = "joined" /\ ~MayConnect

EveryConnectingOwned ==
    \A r \in MucIds : state[r] = "Connecting" /\ arc[r] \notin retyped => \E t \in Tasks : Owns(t, r)

Inv ==
    /\ TypeOK
    /\ UserJoinsStay
    /\ OnlineHasAccount
    /\ EveryConnectingOwned
    /\ RemoveOnErrorRemoves

=============================================================================
