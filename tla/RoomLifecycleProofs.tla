------------------------ MODULE RoomLifecycleProofs -------------------------
(***************************************************************************)
(* Proofs about RoomLifecycle, for any set of rooms and tasks and any      *)
(* number of sessions.                                                     *)
(***************************************************************************)
EXTENDS RoomLifecycle, TLAPS

-----------------------------------------------------------------------------
(***************************************************************************)
(* The repository: what its operations keep.                               *)
(***************************************************************************)

\* The typing of the repository, with the handles the tasks hold on it.
RoomTypes ==
    /\ state \in [MucIds -> States]
    /\ arc \in [MucIds -> 0 .. arcs]
    /\ known \in [MucIds -> BOOLEAN]
    /\ joinedIn \in [MucIds -> 0 .. MaxSessions]
    /\ arcs \in Nat
    /\ retyped \in SUBSET Nat
    /\ \A r \in MucIds : (state[r] = "Absent") <=> (arc[r] = 0)

\* A room may have been joined in no session at all.
LEMMA NoSession == 0 \in 0 .. MaxSessions
BY RoomAssumption

\* A new Arc under a room keeps the typing: a room is absent exactly when the
\* repository holds no Arc for it.
LEMMA PutTypes ==
    ASSUME RoomTypes, NEW r \in MucIds, NEW s \in States \ {"Absent"},
           NEW k \in BOOLEAN, NEW i \in 0 .. MaxSessions, Put(r, s, k, i)
    PROVE  RoomTypes' /\ arcs' = arcs + 1
<1>1. arcs' \in Nat /\ arcs' = arcs + 1
  BY DEF RoomTypes, Put
<1>2. arc' \in [MucIds -> 0 .. arcs']
  BY <1>1 DEF RoomTypes, Put
<1>3. /\ state' \in [MucIds -> States]
      /\ known' \in [MucIds -> BOOLEAN]
      /\ joinedIn' \in [MucIds -> 0 .. MaxSessions]
  BY Zenon DEF RoomTypes, Put
<1>4. \A q \in MucIds : (state'[q] = "Absent") <=> (arc'[q] = 0)
  BY <1>1 DEF RoomTypes, Put
<1>5. retyped' \in SUBSET Nat
  BY <1>1 DEF RoomTypes, Put
<1>. QED BY Zenon, <1>1, <1>2, <1>3, <1>4, <1>5 DEF RoomTypes

\* Deleting rooms keeps the typing.
LEMMA DeleteTypes ==
    ASSUME RoomTypes, NEW R \in SUBSET MucIds, Delete(R)
    PROVE  RoomTypes' /\ arcs' = arcs
<1>1. /\ state' \in [MucIds -> States]
      /\ arc' \in [MucIds -> 0 .. arcs']
      /\ joinedIn' \in [MucIds -> 0 .. MaxSessions]
      /\ arcs' = arcs
  BY RoomAssumption DEF RoomTypes, Delete, States
<1>2. known' \in [MucIds -> BOOLEAN]
  BY Zenon DEF RoomTypes, Delete
<1>3. /\ \A q \in MucIds : (state'[q] = "Absent") <=> (arc'[q] = 0)
      /\ retyped' \in SUBSET Nat
  BY Zenon DEF RoomTypes, Delete
<1>. QED BY Zenon, <1>1, <1>2, <1>3 DEF RoomTypes

\* Writing through an Arc keeps the typing: an Arc that is not in the
\* repository any more is written to without effect on it.
LEMMA SetStateTypes ==
    ASSUME RoomTypes, NEW r \in MucIds, NEW h, NEW s \in States \ {"Absent"},
           SetState(r, h, s)
    PROVE  RoomTypes' /\ arcs' = arcs
BY Zenon DEF RoomTypes, SetState

\* So does marking every room of the repository as disconnected.
LEMMA AllDisconnectedTypes ==
    ASSUME RoomTypes, AllDisconnected
    PROVE  RoomTypes' /\ arcs' = arcs
BY Zenon DEF RoomTypes, AllDisconnected, States, Disconnected

-----------------------------------------------------------------------------
(***************************************************************************)
(* Type correctness.                                                       *)
(***************************************************************************)

\* The typing of the tasks and of the connection.
TaskTypes ==
    /\ pc \in [Tasks -> {"idle", "pinging", "loading", "preparing", "inserting",
                         "claiming", "setting", "joining", "joined",
                         "resolving", "done", "failed", "aborted"}]
    /\ at \in [Tasks -> MucIds]
    /\ handle \in [Tasks -> 0 .. arcs]
    /\ sent \in [Tasks -> 0 .. MaxSessions]

NetworkTypes ==
    /\ session \in 1 .. MaxSessions
    /\ online \in BOOLEAN
    /\ account \in BOOLEAN
    /\ lost \in Nat

\* The steps by which a task begins keep the types.
LEMMA BeginTypes ==
    ASSUME RoomTypes, TaskTypes, NetworkTypes, NEW t \in Tasks,
           \/ StartJoin(t) \/ ReceiveBookmark(t) \/ PingRoom(t) \/ HandleDestroyedRoom(t)
           \/ ReloadConfig(t)
    PROVE  RoomTypes' /\ TaskTypes' /\ NetworkTypes'
<1>. USE RoomAssumption
<1>1. CASE StartJoin(t) \/ ReloadConfig(t)
  BY Zenon, <1>1 DEF StartJoin, ReloadConfig, Goto, RoomTypes, TaskTypes, NetworkTypes, rooms, network
<1>2. CASE ReceiveBookmark(t)
  <2>. DEFINE r == RoomOf[t]
  <2>1. RoomTypes' /\ arcs' \in Nat /\ arcs' >= arcs
    <3>1. CASE Put(r, "Pending", TRUE, 0)
      <4>1. RoomTypes' /\ arcs' = arcs + 1
        BY Zenon, <3>1, NoSession, PutTypes DEF States
      <4>. QED BY <4>1 DEF RoomTypes
    <3>2. CASE UNCHANGED rooms
      BY <3>2 DEF RoomTypes, rooms
    <3>. QED BY Zenon, <1>2, <3>1, <3>2 DEF ReceiveBookmark
  <2>2. TaskTypes' /\ NetworkTypes'
    BY <1>2, <2>1 DEF ReceiveBookmark, Goto, TaskTypes, NetworkTypes, network, RoomTypes
  <2>. QED BY Zenon, <2>1, <2>2
<1>3. CASE PingRoom(t)
  <2>. DEFINE r == RoomOf[t]
  <2>1. RoomTypes' /\ arcs' = arcs
    <3>1. CASE SetState(r, arc[r], "Pending")
      BY Zenon, <3>1, SetStateTypes DEF States
    <3>2. CASE UNCHANGED rooms
      BY Zenon, <3>2 DEF RoomTypes, rooms
    <3>. QED BY Zenon, <1>3, <3>1, <3>2 DEF PingRoom
  <2>2. TaskTypes' /\ NetworkTypes'
    BY <1>3, <2>1 DEF PingRoom, Goto, Hold, TaskTypes, NetworkTypes, network, RoomTypes
  <2>. QED BY Zenon, <2>1, <2>2
<1>4. CASE HandleDestroyedRoom(t)
  <2>. DEFINE r == RoomOf[t]
              new == NewLocation[r]
              inserts == state[new] = "Absent"
  <2>1. r \in MucIds /\ new \in MucIds /\ new # r
    BY Zenon, <1>4 DEF HandleDestroyedRoom
  <2>2. arcs' \in Nat /\ arcs' = IF inserts THEN arcs + 1 ELSE arcs
    BY <1>4 DEF HandleDestroyedRoom, RoomTypes
  <2>3. state' \in [MucIds -> States]
    BY Zenon, <1>4, <2>1 DEF HandleDestroyedRoom, RoomTypes, States
  <2>4. arc' \in [MucIds -> 0 .. arcs']
    <3>1. \A q \in MucIds : arc'[q] \in 0 .. arcs'
      BY <1>4, <2>1, <2>2 DEF HandleDestroyedRoom, RoomTypes
    <3>. QED BY Zenon, <1>4, <3>1 DEF HandleDestroyedRoom, RoomTypes
  <2>5. known' \in [MucIds -> BOOLEAN]
    <3>1. known' = [known EXCEPT ![r] = FALSE, ![new] = inserts \/ @]
      BY Zenon, <1>4 DEF HandleDestroyedRoom
    <3>. HIDE DEF inserts
    <3>. QED BY Zenon, <3>1, <2>1 DEF RoomTypes
  <2>6. joinedIn' \in [MucIds -> 0 .. MaxSessions]
    BY <1>4, <2>1 DEF HandleDestroyedRoom, RoomTypes
  <2>7. /\ \A q \in MucIds : (state'[q] = "Absent") <=> (arc'[q] = 0)
        /\ retyped' \in SUBSET Nat
    BY <1>4, <2>1 DEF HandleDestroyedRoom, RoomTypes
  <2>8. TaskTypes' /\ NetworkTypes'
    BY <1>4, <2>1, <2>2 DEF HandleDestroyedRoom, Goto, TaskTypes, NetworkTypes, network,
       RoomTypes
  <2>. QED BY Zenon, <2>2, <2>3, <2>4, <2>5, <2>6, <2>7, <2>8 DEF RoomTypes
<1>. QED BY Zenon, <1>1, <1>2, <1>3, <1>4

\* The steps after a self-ping keep the types.
LEMMA PingTypes ==
    ASSUME RoomTypes, TaskTypes, NetworkTypes, NEW t \in Tasks,
           SelfPingStillJoined(t) \/ SelfPingUnreachable(t) \/ SelfPingNotJoined(t)
    PROVE  RoomTypes' /\ TaskTypes' /\ NetworkTypes'
<1>1. RoomTypes' /\ arcs' = arcs
  <2>1. CASE UNCHANGED rooms
    BY Zenon, <2>1 DEF RoomTypes, rooms
  <2>2. CASE SetState(at[t], handle[t], "Retry")
    BY Zenon, <2>2, SetStateTypes DEF States, Disconnected, TaskTypes
  <2>3. CASE SetState(at[t], handle[t], "Pending")
    BY Zenon, <2>3, SetStateTypes DEF States, TaskTypes
  <2>. QED BY Zenon, <2>1, <2>2, <2>3
         DEF SelfPingStillJoined, SelfPingUnreachable, SelfPingNotJoined
<1>2. TaskTypes' /\ NetworkTypes'
  BY <1>1 DEF SelfPingStillJoined, SelfPingUnreachable, SelfPingNotJoined, Goto, Hold,
     RoomTypes, TaskTypes, NetworkTypes, network
<1>. QED BY Zenon, <1>1, <1>2

\* The steps of join_room up to the answer of the server keep the types.
LEMMA InsertTypes ==
    ASSUME RoomTypes, TaskTypes, NetworkTypes, NEW t \in Tasks,
           \/ Prepared(t) \/ PrepareFails(t) \/ LookUp(t) \/ Claim(t)
           \/ SetConnecting(t) \/ AlreadyConnected(t)
    PROVE  RoomTypes' /\ TaskTypes' /\ NetworkTypes'
<1>. USE RoomAssumption
<1>1. CASE Prepared(t) \/ PrepareFails(t) \/ AlreadyConnected(t)
  BY Zenon, <1>1 DEF Prepared, PrepareFails, AlreadyConnected, Goto, RoomTypes, TaskTypes,
     NetworkTypes, rooms, network
<1>2. CASE LookUp(t)
  BY <1>2 DEF LookUp, Goto, Hold, RoomTypes, TaskTypes, NetworkTypes, rooms, network
<1>3. CASE Claim(t)
  <2>1. RoomTypes' /\ arcs' = arcs
    BY Zenon, <1>3, SetStateTypes DEF Claim, States, TaskTypes
  <2>2. TaskTypes' /\ NetworkTypes'
    BY <1>3, <2>1 DEF Claim, Goto, RoomTypes, TaskTypes, NetworkTypes, network
  <2>. QED BY Zenon, <2>1, <2>2
<1>4. CASE SetConnecting(t)
  <2>1. RoomTypes' /\ arcs' = arcs + 1
    BY Zenon, <1>4, NoSession, PutTypes DEF SetConnecting, States, TaskTypes
  <2>2. TaskTypes' /\ NetworkTypes'
    BY <1>4, <2>1 DEF SetConnecting, Goto, Hold, RoomTypes, TaskTypes, NetworkTypes, network
  <2>. QED BY Zenon, <2>1, <2>2
<1>. QED BY Zenon, <1>1, <1>2, <1>3, <1>4

\* The steps of join_room from the answer of the server on keep the types.
LEMMA JoinTypes ==
    ASSUME RoomTypes, TaskTypes, NetworkTypes, NEW t \in Tasks,
           JoinOk(t) \/ FollowIfGone(t) \/ JoinFails(t) \/ Finalize(t) \/ Resolve(t)
    PROVE  RoomTypes' /\ TaskTypes' /\ NetworkTypes'
<1>. USE RoomAssumption
<1>1. CASE JoinOk(t) \/ Finalize(t)
  <2>1. RoomTypes' /\ arcs' = arcs
    BY Zenon, <1>1 DEF JoinOk, Finalize, RoomTypes, rooms
  <2>2. TaskTypes' /\ NetworkTypes'
    BY <1>1, <2>1 DEF JoinOk, Finalize, Goto, Hold, RoomTypes, TaskTypes, NetworkTypes, network
  <2>. QED BY Zenon, <2>1, <2>2
<1>2. CASE FollowIfGone(t)
  <2>1. RoomTypes' /\ arcs' = arcs
    BY <1>2, DeleteTypes DEF FollowIfGone, TaskTypes
  <2>2. TaskTypes' /\ NetworkTypes'
    BY <1>2, <2>1 DEF FollowIfGone, Goto, Hold, RoomTypes, TaskTypes, NetworkTypes, network
  <2>. QED BY Zenon, <2>1, <2>2
<1>3. CASE JoinFails(t)
  <2>1. RoomTypes' /\ arcs' = arcs
    <3>1. CASE Delete({RoomOf[t]})
      BY Zenon, <3>1, DeleteTypes
    <3>2. CASE SetState(at[t], handle[t], "Retry")
      BY Zenon, <3>2, SetStateTypes DEF States, Disconnected, TaskTypes
    <3>. QED BY Zenon, <1>3, <3>1, <3>2 DEF JoinFails
  <2>2. TaskTypes' /\ NetworkTypes'
    BY <1>3, <2>1 DEF JoinFails, Goto, RoomTypes, TaskTypes, NetworkTypes, network
  <2>. QED BY <2>1, <2>2
<1>4. CASE Resolve(t)
  <2>1. RoomTypes' /\ arcs' \in Nat /\ arcs' >= arcs
    <3>1. CASE Put(at[t], "Connected", TRUE, sent[t])
      <4>1. RoomTypes' /\ arcs' = arcs + 1
        BY Zenon, <3>1, PutTypes DEF States, TaskTypes
      <4>. QED BY <4>1 DEF RoomTypes
    <3>2. CASE UNCHANGED rooms
      BY <3>2 DEF RoomTypes, rooms
    <3>. QED BY Zenon, <1>4, <3>1, <3>2 DEF Resolve
  <2>2. TaskTypes' /\ NetworkTypes'
    BY <1>4, <2>1 DEF Resolve, Goto, RoomTypes, TaskTypes, NetworkTypes, network
  <2>. QED BY Zenon, <2>1, <2>2
<1>. QED BY Zenon, <1>1, <1>2, <1>3, <1>4

\* The answer to a reload of the configuration keeps the types.
LEMMA ReloadTypes ==
    ASSUME RoomTypes, TaskTypes, NetworkTypes, NEW t \in Tasks,
           TypeRemains(t) \/ ChangeType(t)
    PROVE  RoomTypes' /\ TaskTypes' /\ NetworkTypes'
<1>. DEFINE r == at[t]
<1>1. RoomTypes' /\ arcs' \in Nat /\ arcs' >= arcs
  <2>1. CASE state[r] # "Absent" /\ Put(r, state[r], TRUE, joinedIn[r])
    <3>1. /\ r \in MucIds
          /\ state[r] \in States \ {"Absent"}
          /\ joinedIn[r] \in 0 .. MaxSessions
      BY Zenon, <2>1 DEF RoomTypes, TaskTypes
    <3>2. RoomTypes' /\ arcs' = arcs + 1
      BY Zenon, <2>1, <3>1, PutTypes
    <3>. QED BY <3>2 DEF RoomTypes
  <2>2. CASE UNCHANGED rooms
    BY <2>2 DEF RoomTypes, rooms
  <2>. QED BY Zenon, <2>1, <2>2 DEF TypeRemains, ChangeType
<1>2. pc' \in [Tasks -> {"idle", "pinging", "loading", "preparing", "inserting",
                         "claiming", "setting", "joining", "joined",
                         "resolving", "done", "failed", "aborted"}]
  BY Zenon DEF TypeRemains, ChangeType, Goto, TaskTypes
<1>3. UNCHANGED <<at, handle, sent, network>>
  BY Zenon DEF TypeRemains, ChangeType
<1>4. handle' \in [Tasks -> 0 .. arcs']
  BY <1>1, <1>3 DEF RoomTypes, TaskTypes
<1>5. TaskTypes' /\ NetworkTypes'
  BY Zenon, <1>2, <1>3, <1>4 DEF TaskTypes, NetworkTypes, network
<1>. QED BY Zenon, <1>1, <1>5

\* The events that take rooms away and the steps of the connection keep the
\* types.
LEMMA EventTypes ==
    ASSUME RoomTypes, TaskTypes, NetworkTypes,
           \/ \E r \in MucIds : \/ RemoveItem(r) \/ DestroyRoom(r)
                               \/ \E p \in BOOLEAN : HandleRemovalFromRoom(r, p)
           \/ DeleteAll \/ LoseConnection \/ HandleDisconnected \/ Disconnect
           \/ Connect \/ ConnectFails
    PROVE  RoomTypes' /\ TaskTypes' /\ NetworkTypes'
<1>1. RoomTypes' /\ arcs' = arcs
  <2>1. CASE UNCHANGED rooms
    BY Zenon, <2>1 DEF RoomTypes, rooms
  <2>2. ASSUME NEW R \in SUBSET MucIds, Delete(R)
        PROVE  RoomTypes' /\ arcs' = arcs
    BY Zenon, <2>2, DeleteTypes
  <2>3. ASSUME NEW r \in MucIds, NEW p \in BOOLEAN, HandleRemovalFromRoom(r, p)
        PROVE  RoomTypes' /\ arcs' = arcs
    <3>1. PICK s \in {"Final", "Retry"} : SetState(r, arc[r], s)
      BY Zenon, <2>3 DEF HandleRemovalFromRoom
    <3>. QED BY Zenon, <3>1, SetStateTypes DEF States, Disconnected
  <2>4. CASE AllDisconnected
    BY Zenon, <2>4, AllDisconnectedTypes
  <2>. QED BY Zenon, <2>1, <2>2, <2>3, <2>4 DEF RemoveItem, DestroyRoom, DeleteAll,
       LoseConnection, HandleDisconnected, Disconnect, Connect, ConnectFails
<1>2. TaskTypes'
  BY Zenon, <1>1 DEF TaskTypes, tasks, RemoveItem, DestroyRoom, HandleRemovalFromRoom, DeleteAll,
     LoseConnection, HandleDisconnected, Disconnect, Connect, ConnectFails
<1>3. NetworkTypes'
  <2>1. online' \in BOOLEAN /\ account' \in BOOLEAN
    BY Zenon DEF NetworkTypes, network, RemoveItem, DestroyRoom, HandleRemovalFromRoom,
       DeleteAll, LoseConnection, HandleDisconnected, Disconnect, Connect, ConnectFails
  <2>2. \/ session' = session /\ lost' = lost
        \/ session' = session /\ lost' = lost + 1
        \/ session' = session /\ lost > 0 /\ lost' = lost - 1
        \/ session < MaxSessions /\ session' = session + 1 /\ lost' = lost
    BY Zenon DEF network, RemoveItem, DestroyRoom, HandleRemovalFromRoom, DeleteAll,
       LoseConnection, HandleDisconnected, Disconnect, Connect, ConnectFails
  <2>3. MaxSessions \in Nat
    BY Zenon, RoomAssumption
  <2>4. session' \in 1 .. MaxSessions /\ lost' \in Nat
    BY <2>2, <2>3 DEF NetworkTypes
  <2>. QED BY Zenon, <2>1, <2>4 DEF NetworkTypes
<1>. QED BY Zenon, <1>1, <1>2, <1>3

\* The type invariant is the typing of its parts, now and after a step.
LEMMA TypeParts ==
    /\ TypeOK <=> RoomTypes /\ TaskTypes /\ NetworkTypes
    /\ TypeOK' <=> RoomTypes' /\ TaskTypes' /\ NetworkTypes'
<1>1. TypeOK <=> RoomTypes /\ TaskTypes /\ NetworkTypes
  BY Zenon DEF TypeOK, RoomTypes, TaskTypes, NetworkTypes
<1>2. TypeOK' <=> RoomTypes' /\ TaskTypes' /\ NetworkTypes'
  BY Zenon DEF TypeOK, RoomTypes, TaskTypes, NetworkTypes
<1>. QED BY Zenon, <1>1, <1>2

\* Every step keeps the types.
LEMMA TypeStep == TypeOK /\ [Next]_vars => TypeOK'
<1>. SUFFICES ASSUME RoomTypes, TaskTypes, NetworkTypes, [Next]_vars
              PROVE  RoomTypes' /\ TaskTypes' /\ NetworkTypes'
  BY Zenon, TypeParts
<1>1. ASSUME NEW t \in Tasks, Step(t)
      PROVE  RoomTypes' /\ TaskTypes' /\ NetworkTypes'
  BY Zenon, <1>1, BeginTypes, PingTypes, InsertTypes, JoinTypes, ReloadTypes
     DEF Step, Local, Answer
<1>2. CASE UNCHANGED vars
  BY Zenon, <1>2 DEF vars, rooms, tasks, network, RoomTypes, TaskTypes, NetworkTypes
<1>. QED BY Zenon, <1>1, <1>2, EventTypes DEF Next

\* For any rooms, tasks and number of sessions, every variable keeps its type,
\* and a room has an Arc in the repository exactly when it is not absent.
THEOREM TypeCorrect == Spec => []TypeOK
<1>1. Init => TypeOK
  BY RoomAssumption DEF Init, TypeOK, States
<1>. QED BY <1>1, TypeStep, PTL DEF Spec

-----------------------------------------------------------------------------
(***************************************************************************)
(* Connecting rooms have an owner.                                         *)
(***************************************************************************)

\* What one task does leaves the connecting rooms of the others owned: it must
\* see to the ones it makes connecting and to those it is the owner of.
LEMMA OwnersStay ==
    ASSUME EveryConnectingOwned, NEW t \in Tasks, UNCHANGED network,
           \A u \in Tasks \ {t} : pc'[u] = pc[u] /\ at'[u] = at[u] /\ handle'[u] = handle[u],
           \A r \in MucIds : state'[r] = "Connecting" =>
              \/ Owns(t, r)'
              \/ arc'[r] \in retyped'
              \/ state[r] = "Connecting" /\ arc'[r] = arc[r] /\ ~Owns(t, r),
           retyped \subseteq retyped'
    PROVE  EveryConnectingOwned'
<1>. SUFFICES ASSUME NEW r \in MucIds, state'[r] = "Connecting", arc'[r] \notin retyped'
              PROVE  \E u \in Tasks : Owns(u, r)'
  BY Zenon DEF EveryConnectingOwned
<1>1. CASE Owns(t, r)'
  BY Zenon, <1>1
<1>2. CASE state[r] = "Connecting" /\ arc'[r] = arc[r] /\ ~Owns(t, r)
  <2>1. PICK u \in Tasks : Owns(u, r)
    BY Zenon, <1>2 DEF EveryConnectingOwned
  <2>2. u # t
    BY Zenon, <1>2, <2>1
  <2>. QED BY <1>2, <2>1, <2>2 DEF Owns, MayConnect, network
<1>. QED BY Zenon, <1>1, <1>2

\* A step of no task leaves them owned when it makes no room connecting and the
\* connection, if it ends, still has its Disconnected event to handle.
LEMMA OwnersLeft ==
    ASSUME EveryConnectingOwned, UNCHANGED tasks,
           \A r \in MucIds : state'[r] = "Connecting" =>
              state[r] = "Connecting" /\ arc'[r] = arc[r] /\ (MayConnect' => MayConnect),
           UNCHANGED retyped
    PROVE  EveryConnectingOwned'
<1>. SUFFICES ASSUME NEW r \in MucIds, state'[r] = "Connecting", arc'[r] \notin retyped'
              PROVE  \E u \in Tasks : Owns(u, r)'
  BY Zenon DEF EveryConnectingOwned
<1>1. PICK u \in Tasks : Owns(u, r)
  BY Zenon DEF EveryConnectingOwned
<1>. QED BY Zenon, <1>1 DEF Owns, tasks

\* The Arcs that replaced one of a connecting room are remembered.
LEMMA RetypedStays ==
    ASSUME NEW t \in Tasks, Step(t)
    PROVE  retyped \subseteq retyped'
<1>1. CASE UNCHANGED retyped
  BY Zenon, <1>1
<1>2. ASSUME NEW q, NEW x, NEW k, NEW i, Put(q, x, k, i)
      PROVE  retyped \subseteq retyped'
  BY Zenon, <1>2 DEF Put
<1>3. CASE StartJoin(t) \/ ReceiveBookmark(t) \/ PingRoom(t) \/ HandleDestroyedRoom(t)
           \/ ReloadConfig(t)
  BY Zenon, <1>1, <1>2, <1>3 DEF StartJoin, ReceiveBookmark, PingRoom, HandleDestroyedRoom,
     ReloadConfig, SetState, rooms
<1>4. CASE Local(t)
  BY Zenon, <1>1, <1>2, <1>4 DEF Local, LookUp, Claim, SetConnecting, AlreadyConnected,
     Finalize, Resolve, SetState, rooms
<1>5. CASE Answer(t)
  BY Zenon, <1>1, <1>2, <1>5 DEF Answer, SelfPingStillJoined, SelfPingUnreachable,
     SelfPingNotJoined, Prepared, PrepareFails, JoinOk, FollowIfGone, JoinFails, TypeRemains,
     ChangeType, SetState, Delete, rooms
<1>. QED BY Zenon, <1>3, <1>4, <1>5 DEF Step

\* A step that is none of join_room's and makes no room connecting.
LEMMA BeginKeepsOwners ==
    ASSUME TypeOK, EveryConnectingOwned, NEW t \in Tasks,
           \/ StartJoin(t) \/ ReceiveBookmark(t) \/ PingRoom(t) \/ HandleDestroyedRoom(t)
           \/ SelfPingStillJoined(t) \/ SelfPingUnreachable(t) \/ SelfPingNotJoined(t)
           \/ Prepared(t) \/ PrepareFails(t) \/ LookUp(t) \/ AlreadyConnected(t)
           \/ ReloadConfig(t) \/ TypeRemains(t)
    PROVE  EveryConnectingOwned'
<1>1. UNCHANGED network
  BY Zenon DEF StartJoin, ReceiveBookmark, PingRoom, HandleDestroyedRoom, SelfPingStillJoined,
     SelfPingUnreachable, SelfPingNotJoined, Prepared, PrepareFails, LookUp,
     AlreadyConnected, ReloadConfig, TypeRemains
<1>2. \A u \in Tasks \ {t} : pc'[u] = pc[u] /\ at'[u] = at[u] /\ handle'[u] = handle[u]
  BY Zenon DEF TypeOK, StartJoin, ReceiveBookmark, PingRoom, HandleDestroyedRoom,
     SelfPingStillJoined, SelfPingUnreachable, SelfPingNotJoined, Prepared, PrepareFails,
     LookUp, AlreadyConnected, ReloadConfig, TypeRemains, Goto, Hold
<1>3. \A r \in MucIds : ~Owns(t, r)
  BY Zenon DEF Owns, StartJoin, ReceiveBookmark, PingRoom, HandleDestroyedRoom,
     SelfPingStillJoined, SelfPingUnreachable, SelfPingNotJoined, Prepared, PrepareFails,
     LookUp, AlreadyConnected, ReloadConfig, TypeRemains
<1>4. ASSUME NEW r \in MucIds, state'[r] = "Connecting"
      PROVE  state[r] = "Connecting" /\ arc'[r] = arc[r]
  <2>1. CASE HandleDestroyedRoom(t)
    BY Zenon, <1>4, <2>1, RoomAssumption DEF HandleDestroyedRoom, TypeOK
  <2>2. CASE UNCHANGED rooms
    BY Zenon, <1>4, <2>2 DEF rooms
  <2>3. CASE Put(RoomOf[t], "Pending", TRUE, 0)
    BY Zenon, <1>4, <2>3, RoomAssumption DEF Put, TypeOK
  <2>4. ASSUME NEW q \in MucIds, NEW h, NEW x \in {"Pending", "Retry"}, SetState(q, h, x)
        PROVE  state[r] = "Connecting" /\ arc'[r] = arc[r]
    BY Zenon, <1>4, <2>4 DEF SetState, TypeOK
  <2>5. RoomOf[t] \in MucIds /\ at[t] \in MucIds
    BY Zenon, RoomAssumption DEF TypeOK
  <2>. QED BY Zenon, <2>1, <2>2, <2>3, <2>4, <2>5 DEF StartJoin, ReceiveBookmark, PingRoom,
       SelfPingStillJoined, SelfPingUnreachable, SelfPingNotJoined, Prepared, PrepareFails,
       LookUp, AlreadyConnected, ReloadConfig, TypeRemains
<1>5. retyped \subseteq retyped'
  BY Zenon, RetypedStays DEF Step, Local, Answer
<1>. QED BY Zenon, <1>1, <1>2, <1>3, <1>4, <1>5, OwnersStay

\* A change of the type keeps the rooms that are connecting, and is remembered
\* for those it gives another Arc.
LEMMA RetypeKeepsOwners ==
    ASSUME TypeOK, EveryConnectingOwned, NEW t \in Tasks, ChangeType(t)
    PROVE  EveryConnectingOwned'
<1>1. UNCHANGED network
  BY Zenon DEF ChangeType
<1>2. \A u \in Tasks \ {t} : pc'[u] = pc[u] /\ at'[u] = at[u] /\ handle'[u] = handle[u]
  BY Zenon DEF TypeOK, ChangeType, Goto
<1>3. ASSUME NEW r \in MucIds, state'[r] = "Connecting"
      PROVE  \/ arc'[r] \in retyped'
             \/ state[r] = "Connecting" /\ arc'[r] = arc[r] /\ ~Owns(t, r)
  <2>1. \A q \in MucIds : ~Owns(t, q)
    BY Zenon DEF ChangeType, Owns
  <2>2. CASE UNCHANGED rooms
    BY Zenon, <1>3, <2>1, <2>2 DEF rooms
  <2>3. CASE Put(at[t], state[at[t]], TRUE, joinedIn[at[t]]) /\ r = at[t]
    <3>1. state[r] = "Connecting" /\ arc'[r] = arcs + 1
      BY Zenon, <1>3, <2>3 DEF Put, TypeOK
    <3>2. retyped' = retyped \cup {arcs + 1}
      BY Zenon, <2>3, <3>1 DEF Put
    <3>. QED BY Zenon, <3>1, <3>2
  <2>4. CASE Put(at[t], state[at[t]], TRUE, joinedIn[at[t]]) /\ r # at[t]
    BY Zenon, <1>3, <2>1, <2>4 DEF Put, TypeOK
  <2>. QED BY Zenon, <2>2, <2>3, <2>4 DEF ChangeType
<1>4. retyped \subseteq retyped'
  BY Zenon, RetypedStays DEF Step, Answer
<1>. QED BY Zenon, <1>1, <1>2, <1>3, <1>4, OwnersStay

\* The steps of join_room: a task that stops being the owner of a connecting
\* room has taken it away, disconnected or resolved it.
LEMMA JoinKeepsOwners ==
    ASSUME TypeOK, UserJoinsStay, OnlineHasAccount, EveryConnectingOwned, NEW t \in Tasks,
           \/ Claim(t) \/ SetConnecting(t) \/ JoinOk(t) \/ FollowIfGone(t)
           \/ JoinFails(t) \/ Finalize(t) \/ Resolve(t)
    PROVE  EveryConnectingOwned'
<1>1. UNCHANGED network
  BY Zenon DEF Claim, SetConnecting, JoinOk, FollowIfGone, JoinFails, Finalize, Resolve
<1>2. \A u \in Tasks \ {t} : pc'[u] = pc[u] /\ at'[u] = at[u] /\ handle'[u] = handle[u]
  BY Zenon DEF TypeOK, Claim, SetConnecting, JoinOk, FollowIfGone, JoinFails, Finalize, Resolve,
     Goto, Hold
<1>3. ASSUME NEW r \in MucIds, state'[r] = "Connecting"
      PROVE  \/ Owns(t, r)'
             \/ state[r] = "Connecting" /\ arc'[r] = arc[r] /\ ~Owns(t, r)
  <2>1. CASE Claim(t)
    <3>1. CASE handle[t] # 0 /\ arc[at[t]] = handle[t] /\ r = at[t]
      BY Zenon, <2>1, <3>1 DEF Claim, SetState, Goto, Owns, TypeOK
    <3>2. CASE ~(handle[t] # 0 /\ arc[at[t]] = handle[t] /\ r = at[t])
      BY Zenon, <1>3, <2>1, <3>2 DEF Claim, SetState, Owns, TypeOK
    <3>. QED BY Zenon, <3>1, <3>2
  <2>2. CASE SetConnecting(t)
    <3>1. CASE r = at[t]
      BY Zenon, <2>2, <3>1 DEF SetConnecting, Put, Goto, Hold, Owns, TypeOK
    <3>2. CASE r # at[t]
      BY Zenon, <1>3, <2>2, <3>2 DEF SetConnecting, Put, Owns, TypeOK
    <3>. QED BY Zenon, <3>1, <3>2
  <2>3. CASE JoinOk(t)
    <3>1. CASE r = at[t]
      BY Zenon, <2>3, <3>1 DEF JoinOk, Goto, Owns, MayConnect, TypeOK, network
    <3>2. CASE r # at[t]
      BY Zenon, <1>3, <2>3, <3>2 DEF JoinOk, Owns, rooms
    <3>. QED BY <3>1, <3>2
  <2>4. CASE FollowIfGone(t)
    BY Zenon, <1>3, <2>4 DEF FollowIfGone, Delete, Owns
  <2>5. CASE JoinFails(t)
    <3>1. CASE t \in UserJoins
      BY <1>3, <2>5, <3>1 DEF JoinFails, Delete, Owns, UserJoinsStay
    <3>2. CASE t \notin UserJoins
      <4>1. SetState(at[t], handle[t], "Retry") /\ pc[t] = "joining"
        BY Zenon, <2>5, <3>2 DEF JoinFails
      <4>2. state[r] = "Connecting" /\ arc'[r] = arc[r]
        BY Zenon, <1>3, <4>1 DEF SetState, TypeOK
      <4>3. CASE r = at[t]
        <5>1. ~(handle[t] # 0 /\ arc[r] = handle[t])
          BY Zenon, <1>3, <4>1, <4>3 DEF SetState, TypeOK
        <5>2. arc[r] # 0
          BY Zenon, <4>2 DEF TypeOK
        <5>. QED BY Zenon, <4>1, <4>2, <5>1, <5>2 DEF Owns
      <4>4. CASE r # at[t]
        BY Zenon, <4>2, <4>4 DEF Owns
      <4>. QED BY <4>3, <4>4
    <3>. QED BY Zenon, <3>1, <3>2
  <2>6. CASE Finalize(t)
    <3>1. CASE r = at[t] /\ account
      BY Zenon, <2>6, <3>1 DEF Finalize, Goto, Owns, TypeOK
    <3>2. CASE r # at[t] \/ ~account
      BY Zenon, <1>3, <2>6, <3>2 DEF Finalize, Owns, MayConnect, OnlineHasAccount, rooms
    <3>. QED BY Zenon, <3>1, <3>2
  <2>7. CASE Resolve(t)
    <3>1. r # at[t] /\ state[r] = "Connecting" /\ arc'[r] = arc[r]
      BY <1>3, <2>7 DEF Resolve, Put, TypeOK, rooms
    <3>. QED BY Zenon, <3>1 DEF Owns
  <2>. QED BY Zenon, <2>1, <2>2, <2>3, <2>4, <2>5, <2>6, <2>7
<1>4. retyped \subseteq retyped'
  BY Zenon, RetypedStays DEF Step, Local, Answer
<1>. QED BY Zenon, <1>1, <1>2, <1>3, <1>4, OwnersStay

\* The events that take rooms away, and the connection.
LEMMA EventKeepsOwners ==
    ASSUME TypeOK, OnlineHasAccount, EveryConnectingOwned,
           \/ \E r \in MucIds : \/ RemoveItem(r) \/ DestroyRoom(r)
                               \/ \E p \in BOOLEAN : HandleRemovalFromRoom(r, p)
           \/ DeleteAll \/ LoseConnection \/ HandleDisconnected \/ Disconnect
           \/ Connect \/ ConnectFails
    PROVE  EveryConnectingOwned'
<1>1. UNCHANGED tasks
  BY Zenon DEF RemoveItem, DestroyRoom, HandleRemovalFromRoom, DeleteAll, LoseConnection,
     HandleDisconnected, Disconnect, Connect, ConnectFails
<1>2. ASSUME NEW r \in MucIds, state'[r] = "Connecting"
      PROVE  state[r] = "Connecting" /\ arc'[r] = arc[r]
  <2>1. ASSUME NEW R \in SUBSET MucIds, Delete(R)
        PROVE  state[r] = "Connecting" /\ arc'[r] = arc[r]
    BY Zenon, <1>2, <2>1 DEF Delete
  <2>2. ASSUME NEW q \in MucIds, NEW p \in BOOLEAN, HandleRemovalFromRoom(q, p)
        PROVE  state[r] = "Connecting" /\ arc'[r] = arc[r]
    BY Zenon, <1>2, <2>2 DEF HandleRemovalFromRoom, SetState, TypeOK
  <2>3. ~AllDisconnected
    BY Zenon, <1>2 DEF AllDisconnected
  <2>4. CASE UNCHANGED rooms
    BY Zenon, <1>2, <2>4 DEF rooms
  <2>. QED BY Zenon, <2>1, <2>2, <2>3, <2>4 DEF RemoveItem, DestroyRoom, DeleteAll,
       LoseConnection, HandleDisconnected, Disconnect, Connect, ConnectFails
<1>3. ASSUME NEW r \in MucIds, state'[r] = "Connecting"
      PROVE  MayConnect' => MayConnect
  <2>1. ~AllDisconnected
    BY <1>3 DEF AllDisconnected
  <2>2. CASE LoseConnection
    <3>1. lost' # 0
      BY <2>2 DEF LoseConnection, TypeOK
    <3>2. account'
      BY Zenon, <2>2 DEF LoseConnection, OnlineHasAccount
    <3>. QED BY Zenon, <3>1, <3>2 DEF MayConnect
  <2>3. CASE HandleDisconnected
    BY Zenon, <2>1, <2>3 DEF HandleDisconnected, MayConnect
  <2>4. CASE Connect \/ ConnectFails
    BY Zenon, <2>4 DEF Connect, ConnectFails, MayConnect
  <2>5. CASE UNCHANGED network
    BY Zenon, <2>5 DEF MayConnect, network
  <2>. QED BY Zenon, <2>1, <2>2, <2>3, <2>4, <2>5 DEF RemoveItem, DestroyRoom,
       HandleRemovalFromRoom, DeleteAll, Disconnect
<1>4. UNCHANGED retyped
  BY Zenon DEF RemoveItem, DestroyRoom, HandleRemovalFromRoom, DeleteAll, LoseConnection,
     HandleDisconnected, AllDisconnected, Disconnect, Connect, ConnectFails, Delete, SetState,
     rooms
<1>. QED BY Zenon, <1>1, <1>2, <1>3, <1>4, OwnersLeft

-----------------------------------------------------------------------------
(***************************************************************************)
(* The invariant.                                                          *)
(***************************************************************************)

\* An Arc that leaves the repository is never put back: a step keeps the Arc of
\* a room, deletes it or makes a new one.
LEMMA ArcsAreNew ==
    ASSUME TypeOK, [Next]_vars, NEW r \in MucIds
    PROVE  arc'[r] \in {arc[r], 0, arcs + 1}
<1>1. CASE UNCHANGED arc
  BY Zenon, <1>1
<1>2. ASSUME NEW q \in MucIds, NEW x, NEW k, NEW i, Put(q, x, k, i)
      PROVE  arc'[r] \in {arc[r], 0, arcs + 1}
  BY Zenon, <1>2 DEF Put, TypeOK
<1>3. ASSUME NEW R, Delete(R)
      PROVE  arc'[r] \in {arc[r], 0, arcs + 1}
  BY Zenon, <1>3 DEF Delete
<1>4. ASSUME NEW t \in Tasks, HandleDestroyedRoom(t)
      PROVE  arc'[r] \in {arc[r], 0, arcs + 1}
  BY Zenon, <1>4, RoomAssumption DEF HandleDestroyedRoom, TypeOK
<1>5. ASSUME NEW t \in Tasks, Step(t)
      PROVE  arc'[r] \in {arc[r], 0, arcs + 1}
  <2>1. RoomOf[t] \in MucIds /\ at[t] \in MucIds
    BY Zenon, RoomAssumption DEF TypeOK
  <2>2. CASE StartJoin(t) \/ ReceiveBookmark(t) \/ PingRoom(t) \/ HandleDestroyedRoom(t)
             \/ ReloadConfig(t)
    BY Zenon, <1>1, <1>2, <1>4, <2>1, <2>2 DEF StartJoin, ReceiveBookmark, PingRoom,
       ReloadConfig, SetState, rooms
  <2>3. CASE Local(t)
    BY Zenon, <1>1, <1>2, <2>1, <2>3 DEF Local, LookUp, Claim, SetConnecting, AlreadyConnected,
       Finalize, Resolve, SetState, rooms
  <2>4. CASE Answer(t)
    BY Zenon, <1>1, <1>2, <1>3, <2>1, <2>4 DEF Answer, SelfPingStillJoined, SelfPingUnreachable,
       SelfPingNotJoined, Prepared, PrepareFails, JoinOk, FollowIfGone, JoinFails, TypeRemains,
       ChangeType, SetState, rooms
  <2>. QED BY Zenon, <1>5, <2>2, <2>3, <2>4 DEF Step
<1>6. CASE UNCHANGED vars
  BY Zenon, <1>1, <1>6 DEF vars, rooms
<1>. QED BY Zenon, <1>1, <1>3, <1>5, <1>6 DEF Next, RemoveItem, DestroyRoom, DeleteAll,
     HandleRemovalFromRoom, SetState, LoseConnection, HandleDisconnected, AllDisconnected,
     Disconnect, Connect, ConnectFails, rooms

\* A join is over when it has failed: nothing but its failure makes it so, and
\* it keeps the room and the Arc it failed with.
LEMMA FailedIsOver ==
    ASSUME TypeOK, [Next]_vars, NEW t \in Tasks, pc'[t] = "failed"
    PROVE  /\ at'[t] = at[t]
           /\ handle'[t] = handle[t]
           /\ pc[t] = "failed" \/ JoinFails(t)
<1>1. ASSUME NEW u \in Tasks, Step(u), u # t
      PROVE  pc'[t] = pc[t] /\ at'[t] = at[t] /\ handle'[t] = handle[t]
  BY Zenon, <1>1 DEF TypeOK, Step, StartJoin, ReceiveBookmark, PingRoom, HandleDestroyedRoom,
     ReloadConfig, TypeRemains, ChangeType, Local, LookUp, Claim, SetConnecting, AlreadyConnected, Finalize, Resolve, Answer,
     SelfPingStillJoined, SelfPingUnreachable, SelfPingNotJoined, Prepared, PrepareFails,
     JoinOk, FollowIfGone, JoinFails, Goto, Hold
<1>2. CASE Step(t)
  <2>1. JoinFails(t)
    BY Zenon, <1>2 DEF TypeOK, Step, StartJoin, ReceiveBookmark, PingRoom, HandleDestroyedRoom,
       ReloadConfig, TypeRemains, ChangeType, Local, LookUp, Claim, SetConnecting, AlreadyConnected, Finalize, Resolve, Answer,
       SelfPingStillJoined, SelfPingUnreachable, SelfPingNotJoined, Prepared, PrepareFails,
       JoinOk, FollowIfGone, Goto
  <2>. QED BY Zenon, <2>1 DEF JoinFails
<1>3. CASE UNCHANGED tasks
  BY Zenon, <1>3 DEF tasks
<1>. QED BY Zenon, <1>1, <1>2, <1>3 DEF Next, RemoveItem, DestroyRoom, HandleRemovalFromRoom,
     DeleteAll, LoseConnection, HandleDisconnected, Disconnect, Connect, ConnectFails, vars

\* The Arc of a failed user join is gone for good: its clean-up deletes the room
\* it was asked for, which is the one it joins, and Arcs are not put back.
LEMMA RemovedStaysRemoved ==
    ASSUME TypeOK, UserJoinsStay, RemoveOnErrorRemoves, [Next]_vars
    PROVE  RemoveOnErrorRemoves'
<1>. SUFFICES ASSUME NEW t \in UserJoins, pc'[t] = "failed", handle'[t] # 0
              PROVE  arc'[at'[t]] # handle'[t]
  BY Zenon DEF RemoveOnErrorRemoves
<1>1. t \in Tasks
  BY Zenon DEF Tasks
<1>2. at[t] \in MucIds /\ at'[t] = at[t] /\ handle'[t] = handle[t]
  BY Zenon, <1>1, FailedIsOver DEF TypeOK
<1>3. CASE pc[t] = "failed"
  <2>1. arc[at[t]] # handle[t]
    BY Zenon, <1>2, <1>3 DEF RemoveOnErrorRemoves
  <2>2. handle[t] \in 0 .. arcs /\ arcs \in Nat
    BY Zenon, <1>1 DEF TypeOK
  <2>3. arc'[at[t]] \in {arc[at[t]], 0, arcs + 1}
    BY Zenon, <1>2, ArcsAreNew
  <2>. QED BY SMTT(60), <1>2, <2>1, <2>2, <2>3
<1>4. CASE JoinFails(t)
  <2>1. arc'[at[t]] = 0
    BY Zenon, <1>2, <1>4 DEF JoinFails, Delete, UserJoinsStay
  <2>. QED BY Zenon, <1>2, <2>1
<1>. QED BY Zenon, <1>1, <1>3, <1>4, FailedIsOver

\* Joins that users asked for stay with their rooms, as long as these stay.
LEMMA UserJoinsStayStep ==
    ASSUME UserRoomsStay, TypeOK, UserJoinsStay, [Next]_vars
    PROVE  UserJoinsStay'
<1>. SUFFICES ASSUME NEW t \in UserJoins
              PROVE  at'[t] = at[t]
  BY Zenon DEF UserJoinsStay
<1>1. t \in Tasks /\ t \notin Moves
  BY Zenon, RoomAssumption DEF Tasks
<1>2. ~FollowIfGone(t) /\ ~HandleDestroyedRoom(t)
  BY Zenon, <1>1 DEF FollowIfGone, HandleDestroyedRoom, UserRoomsStay, UserJoinsStay
<1>3. ASSUME NEW u \in Tasks, Step(u)
      PROVE  at'[t] = at[t]
  BY Zenon, <1>1, <1>2, <1>3 DEF TypeOK, Step, StartJoin, ReceiveBookmark, PingRoom,
     HandleDestroyedRoom, ReloadConfig, TypeRemains, ChangeType, Local, LookUp, Claim, SetConnecting, AlreadyConnected, Finalize,
     Resolve, Answer, SelfPingStillJoined, SelfPingUnreachable, SelfPingNotJoined, Prepared,
     PrepareFails, JoinOk, FollowIfGone, JoinFails
<1>. QED BY Zenon, <1>3 DEF Next, RemoveItem, DestroyRoom, HandleRemovalFromRoom, DeleteAll,
     LoseConnection, HandleDisconnected, Disconnect, Connect, ConnectFails, vars, tasks

\* The stream and the properties of the connection come and go together.
LEMMA OnlineHasAccountStep ==
    ASSUME OnlineHasAccount, [Next]_vars
    PROVE  OnlineHasAccount'
<1>1. ASSUME NEW t \in Tasks, Step(t)
      PROVE  UNCHANGED network
  BY Zenon, <1>1 DEF Step, StartJoin, ReceiveBookmark, PingRoom, HandleDestroyedRoom, Local,
     ReloadConfig, TypeRemains, ChangeType,
     LookUp, Claim, SetConnecting, AlreadyConnected, Finalize, Resolve, Answer,
     SelfPingStillJoined, SelfPingUnreachable, SelfPingNotJoined, Prepared, PrepareFails,
     JoinOk, FollowIfGone, JoinFails
<1>2. CASE UNCHANGED network
  BY Zenon, <1>2 DEF network, OnlineHasAccount
<1>3. CASE LoseConnection \/ HandleDisconnected \/ Disconnect \/ Connect \/ ConnectFails
  BY Zenon, <1>3 DEF OnlineHasAccount, LoseConnection, HandleDisconnected, Disconnect, Connect,
     ConnectFails, MayConnect
<1>. QED BY Zenon, <1>1, <1>2, <1>3 DEF Next, RemoveItem, DestroyRoom, HandleRemovalFromRoom,
     DeleteAll, vars

\* The invariant is inductive as long as the rooms that users join stay.
LEMMA Invariance == UserRoomsStay => (Spec => []Inv)
<1>. SUFFICES ASSUME UserRoomsStay
              PROVE  Spec => []Inv
  OBVIOUS
<1>1. Init => Inv
  <2>1. Init => TypeOK
    BY RoomAssumption DEF Init, TypeOK, States
  <2>. QED BY Zenon, <2>1 DEF Init, Inv, UserJoinsStay, OnlineHasAccount, EveryConnectingOwned,
       RemoveOnErrorRemoves, Tasks
<1>2. Inv /\ [Next]_vars => Inv'
  <2>. SUFFICES ASSUME TypeOK, UserJoinsStay, OnlineHasAccount, EveryConnectingOwned,
                       RemoveOnErrorRemoves, [Next]_vars
                PROVE  Inv'
    BY Zenon DEF Inv
  <2>1. EveryConnectingOwned'
    <3>1. ASSUME NEW t \in Tasks, Step(t)
          PROVE  EveryConnectingOwned'
      BY Zenon, <3>1, BeginKeepsOwners, JoinKeepsOwners, RetypeKeepsOwners
      DEF Step, Local, Answer
    <3>2. CASE UNCHANGED vars
      BY <3>2 DEF vars, rooms, tasks, network, EveryConnectingOwned, Owns, MayConnect
    <3>. QED BY Zenon, <3>1, <3>2, EventKeepsOwners DEF Next
  <2>. QED BY Zenon, <2>1, TypeStep, UserJoinsStayStep, OnlineHasAccountStep,
       RemovedStaysRemoved DEF Inv
<1>. QED BY <1>1, <1>2, PTL DEF Spec

\* If no room that a user asks to join has moved, a connecting room is being
\* joined by somebody, however joins, removals, disconnects and reconnects
\* interleave: no task ends and leaves a room in Connecting, unless a change of
\* the type gave the room another Arc while it was connecting.
THEOREM ConnectingIsOwnedHolds == UserRoomsStay => (Spec => []ConnectingIsOwned)
<1>1. Inv => ConnectingIsOwned
  BY Zenon DEF Inv, EveryConnectingOwned, Owns, ConnectingIsOwned, Joining
<1>. QED BY <1>1, Invariance, PTL

\* Under the same condition, a user's join that fails takes its room away, and
\* what it has put into the repository never shows there again.
THEOREM RemoveOnErrorRemovesHolds == UserRoomsStay => (Spec => []RemoveOnErrorRemoves)
<1>1. Inv => RemoveOnErrorRemoves
  BY Zenon DEF Inv
<1>. QED BY <1>1, Invariance, PTL
=============================================================================
