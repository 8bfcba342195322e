------------------------------ MODULE UserInfo ------------------------------
(***************************************************************************)
(* What the client knows of one contact: the presences of their resources  *)
(* (PresenceMap), the UserInfo the repository keeps in memory, the vCard   *)
(* profiles and avatar images kept in the store, and the loads of profiles *)
(* and avatars that UserInfoDomainService runs for the user interface.     *)
(*                                                                         *)
(* A version of the contact's vCard is a number: the name and the photo of *)
(* version v are v, 0 means there is none.  "user" is the contact under    *)
(* their own address, "occupant" the same person seen in a room.  The      *)
(* focus of a behaviour selects which of the contact's data the server     *)
(* changes, so that the cases add up instead of multiplying.               *)
(***************************************************************************)
EXTENDS Integers, Sequences, SequencesExt, FiniteSets

CONSTANTS
  Resources,        \* resources the contact may be online with
  Versions,         \* versions of the vCard and of the PEP avatar, from 1
  Tasks,            \* concurrent calls of the user interface
  Threads,          \* TRUE when pending store writes finish in any order
  MaxChanges,       \* bound on the changes at the server and the calls of the interface
  MaxConnections    \* bound on the number of connections

VARIABLES
  focus, server, stream, connections, changes,
  entries,          \* PresenceMap: the contact's presences, best first
  info,             \* the stored UserInfo
  seen,             \* the avatars the interface holds
  profiles, images, \* user_profile_repo and avatar_repo
  requested,        \* requested_vcards and requested_avatars
  tasks, writes,    \* loads in progress; profiles stored but not yet in info
  clearing          \* progress of clear_cache

serverVars == <<focus, server, stream, connections, changes>>
presenceVars == <<entries, info, seen>>
storeVars == <<profiles, images, requested, tasks, writes, clearing>>
vars == <<serverVars, presenceVars, storeVars>>

Bare == ""
Owners == {"user", "occupant"}
Availabilities == {"Available", "Away", "Unavailable"}
NoAvatar == [source |-> "none", owner |-> "user", id |-> 0, real |-> FALSE]
NoProfile == [known |-> FALSE, name |-> 0, photo |-> 0]
Idle == [todo |-> <<>>, pc |-> "idle", image |-> 0]
NoInfo == [availability |-> "Unavailable", avatar |-> NoAvatar, vcard |-> 0, nickname |-> 0]

-----------------------------------------------------------------------------
(* PresenceMap *)

Presence(resource, availability, priority) ==
  [resource |-> resource, availability |-> availability, priority |-> priority]

RemovePresence(map, resource) ==
  IF resource = Bare THEN <<>>
  ELSE SelectSeq(map, LAMBDA e : e.resource # resource)

InsertPresence(map, p) ==
  LET kept == SelectSeq(map, LAMBDA e : e.resource \notin {p.resource, Bare})
      above == SelectSeq(kept, LAMBDA e : e.priority > p.priority)
  IN above \o <<p>> \o SubSeq(kept, Len(above) + 1, Len(kept))

UpdatePresence(map, p) ==
  IF p.availability = "Unavailable" THEN RemovePresence(map, p.resource)
  ELSE InsertPresence(map, p)

GetHighestPresence(map) ==
  IF map = <<>> THEN Presence(Bare, "Unavailable", 0) ELSE Head(map)

ResolveUserId(map) == GetHighestPresence(map).resource

-----------------------------------------------------------------------------
(* InMemoryUserInfoRepository and the events about its changes *)

\* The UserInfo a reader gets: the availability comes from the presence map.
Get(map, stored) == [stored EXCEPT !.availability = GetHighestPresence(map).availability]

Shown == Get(entries, info)

\* update_user_info; the interface may read the record at any time, so that the event
\* which tells it to (if the record changed and the client is connected) is left out.
UpdateUserInfo(new) ==
  /\ info' = new
  /\ seen' = seen \cup ({new.avatar} \ {NoAvatar})

PepAvatar(v) == [source |-> "pep", owner |-> "user", id |-> v, real |-> FALSE]
VcardAvatar(owner, v) ==
  IF v = 0 THEN NoAvatar
  ELSE [source |-> "vcard", owner |-> owner, id |-> v, real |-> owner = "occupant"]

IsPep(avatar) == avatar.source = "pep"

AvatarAfterPresence(avatar) == IF IsPep(info.avatar) THEN info.avatar ELSE avatar

HandleUserPresenceChanged(e) ==
  LET map == UpdatePresence(entries, e.presence)
  IN /\ entries' = map
     /\ UpdateUserInfo([info EXCEPT !.availability = e.presence.availability,
                                    !.avatar = AvatarAfterPresence(e.avatar)])
     /\ UNCHANGED storeVars

HandleAvatarChanged(e) ==
  /\ UpdateUserInfo([info EXCEPT !.avatar = e.avatar])
  /\ UNCHANGED <<entries, storeVars>>

HandleNicknameChanged(e) ==
  /\ UpdateUserInfo([info EXCEPT !.nickname = e.version])
  /\ UNCHANGED <<entries, storeVars>>

\* The first half of handle_user_profile_changed; the record in memory follows
\* once the store has answered.
StoreProfile(task, profile) ==
  /\ profiles' = [profiles EXCEPT !["user"] = profile]
  /\ writes' = Append(writes, [task |-> task, name |-> profile.name])

\* A vCard4 has no photo the client reads.
HandleProfileChanged(e) ==
  /\ StoreProfile("push", [known |-> TRUE, name |-> e.version, photo |-> 0])
  /\ UNCHANGED <<presenceVars, images, requested, tasks, clearing>>

UpdateProfileName(i) ==
  /\ i \in 1..Len(writes) /\ (i = 1 \/ Threads)
  /\ UpdateUserInfo([info EXCEPT !.vcard = writes[i].name])
  /\ writes' = RemoveAt(writes, i)
  /\ UNCHANGED <<serverVars, entries, profiles, images, requested, tasks, clearing>>

\* RoomsEventHandler and UserInfoEventHandler
ReceiveEvent ==
  /\ stream # <<>>
  /\ LET e == Head(stream)
     IN \/ e.kind = "presence" /\ HandleUserPresenceChanged(e)
        \/ e.kind = "avatar" /\ HandleAvatarChanged(e)
        \/ e.kind = "nickname" /\ HandleNicknameChanged(e)
        \/ e.kind = "profile" /\ HandleProfileChanged(e)
  /\ stream' = Tail(stream)
  /\ UNCHANGED <<focus, server, connections, changes>>

-----------------------------------------------------------------------------
(* Loading profiles and avatars *)

\* The cached profile is all a caller gets when it is there, when it was asked
\* for before, or when the contact is blocked or would push a vCard4.
ReturnsCached(owner) ==
  \/ owner \in requested.vcards
  \/ profiles[owner].known
  \/ owner = "user" /\ (server.blocked \/ server.vcard4)

\* A vCard avatar of a user gives way to the PEP avatar of the same user.
Target(avatar) ==
  IF avatar.source = "vcard" /\ avatar.owner = "user" /\ IsPep(info.avatar)
  THEN info.avatar ELSE avatar

IsCached(avatar) == \E i \in images : i.owner = avatar.owner /\ i.id = avatar.id

\* The attempt of task t is over; `image` is 0 when it found none.
Finished(task, image) ==
  IF image # 0 THEN [task EXCEPT !.pc = "image", !.image = image]
  ELSE IF Len(task.todo) <= 1 THEN Idle
  ELSE [Idle EXCEPT !.todo = Tail(task.todo), !.pc = "try"]

EndAttempt(t, task, image, asked) ==
  /\ tasks' = [tasks EXCEPT ![t] = Finished(task, image)]
  /\ requested' = [vcards |-> requested.vcards \cup asked,
                   avatars |-> requested.avatars \cup {task.todo[i].owner : i \in DOMAIN task.todo \cap {1}}]

Called ==
  /\ changes < MaxChanges
  /\ changes' = changes + 1
  /\ UNCHANGED <<focus, server, stream, connections>>

LoadAvatarImage(t, avatar) ==
  /\ tasks[t] = Idle
  /\ Called
  /\ tasks' = [tasks EXCEPT ![t] =
       [Idle EXCEPT !.pc = "try",
                    !.todo = IF avatar.real /\ info.avatar # NoAvatar
                             THEN <<info.avatar, avatar>> ELSE <<avatar>>]]
  /\ UNCHANGED <<presenceVars, profiles, images, requested, writes, clearing>>

TryAvatar(t) ==
  /\ tasks[t].pc = "try"
  /\ LET avatar == Head(tasks[t].todo)
         target == Target(avatar)
         asking == [tasks[t] EXCEPT !.todo[1] = target]
     IN \/ /\ IsCached(avatar)
           /\ tasks' = [tasks EXCEPT ![t] = Idle]
           /\ UNCHANGED requested
        \/ /\ ~IsCached(avatar) /\ avatar.owner \in requested.avatars
           /\ tasks' = [tasks EXCEPT ![t] = Finished(@, 0)]
           /\ UNCHANGED requested
        \/ /\ ~IsCached(avatar) /\ avatar.owner \notin requested.avatars
           /\ ~IsPep(target) /\ ReturnsCached(target.owner)
           /\ EndAttempt(t, asking, profiles[target.owner].photo, {})
        \/ /\ ~IsCached(avatar) /\ avatar.owner \notin requested.avatars
           /\ IsPep(target) \/ ~ReturnsCached(target.owner)
           /\ tasks' = [tasks EXCEPT ![t] = [asking EXCEPT !.pc = target.source]]
           /\ UNCHANGED requested
  /\ UNCHANGED <<serverVars, presenceVars, profiles, images, writes, clearing>>

\* get_user_info and get_user_profile ask for the vCard of the user when
\* nothing names them yet.
GetUserInfo(t) ==
  /\ tasks[t] = Idle
  /\ info.vcard = 0 /\ info.nickname = 0
  /\ ~ReturnsCached("user")
  /\ Called
  /\ tasks' = [tasks EXCEPT ![t].pc = "vcard"]
  /\ UNCHANGED <<presenceVars, profiles, images, requested, writes, clearing>>

\* The server returns the image of the id while it is the published one; it
\* may also refuse, or the request may fail.
ReceiveAvatarImage(t) ==
  /\ tasks[t].pc = "pep"
  /\ \E image \in {0, server.pep} \cap {0, Head(tasks[t].todo).id} :
       EndAttempt(t, tasks[t], image, {})
  /\ UNCHANGED <<serverVars, presenceVars, profiles, images, writes, clearing>>

AskedOwner(task) == IF task.todo = <<>> THEN "user" ELSE Head(task.todo).owner

ReceivedProfile == [known |-> server.vcard # 0, name |-> server.vcard, photo |-> server.vcard]

ReceiveVcardTemp(t) ==
  /\ tasks[t].pc = "vcard"
  /\ LET owner == AskedOwner(tasks[t])
     IN \/ /\ owner = "user"
           /\ StoreProfile(t, ReceivedProfile)
           /\ tasks' = [tasks EXCEPT ![t].pc = "named", ![t].image = server.vcard]
           /\ requested' = [requested EXCEPT !.vcards = @ \cup {owner}]
        \/ /\ owner = "occupant"
           /\ profiles' = [profiles EXCEPT ![owner] = ReceivedProfile]
           /\ EndAttempt(t, tasks[t], server.vcard, {owner})
           /\ UNCHANGED writes
        \/ /\ EndAttempt(t, tasks[t], 0, {owner})
           /\ UNCHANGED <<profiles, writes>>
  /\ UNCHANGED <<serverVars, presenceVars, images, clearing>>

\* handle_user_profile_changed has returned to the load that called it.
ProfileIsStored(t) ==
  /\ tasks[t].pc = "named"
  /\ \A w \in ToSet(writes) : w.task # t
  /\ IF tasks[t].todo = <<>> THEN tasks' = [tasks EXCEPT ![t] = Idle] /\ UNCHANGED requested
     ELSE EndAttempt(t, tasks[t], tasks[t].image, {})
  /\ UNCHANGED <<serverVars, presenceVars, profiles, images, writes, clearing>>

SetImageAsLatest(avatar, image) ==
  {i \in images : server.files \/ i.owner # avatar.owner}
    \cup {[owner |-> avatar.owner, source |-> info.avatar.source, id |-> info.avatar.id,
           image |-> image]}

\* StoreAvatarRepository keeps one image per owner, FsAvatarRepository one file
\* per owner and id.
SetImage(avatar, image) ==
  {i \in images : server.files \/ i.owner # avatar.owner}
    \cup {[owner |-> avatar.owner, source |-> avatar.source, id |-> avatar.id, image |-> image]}

StoreImage(t) ==
  /\ tasks[t].pc = "image"
  /\ \/ /\ images' = SetImage(Head(tasks[t].todo), tasks[t].image)
        /\ tasks' = [tasks EXCEPT ![t] = Idle]
     \/ /\ UNCHANGED images                          \* the image cannot be stored
        /\ tasks' = [tasks EXCEPT ![t] = Finished(@, 0)]
  /\ UNCHANGED <<serverVars, presenceVars, profiles, requested, writes, clearing>>

-----------------------------------------------------------------------------
(* The server, reconnection and CacheService::clear_cache *)

PresenceEvent(p) ==
  [kind |-> "presence", presence |-> p, version |-> 0,
   avatar |-> VcardAvatar("user", IF p.availability = "Unavailable" THEN 0 ELSE server'.vcard)]
PepEvent(kind, v) ==
  [kind |-> kind, presence |-> Presence(Bare, "Unavailable", 0), version |-> v,
   avatar |-> PepAvatar(v)]

Push(new, event) ==
  /\ changes < MaxChanges
  /\ changes' = changes + 1
  /\ server' = new
  /\ stream' = Append(stream, event)
  /\ UNCHANGED <<focus, connections, presenceVars, storeVars>>

ServerPresence(resource, availability, priority) ==
  /\ focus = "presence" /\ (resource = Bare <=> server.gateway)
  /\ server.online[resource].availability # availability
  /\ LET p == Presence(resource, availability, priority)
     IN Push([server EXCEPT !.online[resource] = p], PresenceEvent(p))

\* The contact revokes the subscription: one presence for all resources.
ServerRevokes ==
  /\ focus = "presence"
  /\ Push([server EXCEPT !.online = [r \in DOMAIN @ |-> Presence(r, "Unavailable", 0)]],
          PresenceEvent(Presence(Bare, "Unavailable", 0)))

ServerVcard(v) ==
  /\ focus # "presence" /\ v # server.vcard
  /\ LET resource == CHOOSE r \in Resources : TRUE
         p == Presence(resource, "Available", 0)
         new == [server EXCEPT !.vcard = v, !.online[resource] = p]
     IN Push(new, IF server.vcard4 THEN PepEvent("profile", v) ELSE PresenceEvent(p))

ServerPep(v) ==
  /\ focus = "avatar" /\ v # server.pep
  /\ Push([server EXCEPT !.pep = v], PepEvent("avatar", v))

ServerNickname(v) ==
  /\ focus = "profile" /\ v # server.nickname
  /\ Push([server EXCEPT !.nickname = v], PepEvent("nickname", v))

\* What the server sends again after the initial presence of a new connection.
Resent ==
  LET online == {r \in DOMAIN server.online : server.online[r].availability # "Unavailable"}
  IN SetToSeq({PresenceEvent(server.online[r]) : r \in online}
              \cup {PepEvent("avatar", v) : v \in {server.pep} \ {0}}
              \cup {PepEvent("nickname", v) : v \in {server.nickname} \ {0}}
              \cup {PepEvent("profile", v) : v \in {n \in {server.vcard} \ {0} : server.vcard4}})

Waiting(t) == tasks[t].pc \in {"pep", "vcard"}

ResetBeforeReconnect ==
  /\ connections < MaxConnections
  /\ connections' = connections + 1
  /\ server' = server
  /\ stream' = Resent
  /\ requested' = [vcards |-> {}, avatars |-> {}]
  /\ tasks' = [t \in Tasks |-> IF Waiting(t) THEN Idle ELSE tasks[t]]
  /\ UNCHANGED <<focus, changes, presenceVars, profiles, images, writes, clearing>>

ClearCache ==
  /\ \/ /\ clearing = "no" /\ clearing' = "infos"
        /\ images' = {} /\ UNCHANGED <<info, profiles>>
     \/ /\ clearing = "infos" /\ clearing' = "profiles"
        /\ info' = NoInfo /\ UNCHANGED <<images, profiles>>
     \/ /\ clearing = "profiles" /\ clearing' = "done"
        /\ profiles' = [o \in Owners |-> NoProfile] /\ UNCHANGED <<images, info>>
  /\ UNCHANGED <<serverVars, entries, seen, requested, tasks, writes>>

-----------------------------------------------------------------------------
Init ==
  /\ focus \in {"presence", "avatar", "profile"}
  /\ \E gateway, files, vcard4, blocked \in BOOLEAN :
       /\ gateway => focus = "presence"
       /\ files => focus = "avatar"
       /\ blocked => focus = "profile"
       /\ vcard4 => focus # "presence"
       /\ server = [online |-> [r \in Resources \cup {Bare} |-> Presence(r, "Unavailable", 0)],
                    pep |-> 0, vcard |-> 0, nickname |-> 0, gateway |-> gateway,
                    files |-> files, vcard4 |-> vcard4, blocked |-> blocked]
  /\ stream = <<>> /\ connections = 1 /\ changes = 0
  /\ entries = <<>> /\ info = NoInfo /\ seen = {}
  /\ profiles = [o \in Owners |-> NoProfile]
  /\ images = {} /\ requested = [vcards |-> {}, avatars |-> {}]
  /\ tasks = [t \in Tasks |-> Idle] /\ writes = <<>> /\ clearing = "no"

LoadNext ==
  \E t \in Tasks :
    \/ /\ focus = "avatar"
       /\ \E avatar \in seen \cup ({VcardAvatar("occupant", server.vcard)} \ {NoAvatar}) :
            LoadAvatarImage(t, avatar)
    \/ focus = "profile" /\ GetUserInfo(t)
    \/ TryAvatar(t)
    \/ ReceiveAvatarImage(t)
    \/ ReceiveVcardTemp(t)
    \/ ProfileIsStored(t)
    \/ StoreImage(t)

ServerNext ==
  \/ \E r \in Resources \cup {Bare}, a \in Availabilities, p \in {0, 1} : ServerPresence(r, a, p)
  \/ ServerRevokes
  \/ \E v \in Versions : ServerVcard(v) \/ ServerPep(v) \/ ServerNickname(v)

Next ==
  \/ ServerNext
  \/ ReceiveEvent
  \/ \E i \in 1..Len(writes) : UpdateProfileName(i)
  \/ LoadNext
  \/ ResetBeforeReconnect
  \/ focus = "profile" /\ ClearCache

Spec == Init /\ [][Next]_vars

-----------------------------------------------------------------------------
Avatars ==
  [source : {"none", "pep", "vcard"}, owner : Owners, id : {0} \cup Versions, real : BOOLEAN]
Infos ==
  [availability : Availabilities, avatar : Avatars, vcard : {0} \cup Versions,
   nickname : {0} \cup Versions]

(***************************************************************************)
(* The records of the repositories and of the loads have their types, and  *)
(* a load that stores an image has one (load_avatar_image).                *)
(***************************************************************************)
TypeOK ==
  /\ focus \in {"presence", "avatar", "profile"}
  /\ info \in Infos /\ seen \subseteq Avatars
  /\ profiles \in [Owners -> [known : BOOLEAN, name : {0} \cup Versions, photo : {0} \cup Versions]]
  /\ images \subseteq [owner : Owners, source : {"none", "pep", "vcard"}, id : {0} \cup Versions,
                        image : Versions]
  /\ requested \in [vcards : SUBSET Owners, avatars : SUBSET Owners]
  /\ \A t \in Tasks : tasks[t].pc \in {"idle", "try", "pep", "vcard", "named", "image"}
  /\ \A t \in Tasks : tasks[t].pc \in {"try", "pep", "image"} => tasks[t].todo # <<>>
  /\ clearing \in {"no", "infos", "profiles", "done"}

Online == {r \in DOMAIN server.online : server.online[r].availability # "Unavailable"}

(***************************************************************************)
(* Once every presence is handled, each resource the contact is online     *)
(* with has exactly one entry in the PresenceMap, as it was last sent, the *)
(* entries are in order of priority, and in the first connection there are *)
(* no others: the availability shown and the resource resolve_user_id      *)
(* picks are those of the contact's most important resource.               *)
(***************************************************************************)
PresencesAreKnown ==
  focus = "presence" /\ stream = <<>> =>
    /\ \A r \in Online : Cardinality({i \in DOMAIN entries : entries[i].resource = r}) = 1
    /\ \A r \in Online : server.online[r] \in ToSet(entries)
    /\ \A i, j \in DOMAIN entries : i < j => entries[i].priority >= entries[j].priority
    /\ connections = 1 => ToSet(entries) = {server.online[r] : r \in Online}
    /\ connections = 1 /\ Online # {} =>
         \E r \in Online :
           /\ Shown.availability = server.online[r].availability
           /\ \A q \in Online : server.online[q].priority <= server.online[r].priority

(***************************************************************************)
(* However presences with vCard hashes and PEP notifications interleave    *)
(* with loads and reconnections, the avatar shown once the server is       *)
(* silent is the published PEP avatar when there is one ("If we have a PEP *)
(* avatar already, we'll keep it" in handle_user_presence_changed).        *)
(***************************************************************************)
PepAvatarIsShown ==
  stream = <<>> /\ server.pep # 0 => info.avatar = PepAvatar(server.pep)

(***************************************************************************)
(* An image kept for a PEP avatar is the image with that id, although the  *)
(* avatar asked for may be replaced by another one while it is loaded, and *)
(* although the contact may publish another one meanwhile                  *)
(* (load_avatar_image).                                                    *)
(***************************************************************************)
PepImagesFit == \A i \in images : i.source = "pep" => i.image = i.id

(***************************************************************************)
(* When no profile is being stored, the vCard name the interface shows is  *)
(* that of the profile in the store: pushes and loads that overlap leave   *)
(* both at the same version (handle_user_profile_changed writes first one  *)
(* and then the other).                                                    *)
(***************************************************************************)
NameFollowsProfile ==
  writes = <<>> /\ info.vcard # 0 /\ profiles["user"].known
    => info.vcard = profiles["user"].name

(***************************************************************************)
(* The resource that resolve_user_id appends is one the contact is online  *)
(* with, once every presence is handled.                                   *)
(***************************************************************************)
ResolvesToAvailable ==
  stream = <<>> /\ ResolveUserId(entries) # Bare => ResolveUserId(entries) \in Online

=============================================================================
