---------------------------- MODULE Participants ----------------------------
(***************************************************************************)
(* The participant list of a connected room.  A presence of the room is    *)
(* parsed into one or two events, handled one after the other; the second  *)
(* waits for the name of a person it did not know, and what arrives in the *)
(* meantime is handled before it goes on.                                  *)
(*                                                                         *)
(* The room's server gives every user one anonymous occupant id, the user  *)
(* in an id position here.  A nickname may be used by one user after       *)
(* another.                                                                *)
(***************************************************************************)
EXTENDS Naturals, FiniteSets, Functions

CONSTANTS
    Nicks,          \* nicknames, the resources of occupants
    Users,
    Me,             \* the user of the account
    Affiliations,   \* those the server gives, without "none"
    MaxStanzas      \* bound: stanzas of the room

None == "none"

ASSUME UsersAssumption == Me \in Users /\ None \notin Users

\* ParticipantId.
Occupant(n) == <<"occupant", n>>
User(u) == <<"user", u>>
ParticipantIds == {Occupant(n) : n \in Nicks} \cup {User(u) : u \in Users}

\* Participant, and its Default.
Participant == [real : Users \cup {None}, anon : Users \cup {None},
                affiliation : Affiliations \cup {None},
                available : BOOLEAN, composing : BOOLEAN, isSelf : BOOLEAN]
DefaultParticipant == [real |-> None, anon |-> None, affiliation |-> None,
                       available |-> FALSE, composing |-> FALSE, isSelf |-> FALSE]

VARIABLES
    room,       \* at the server: the user behind every nickname in use
    member,     \* at the server: the affiliation of every user
    jids,       \* at the server: presences name the real id
    map,        \* participants_map
    anons,      \* anon_occupant_id_to_participant_id_map
    sidebar,    \* the room is in the sidebar
    tasks,      \* events that wait for a name
    shown,      \* history: the list at the last ParticipantsChanged
    taken,      \* history: nicknames that passed from one user to another
    failed,     \* history: a name could not be loaded
    stanzas     \* number of stanzas so far

client == <<map, anons, tasks, shown, failed>>
vars == <<room, member, jids, map, anons, sidebar, tasks, shown, taken, failed, stanzas>>

RealId(u) == IF jids THEN u ELSE None
Put(f, k, v) == [x \in DOMAIN f \cup {k} |-> IF x = k THEN v ELSE f[x]]
Remove(f, k) == Restrict(f, DOMAIN f \ {k})
Entry(m, id) == IF id \in DOMAIN m THEN m[id] ELSE DefaultParticipant

\* ParticipantList::new: the occupants, then the members that are not among them.
New(occupants, members) ==
    LET real == IF jids THEN Range(occupants) ELSE {}
        ids  == {Occupant(n) : n \in DOMAIN occupants}
                \cup {User(u) : u \in DOMAIN members \ real}
    IN  [id \in ids |->
            LET u == IF id[1] = "occupant" THEN occupants[id[2]] ELSE id[2]
            IN  [DefaultParticipant EXCEPT
                    !.real = IF id[1] = "user" THEN u ELSE RealId(u),
                    !.anon = IF id[1] = "user" THEN None ELSE u,
                    !.affiliation = member[u],
                    !.available = id[1] = "occupant",
                    !.isSelf = u = Me]]
AnonIdsOf(occupants) ==
    [u \in Range(occupants) |-> Occupant(CHOOSE n \in DOMAIN occupants : occupants[n] = u)]

\* A user has one nickname at a time; a member may be away.
Init ==
    /\ room \in UNION {[N -> Users] : N \in SUBSET Nicks} /\ IsInjective(room)
    /\ Me \in Range(room)
    /\ member \in [Users -> Affiliations \cup {None}] /\ member[Me] # None
    /\ jids \in BOOLEAN /\ sidebar \in BOOLEAN
    /\ map = New(room, Restrict(member, {u \in Users : member[u] # None}))
    /\ anons = AnonIdsOf(room)
    /\ tasks = {} /\ shown = map
    /\ taken = {} /\ failed = FALSE /\ stanzas = 0

-----------------------------------------------------------------------------
\* The operations of ParticipantList, from a map to a map.

SetAvailability(m, id, isSelf, available) ==
    Put(m, id, [Entry(m, id) EXCEPT !.isSelf = isSelf, !.available = available,
                                    !.composing = @ /\ available])

SetAffiliation(m, id, isSelf, affiliation) ==
    Put(m, id, [Entry(m, id) EXCEPT !.isSelf = isSelf, !.affiliation = affiliation])

SetComposeState(m, id, composing) ==
    IF id \in DOMAIN m THEN [m EXCEPT ![id].composing = composing] ELSE m

AddUser(m, u, affiliation) ==
    IF \E id \in DOMAIN m : m[id].real = u THEN m
    ELSE Put(m, User(u), [Entry(m, User(u)) EXCEPT
                            !.real = u, !.affiliation = affiliation, !.isSelf = FALSE])

\* set_ids_and_name: the map, and the map of anonymous ids.
SetIds(m, id, real, anon) ==
    IF id \notin DOMAIN m THEN m
    ELSE Remove([m EXCEPT ![id].real = real, ![id].anon = anon], User(real))
SetAnonIdKeepsOld(m, as, id, anon) ==
    IF id \notin DOMAIN m THEN as ELSE Put(as, anon, id)
SetAnonId(m, as, id, anon) ==
    IF id \notin DOMAIN m THEN as
    ELSE Put(Restrict(as, {a \in DOMAIN as : as[a] # id}), anon, id)

GetUserId(anon) ==
    IF anon \in DOMAIN anons /\ anons[anon] \in DOMAIN map
    THEN map[anons[anon]].real ELSE None

\* composing_users.
ComposingUsers == {id \in DOMAIN map : map[id].composing}

-----------------------------------------------------------------------------
\* The handlers.

\* handle_user_status_event: is_self_event, and the presence of an occupant.
IsSelfEvent(id) == id \in DOMAIN map /\ map[id].isSelf
AfterPresenceOfKnown(id, available) ==
    IF id \in DOMAIN map THEN SetAvailability(map, id, IsSelfEvent(id), available) ELSE map
AfterPresence(id, available) == SetAvailability(map, id, IsSelfEvent(id), available)
ShownAfterPresence(m) == IF sidebar THEN m ELSE shown

\* handle_occupant_event, AffiliationChanged, up to the await.
AffiliationChanged(n, u, m, seen) ==
    LET id      == Occupant(n)
        differs == id \notin DOMAIN m \/ m[id].affiliation # member'[u]
        after   == IF differs THEN SetAffiliation(m, id, u = Me, member'[u]) ELSE m
        waits   == jids /\ after[id].real = None
    IN  /\ map' = after
        /\ tasks' = tasks \cup (IF waits THEN {[kind |-> "ids", id |-> id, user |-> u,
                                                affiliation |-> None]} ELSE {})
        /\ shown' = IF differs /\ ~waits THEN after ELSE seen
        /\ UNCHANGED <<anons, failed>>

\* parse_muc_presence of an occupant that is there, then the handlers.
PresenceAvailable(n, u) ==
    LET m == AfterPresence(Occupant(n), TRUE) IN
    AffiliationChanged(n, u, m, ShownAfterPresence(m))

\* parse_muc_presence of one that goes: plainly, by a shutdown, or for good.
PresenceUnavailable(n, u, how) ==
    LET m == AfterPresence(Occupant(n), FALSE)
        r == IF how = "removed" THEN Remove(m, Occupant(n))
             ELSE IF how = "shutdown" THEN SetAvailability(m, Occupant(n), u = Me, FALSE)
             ELSE m
    IN  /\ map' = r
        /\ shown' = IF how = "left" \/ (how = "removed" /\ u = Me) THEN ShownAfterPresence(m)
                    ELSE r
        /\ UNCHANGED <<anons, tasks, failed>>

\* handle_room_event, UserAdded, up to the await.
UserAdded(u) ==
    /\ tasks' = tasks \cup {[kind |-> "added", id |-> User(u), user |-> u,
                             affiliation |-> member'[u]]}
    /\ UNCHANGED <<map, anons, shown, failed>>

\* Both handlers after the await.
NameLoaded(t) ==
    /\ map' = IF t.kind = "ids" THEN SetIds(map, t.id, t.user, t.user)
              ELSE AddUser(map, t.user, t.affiliation)
    /\ anons' = IF t.kind = "ids" THEN SetAnonId(map, anons, t.id, t.user) ELSE anons
    /\ shown' = map'
    /\ tasks' = tasks \ {t}
    /\ UNCHANGED <<room, member, jids, sidebar, taken, failed, stanzas>>

NameFailed(t) ==
    /\ tasks' = tasks \ {t}
    /\ failed' = TRUE
    /\ UNCHANGED <<room, member, jids, map, anons, sidebar, shown, taken, stanzas>>

-----------------------------------------------------------------------------
\* The room's server, and the stanza it sends with every change.

Stanza ==
    /\ Me \in Range(room)
    /\ stanzas < MaxStanzas /\ stanzas' = stanzas + 1
    /\ UNCHANGED <<jids, sidebar>>

\* A user enters, with a nickname nobody uses.
Enter(n, u) ==
    /\ Stanza /\ n \notin DOMAIN room /\ u \notin Range(room)
    /\ room' = Put(room, n, u)
    /\ taken' = IF \/ Occupant(n) \in DOMAIN map /\ map[Occupant(n)].real \notin {None, u}
                   \/ \E t \in tasks : t.id = Occupant(n) /\ t.user # u
                THEN taken \cup {n} ELSE taken
    /\ UNCHANGED member
    /\ PresenceAvailable(n, u)

\* An occupant's affiliation changes.
Appoint(n, affiliation) ==
    /\ Stanza /\ n \in DOMAIN room
    /\ member' = [member EXCEPT ![room[n]] = affiliation]
    /\ UNCHANGED <<room, taken>>
    /\ PresenceAvailable(n, room[n])

\* An occupant leaves, is dropped, or is removed and is a member no longer.
Leave(n, how) ==
    /\ Stanza /\ n \in DOMAIN room
    /\ room' = Remove(room, n)
    /\ member' = IF how = "removed" THEN [member EXCEPT ![room[n]] = None] ELSE member
    /\ UNCHANGED taken
    /\ PresenceUnavailable(n, room[n], how)

\* Somebody is invited to a members-only room.
Invite(u, affiliation) ==
    /\ Stanza /\ u \notin Range(room) /\ member[u] = None
    /\ member' = [member EXCEPT ![u] = affiliation]
    /\ UNCHANGED <<room, taken>>
    /\ UserAdded(u)

\* A chat state of an occupant.
Compose(n, composing) ==
    /\ Stanza /\ n \in DOMAIN room
    /\ map' = SetComposeState(map, Occupant(n), composing)
    /\ UNCHANGED <<room, member, taken, anons, tasks, shown, failed>>

Next ==
    \/ \E n \in Nicks, u \in Users : Enter(n, u)
    \/ \E n \in Nicks, a \in Affiliations : Appoint(n, a)
    \/ \E n \in Nicks, how \in {"left", "shutdown", "removed"} : Leave(n, how)
    \/ \E u \in Users, a \in Affiliations : Invite(u, a)
    \/ \E n \in Nicks, c \in BOOLEAN : Compose(n, c)
    \/ \E t \in tasks : NameLoaded(t) \/ NameFailed(t)

Spec == Init /\ [][Next]_vars

-----------------------------------------------------------------------------
\* Every variable holds a value of its type.
TypeOK ==
    /\ DOMAIN map \subseteq ParticipantIds /\ \A id \in DOMAIN map : map[id] \in Participant
    /\ DOMAIN anons \subseteq Users /\ Range(anons) \subseteq {Occupant(n) : n \in Nicks}
    /\ DOMAIN room \subseteq Nicks /\ Range(room) \subseteq Users
    /\ \A t \in tasks : t.id \in ParticipantIds /\ t.user \in Users

\* get_user_id, by which a message of the archive finds its sender, never
\* names somebody else: not when a removed occupant's anonymous id stays in
\* the map, not when a nickname goes from one user to another, and not when
\* the names of two of its users arrive in the wrong order.
AnonIdNamesItsOwner ==
    \A a \in Users : GetUserId(a) \in {None, a}

\* Nobody is listed as a member and as an occupant: add_user and
\* set_ids_and_name look for each other's entries, whichever comes first.
NobodyTwice ==
    \A u \in Users : User(u) \in DOMAIN map =>
        \A n \in Nicks : Occupant(n) \in DOMAIN map => map[Occupant(n)].real # u

\* Who is gone is not said to be composing (set_availability).
GoneIsNotComposing ==
    \A id \in ComposingUsers : map[id].available

\* Once no name is awaited the list agrees with the room: the occupants of
\* the room are listed, available, with their affiliation, and with their own
\* real id where the room tells it and their nickname was not somebody else's
\* before; nobody else is available.
OccupantsAreListed ==
    tasks = {} => \A n \in Nicks :
        LET id == Occupant(n) IN
        /\ n \in DOMAIN room =>
            /\ id \in DOMAIN map /\ map[id].available
            /\ map[id].affiliation = member[room[n]]
            /\ jids /\ n \notin taken /\ ~failed => map[id].real = room[n]
            /\ map[id].isSelf <=> room[n] = Me
        /\ n \notin DOMAIN room /\ id \in DOMAIN map => ~map[id].available

\* The documentation of real_id, "The real JID of the occupant": the real id of
\* an occupant that is in the room is that occupant's.  It is not when the
\* nickname was another user's before: the entry of one who left stays, and a
\* real id that is known already is kept.
RealIdIsTheOccupants ==
    tasks = {} /\ ~failed => \A n \in DOMAIN room : map[Occupant(n)].real \in {None, room[n]}

Quiet(m) == [id \in DOMAIN m |-> [m[id] EXCEPT !.composing = FALSE]]

\* The application was told of the list as it is, once no name is awaited:
\* every way through the handlers ends with ParticipantsChanged when
\* something changed.  Composing is told by another event.
ListIsShown ==
    tasks = {} /\ sidebar /\ ~failed /\ Me \in Range(room) => Quiet(shown) = Quiet(map)

\* The participant list is the room: nobody is listed as a member and as an
\* occupant, whichever came first; once no name is awaited the occupants are
\* listed, available, with their affiliation and their own real id where it
\* is told; whoever is gone is not composing; and the application has been
\* told of the list as it is.
ListAgrees ==
    /\ NobodyTwice
    /\ OccupantsAreListed
    /\ GoneIsNotComposing
    /\ ListIsShown
=============================================================================
