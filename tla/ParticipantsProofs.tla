------------------------- MODULE ParticipantsProofs -------------------------
(***************************************************************************)
(* Proofs about the participant list of Participants: get_user_id never    *)
(* names somebody else, and the list is the room.                          *)
(*                                                                         *)
(* The invariant has a part for every piece of state the properties        *)
(* compare: what the list says of a nickname that is in use (Present) and  *)
(* of one that is not (Absent), who it takes for the own user (Self), whom *)
(* the anonymous ids name (Anons), and, for a nickname nobody else had     *)
(* before, that the real id in the list and the names that are awaited are *)
(* all of one user (OneUser), with a name awaited wherever the real id is  *)
(* missing (Awaited).                                                      *)
(***************************************************************************)
EXTENDS Participants, TLAPS

Occupants == {Occupant(n) : n \in Nicks}

Tasks == [kind : {"ids", "added"}, id : ParticipantIds, user : Users,
          affiliation : Affiliations \cup {None}]

\* The types, with all that the operations of the list need of them.
Types ==
    /\ jids \in BOOLEAN /\ failed \in BOOLEAN /\ sidebar \in BOOLEAN
    /\ DOMAIN map \subseteq ParticipantIds
    /\ \A id \in DOMAIN map : map[id] \in Participant
    /\ DOMAIN anons \subseteq Users
    /\ \A a \in DOMAIN anons : anons[a] \in Occupants
    /\ DOMAIN room \subseteq Nicks
    /\ \A n \in DOMAIN room : room[n] \in Users
    /\ member \in [Users -> Affiliations \cup {None}]
    /\ tasks \subseteq Tasks
    /\ \A t \in tasks : t.kind = "ids" => t.id \in Occupants
    /\ \A t \in tasks : t.kind = "added" => t.id = User(t.user)

\* A user has one nickname at a time.
OneNick ==
    \A n, m \in DOMAIN room : room[n] = room[m] => n = m

Present ==
    \A n \in DOMAIN room :
        /\ Occupant(n) \in DOMAIN map
        /\ map[Occupant(n)].available
        /\ map[Occupant(n)].affiliation = member[room[n]]

Absent ==
    \A n \in Nicks \ DOMAIN room :
        Occupant(n) \in DOMAIN map => ~map[Occupant(n)].available

Self ==
    \A n \in Nicks : Occupant(n) \in DOMAIN map =>
        /\ n \in DOMAIN room => (map[Occupant(n)].isSelf <=> room[n] = Me)
        /\ n \notin DOMAIN room /\ map[Occupant(n)].isSelf => Me \notin Range(room)

Anons ==
    \A a \in DOMAIN anons :
        anons[a] \in DOMAIN map => map[anons[a]].real \in {None, a}

OneUser ==
    \A n \in Nicks \ taken :
        /\ n \in DOMAIN room =>
            /\ map[Occupant(n)].real \in {None, room[n]}
            /\ \A t \in tasks : t.id = Occupant(n) => t.user = room[n]
        /\ Occupant(n) \in DOMAIN map /\ map[Occupant(n)].real # None =>
            \A t \in tasks : t.id = Occupant(n) => t.user = map[Occupant(n)].real
        /\ \A t, s \in tasks : t.id = Occupant(n) /\ s.id = Occupant(n) => t.user = s.user

Awaited ==
    jids /\ ~failed => \A n \in DOMAIN room :
        map[Occupant(n)].real = None => \E t \in tasks : t.id = Occupant(n)

Inv ==
    /\ Types /\ OneNick /\ Present /\ Absent /\ Self /\ Anons /\ OneUser /\ Awaited
    /\ NobodyTwice /\ GoneIsNotComposing /\ ListIsShown

-----------------------------------------------------------------------------
\* The two kinds of participant ids, and ids of one kind, are told apart.
LEMMA IdsDiffer ==
    /\ \A n, m : Occupant(n) = Occupant(m) => n = m
    /\ \A u, v : User(u) = User(v) => u = v
    /\ \A n, u : Occupant(n) # User(u)
BY Zenon DEF Occupant, User

\* Remove drops one key.
LEMMA RemoveKey ==
    ASSUME NEW f, NEW k
    PROVE  /\ DOMAIN Remove(f, k) = DOMAIN f \ {k}
           /\ \A x \in DOMAIN f : x # k => Remove(f, k)[x] = f[x]
BY Zenon DEF Remove, Restrict

\* The participant of an id, or the default one, is a participant.
LEMMA EntryType ==
    ASSUME NEW m, NEW id, \A x \in DOMAIN m : m[x] \in Participant
    PROVE  Entry(m, id) \in Participant
BY Zenon DEF Entry, DefaultParticipant, Participant

\* A list r that differs from m in the entry of id, which is there.
Changed(r, m, id) ==
    /\ DOMAIN r = DOMAIN m \cup {id}
    /\ \A x \in DOMAIN m : x # id => r[x] = m[x]
    /\ \A x \in DOMAIN r : r[x] \in Participant
    /\ r[id].real = Entry(m, id).real

AvailabilityIs(r, m, id, self, available) ==
    /\ Changed(r, m, id)
    /\ r[id].available = available
    /\ r[id].isSelf = self
    /\ r[id].affiliation = Entry(m, id).affiliation
    /\ r[id].composing => available

AffiliationIs(r, m, id, self, affiliation) ==
    /\ Changed(r, m, id)
    /\ r[id].affiliation = affiliation
    /\ r[id].isSelf = self
    /\ r[id].available = Entry(m, id).available
    /\ r[id].composing = Entry(m, id).composing

\* set_availability: what it leaves alone, and the participant it makes.
LEMMA AvailabilitySet ==
    ASSUME NEW m, NEW id, NEW self \in BOOLEAN, NEW available \in BOOLEAN,
           \A x \in DOMAIN m : m[x] \in Participant
    PROVE  AvailabilityIs(SetAvailability(m, id, self, available), m, id, self, available)
<1> DEFINE e == Entry(m, id)
           v == [e EXCEPT !.isSelf = self, !.available = available,
                          !.composing = @ /\ available]
<1>1. e \in Participant
  BY Zenon, EntryType
<1> DEFINE c == e.composing /\ available
<1>2. /\ v \in Participant /\ v.available = available /\ v.isSelf = self
      /\ v.real = e.real /\ v.affiliation = e.affiliation
      /\ v.composing => available
  <2>1. c \in BOOLEAN /\ (c => available)
    OBVIOUS
  <2>2. v = [e EXCEPT !.isSelf = self, !.available = available, !.composing = c]
    BY Zenon, <1>1 DEF Participant
  <2> HIDE DEF c, v
  <2> QED
    BY Zenon, <1>1, <2>1, <2>2 DEF Participant
<1>3. SetAvailability(m, id, self, available) = Put(m, id, v)
  BY Zenon DEF SetAvailability
<1> HIDE DEF v
<1>4. /\ DOMAIN Put(m, id, v) = DOMAIN m \cup {id}
      /\ Put(m, id, v)[id] = v
      /\ \A x \in DOMAIN m : x # id => Put(m, id, v)[x] = m[x]
  BY Zenon DEF Put
<1> QED
  BY <1>2, <1>3, <1>4 DEF AvailabilityIs, Changed

\* set_affiliation, likewise.
LEMMA AffiliationSet ==
    ASSUME NEW m, NEW id, NEW self \in BOOLEAN, NEW aff \in Affiliations \cup {None},
           \A x \in DOMAIN m : m[x] \in Participant
    PROVE  AffiliationIs(SetAffiliation(m, id, self, aff), m, id, self, aff)
<1> DEFINE e == Entry(m, id)
           v == [e EXCEPT !.isSelf = self, !.affiliation = aff]
<1>1. e \in Participant
  BY Zenon, EntryType
<1>2. /\ v \in Participant /\ v.affiliation = aff /\ v.isSelf = self
      /\ v.real = e.real /\ v.available = e.available /\ v.composing = e.composing
  BY Zenon, <1>1 DEF Participant
<1>3. SetAffiliation(m, id, self, aff) = Put(m, id, v)
  BY Zenon DEF SetAffiliation
<1> HIDE DEF v
<1>4. /\ DOMAIN Put(m, id, v) = DOMAIN m \cup {id}
      /\ Put(m, id, v)[id] = v
      /\ \A x \in DOMAIN m : x # id => Put(m, id, v)[x] = m[x]
  BY Zenon DEF Put
<1> QED
  BY <1>2, <1>3, <1>4 DEF AffiliationIs, Changed

\* What the presence of user u with nickname n does to the client.
Arrived(n, u) ==
    LET id == Occupant(n) IN
    /\ Changed(map', map, id)
    /\ map'[id].available
    /\ map'[id].affiliation = member'[u]
    /\ (map'[id].isSelf <=> u = Me) \/ (map'[id].isSelf <=> IsSelfEvent(id))
    /\ tasks' = tasks \cup IF jids /\ Entry(map, id).real = None
                           THEN {[kind |-> "ids", id |-> id, user |-> u,
                                  affiliation |-> None]} ELSE {}
    /\ sidebar /\ tasks' = {} => shown' = map'
    /\ UNCHANGED <<anons, failed>>

\* The presence of an occupant that is there: the entry of the nickname, and
\* the name that is awaited when the room tells an id the list does not have.
LEMMA AvailableEffect ==
    ASSUME Types, NEW n \in Nicks, NEW u \in Users,
           member' \in [Users -> Affiliations \cup {None}],
           PresenceAvailable(n, u)
    PROVE  Arrived(n, u)
<1> DEFINE id == Occupant(n)
           m == AfterPresence(id, TRUE)
           differs == id \notin DOMAIN m \/ m[id].affiliation # member'[u]
           after == IF differs THEN SetAffiliation(m, id, u = Me, member'[u]) ELSE m
<1>1. /\ DOMAIN m = DOMAIN map \cup {id}
      /\ \A x \in DOMAIN map : x # id => m[x] = map[x]
      /\ \A x \in DOMAIN m : m[x] \in Participant
      /\ m[id].available = TRUE
      /\ m[id].isSelf = IsSelfEvent(id)
      /\ m[id].real = Entry(map, id).real
  <2>1. IsSelfEvent(id) \in BOOLEAN
    BY Zenon DEF IsSelfEvent, Types, Participant
  <2>2. \A x \in DOMAIN map : map[x] \in Participant
    BY Zenon DEF Types
  <2> DEFINE self == IsSelfEvent(id)
  <2>3. m = SetAvailability(map, id, self, TRUE)
    BY Zenon DEF AfterPresence
  <2>4. AvailabilityIs(m, map, id, self, TRUE)
    BY Zenon, <2>1, <2>2, <2>3, AvailabilitySet
  <2> HIDE DEF m, id
  <2> QED
    BY Zenon, <2>4 DEF AvailabilityIs, Changed
<1>2. member'[u] \in Affiliations \cup {None}
  OBVIOUS
<1> HIDE DEF m
<1>3. /\ DOMAIN after = DOMAIN map \cup {id}
      /\ \A x \in DOMAIN map : x # id => after[x] = map[x]
      /\ \A x \in DOMAIN after : after[x] \in Participant
      /\ after[id].available
      /\ after[id].affiliation = member'[u]
      /\ after[id].real = Entry(map, id).real
      /\ (after[id].isSelf <=> u = Me) \/ (after[id].isSelf <=> IsSelfEvent(id))
  <2>1. CASE differs
    <3>1. Entry(m, id) = m[id]
      BY Zenon, <1>1 DEF Entry
    <3>2. (u = Me) \in BOOLEAN
      OBVIOUS
    <3>3. AffiliationIs(after, m, id, u = Me, member'[u])
      BY Zenon, <1>1, <1>2, <2>1, <3>2, AffiliationSet
    <3> HIDE DEF id, after
    <3> QED
      BY Zenon, <1>1, <3>1, <3>3 DEF AffiliationIs, Changed
  <2>2. CASE ~differs
    BY Zenon, <1>1, <2>2
  <2> QED
    BY Zenon, <2>1, <2>2
<1>4. /\ map' = after
      /\ tasks' = tasks \cup IF jids /\ after[id].real = None
                             THEN {[kind |-> "ids", id |-> id, user |-> u,
                                    affiliation |-> None]} ELSE {}
      /\ shown' = IF differs /\ ~(jids /\ after[id].real = None)
                  THEN after ELSE ShownAfterPresence(m)
      /\ UNCHANGED <<anons, failed>>
  BY Zenon DEF PresenceAvailable, AffiliationChanged, m
<1>5. ASSUME sidebar, tasks' = {} PROVE shown' = map'
  <2>1. ~(jids /\ after[id].real = None)
    <3> HIDE DEF after
    <3> QED BY Zenon, <1>4, <1>5
  <2>2. CASE differs
    BY Zenon, <1>4, <2>1, <2>2
  <2>3. CASE ~differs
    BY Zenon, <1>4, <1>5, <2>3 DEF ShownAfterPresence
  <2> QED
    BY Zenon, <2>2, <2>3
<1> HIDE DEF after, differs
<1> QED
  BY Zenon, <1>3, <1>4, <1>5 DEF Arrived, Changed

\* What the presence of user u, who goes, does to the client.
Gone(n, u, how) ==
    LET id == Occupant(n) IN
    /\ how # "removed" =>
        /\ Changed(map', map, id)
        /\ ~map'[id].available
        /\ ~map'[id].composing
        /\ (map'[id].isSelf <=> u = Me) \/ (map'[id].isSelf <=> IsSelfEvent(id))
    /\ how = "removed" =>
        /\ DOMAIN map' = DOMAIN map \ {id}
        /\ \A x \in DOMAIN map' : map'[x] = map[x]
    /\ sidebar => shown' = map' \/ (how = "removed" /\ u = Me)
    /\ UNCHANGED <<anons, tasks, failed>>

\* The presence of one that goes: the entry stays, unavailable, or is removed.
LEMMA UnavailableEffect ==
    ASSUME Types, NEW n \in Nicks, NEW u \in Users,
           NEW how \in {"left", "shutdown", "removed"},
           PresenceUnavailable(n, u, how)
    PROVE  Gone(n, u, how)
<1> DEFINE id == Occupant(n)
           m == AfterPresence(id, FALSE)
           self == IsSelfEvent(id)
           r == IF how = "removed" THEN Remove(m, Occupant(n))
                ELSE IF how = "shutdown" THEN SetAvailability(m, Occupant(n), u = Me, FALSE)
                ELSE m
<1>1. AvailabilityIs(m, map, id, self, FALSE)
  <2>1. self \in BOOLEAN
    BY Zenon DEF IsSelfEvent, Types, Participant
  <2>2. \A x \in DOMAIN map : map[x] \in Participant
    BY Zenon DEF Types
  <2>3. m = SetAvailability(map, id, self, FALSE)
    BY Zenon DEF AfterPresence
  <2> QED
    BY Zenon, <2>1, <2>2, <2>3, AvailabilitySet
<1>2. /\ map' = r
      /\ shown' = IF how = "left" \/ (how = "removed" /\ u = Me) THEN ShownAfterPresence(m)
                  ELSE r
      /\ UNCHANGED <<anons, tasks, failed>>
  BY Zenon DEF PresenceUnavailable, m, r
<1> HIDE DEF m, self
<1>3. CASE how = "left"
  <2>1. map' = m /\ (sidebar => shown' = m)
    BY Zenon, <1>2, <1>3 DEF ShownAfterPresence
  <2> HIDE DEF r, id
  <2> QED
    BY Zenon, <1>1, <1>2, <1>3, <2>1 DEF Gone, AvailabilityIs, id, self
<1>4. CASE how = "shutdown"
  <2>1. map' = r /\ shown' = r
    BY Zenon, <1>2, <1>4
  <2>2. (u = Me) \in BOOLEAN
    OBVIOUS
  <2>3. \A x \in DOMAIN m : m[x] \in Participant
    BY Zenon, <1>1 DEF AvailabilityIs, Changed
  <2>4. AvailabilityIs(r, m, id, u = Me, FALSE)
    BY Zenon, <1>4, <2>2, <2>3, AvailabilitySet
  <2>5. Entry(m, id) = m[id]
    BY Zenon, <1>1 DEF AvailabilityIs, Changed, Entry
  <2> HIDE DEF r, id
  <2>6. Changed(r, map, id)
    BY Zenon, <1>1, <2>4, <2>5 DEF AvailabilityIs, Changed
  <2> QED
    BY Zenon, <1>2, <1>4, <2>1, <2>4, <2>6 DEF Gone, AvailabilityIs, id
<1>5. CASE how = "removed"
  <2>1. map' = Remove(m, id) /\ (u # Me => shown' = map')
    BY Zenon, <1>2, <1>5
  <2>2. DOMAIN map' = DOMAIN map \ {id} /\ \A x \in DOMAIN map' : map'[x] = map[x]
    BY Zenon, <1>1, <2>1 DEF Remove, Restrict, AvailabilityIs, Changed
  <2> QED
    BY Zenon, <1>2, <1>5, <2>1, <2>2 DEF Gone
<1> QED
  BY Zenon, <1>3, <1>4, <1>5

-----------------------------------------------------------------------------
\* The real ids stay as they are, and a new entry has none.
RealIdsStay ==
    \A x \in DOMAIN map' :
        \/ x \in DOMAIN map /\ map'[x].real = map[x].real
        \/ x \in Occupants \ DOMAIN map /\ map'[x].real = None

\* Where the real ids stay, an anonymous id still names its owner, and nobody
\* is listed twice.
LEMMA RealIdsStayed ==
    ASSUME Types, Anons, NobodyTwice, RealIdsStay, anons' = anons
    PROVE  Anons' /\ NobodyTwice'
<1>1. Anons'
  BY Zenon DEF Anons, RealIdsStay
<1>2. NobodyTwice'
  <2> SUFFICES ASSUME NEW u \in Users, User(u) \in DOMAIN map', NEW n \in Nicks,
                      Occupant(n) \in DOMAIN map'
               PROVE  map'[Occupant(n)].real # u
    BY Zenon DEF NobodyTwice
  <2>1. User(u) \in DOMAIN map
    BY Zenon, IdsDiffer DEF RealIdsStay, Occupants
  <2> QED
    BY Zenon, <2>1, UsersAssumption DEF RealIdsStay, NobodyTwice
<1> QED
  BY Zenon, <1>1, <1>2

\* A change of one occupant's entry keeps the real ids and the other entries.
LEMMA ChangedKeeps ==
    ASSUME NEW n \in Nicks, Changed(map', map, Occupant(n))
    PROVE  /\ RealIdsStay
           /\ \A k \in Nicks \ {n} :
                /\ Occupant(k) \in DOMAIN map' <=> Occupant(k) \in DOMAIN map
                /\ Occupant(k) \in DOMAIN map => map'[Occupant(k)] = map[Occupant(k)]
<1>1. RealIdsStay
  BY Zenon DEF RealIdsStay, Changed, Entry, DefaultParticipant, Occupants
<1> QED
  BY Zenon, <1>1, IdsDiffer DEF Changed

\* The presence of an occupant that is there keeps the types and what does not
\* depend on the room.
LEMMA ArrivedKeeps ==
    ASSUME Inv, NEW n \in Nicks, NEW u \in Users, Arrived(n, u),
           jids' = jids, sidebar' = sidebar,
           DOMAIN room' \subseteq Nicks, \A k \in DOMAIN room' : room'[k] \in Users,
           member' \in [Users -> Affiliations \cup {None}]
    PROVE  Types' /\ Anons' /\ NobodyTwice' /\ GoneIsNotComposing' /\ ListIsShown'
<1> DEFINE id == Occupant(n)
           new == [kind |-> "ids", id |-> id, user |-> u, affiliation |-> None]
<1>1. Changed(map', map, id) /\ map'[id].available /\ UNCHANGED <<anons, failed>>
  BY Zenon DEF Arrived
<1>2. \A t \in tasks' : t \in tasks \/ t = new
  BY Zenon DEF Arrived
<1>3. Types'
  <2>1. id \in Occupants /\ id \in ParticipantIds
    BY Zenon DEF Occupants, ParticipantIds
  <2>2. new \in Tasks
    BY Zenon, <2>1 DEF Tasks
  <2>3. DOMAIN map' \subseteq ParticipantIds /\ \A x \in DOMAIN map' : map'[x] \in Participant
    BY Zenon, <1>1, <2>1 DEF Changed, Inv, Types
  <2>4. /\ tasks' \subseteq Tasks
        /\ \A t \in tasks' : t.kind = "ids" => t.id \in Occupants
        /\ \A t \in tasks' : t.kind = "added" => t.id = User(t.user)
    BY <1>2, <2>1, <2>2 DEF Inv, Types
  <2> QED
    BY Zenon, <1>1, <2>3, <2>4 DEF Inv, Types
<1>4. Anons' /\ NobodyTwice'
  BY Zenon, <1>1, ChangedKeeps, RealIdsStayed DEF Inv
<1>5. GoneIsNotComposing'
  BY Zenon, <1>1 DEF GoneIsNotComposing, ComposingUsers, Inv, Changed
<1>6. ListIsShown'
  BY Zenon DEF ListIsShown, Arrived, Quiet
<1> QED
  BY Zenon, <1>3, <1>4, <1>5, <1>6

\* Where the room tells the real id, one that is missing is awaited.
LEMMA ArrivedAwaits ==
    ASSUME Inv, NEW n \in Nicks, NEW u \in Users, Arrived(n, u),
           jids' = jids, DOMAIN room' = DOMAIN room \cup {n}
    PROVE  Awaited'
<1> DEFINE id == Occupant(n)
           new == [kind |-> "ids", id |-> id, user |-> u, affiliation |-> None]
<1> SUFFICES ASSUME jids', ~failed', NEW k \in DOMAIN room', map'[Occupant(k)].real = None
             PROVE  \E t \in tasks' : t.id = Occupant(k)
  BY Zenon DEF Awaited
<1>1. Changed(map', map, id) /\ map'[id].real = Entry(map, id).real
  BY Zenon DEF Arrived, Changed
<1>2. CASE k = n
  <2>1. jids /\ Entry(map, id).real = None
    BY Zenon, <1>1, <1>2
  <2>2. tasks' = tasks \cup {new}
    BY Zenon, <2>1 DEF Arrived
  <2>3. new \in tasks' /\ new.id = Occupant(k)
    BY Zenon, <1>2, <2>2
  <2> QED
    BY Zenon, <2>3
<1>3. CASE k # n
  <2>1. k \in DOMAIN room /\ map[Occupant(k)].real = None
    BY Zenon, <1>1, <1>3, ChangedKeeps DEF Present, Inv, Types
  <2>2. ~failed /\ jids /\ tasks \subseteq tasks'
    BY Zenon DEF Arrived
  <2> QED
    BY Zenon, <2>1, <2>2 DEF Awaited, Inv
<1> QED
  BY Zenon, <1>2, <1>3

\* A user that enters is not the own one, and is nobody the list knew under
\* another nickname.
LEMMA EnterKeepsInv ==
    ASSUME Inv, NEW n \in Nicks, NEW u \in Users, Enter(n, u)
    PROVE  Inv'
<1> DEFINE id == Occupant(n)
<1>1. /\ DOMAIN room' = DOMAIN room \cup {n} /\ n \notin DOMAIN room
      /\ room'[n] = u /\ \A k \in DOMAIN room : room'[k] = room[k] /\ room[k] # u
      /\ member' = member /\ jids' = jids /\ sidebar' = sidebar
  BY Zenon DEF Enter, Stanza, Put, Range
<1>2. Arrived(n, u)
  BY Zenon, <1>1, AvailableEffect DEF Enter, Inv, Types
<1>3. Types' /\ Anons' /\ NobodyTwice' /\ GoneIsNotComposing' /\ ListIsShown'
  <2>1. /\ DOMAIN room' \subseteq Nicks /\ \A k \in DOMAIN room' : room'[k] \in Users
        /\ member' \in [Users -> Affiliations \cup {None}]
    BY Zenon, <1>1 DEF Inv, Types
  <2> QED
    BY Zenon, <1>1, <1>2, <2>1, ArrivedKeeps
<1>4. u # Me /\ Me \in Range(room) /\ Me \in Range(room')
  BY Zenon, <1>1 DEF Enter, Stanza, Range
<1>5. /\ Changed(map', map, id) /\ map'[id].available /\ map'[id].affiliation = member[u]
      /\ id \in DOMAIN map' /\ map'[id].real = Entry(map, id).real
  BY Zenon, <1>1, <1>2 DEF Arrived, Changed
<1>6. \A k \in Nicks \ {n} :
        /\ Occupant(k) \in DOMAIN map' <=> Occupant(k) \in DOMAIN map
        /\ Occupant(k) \in DOMAIN map => map'[Occupant(k)] = map[Occupant(k)]
  BY Zenon, <1>5, ChangedKeeps
<1>7. \A t \in tasks' : t \in tasks \/ (t.id = id /\ t.user = u)
  BY <1>2 DEF Arrived
<1>9. OneNick'
  BY Zenon, <1>1 DEF OneNick, Inv
<1>10. Present'
  BY <1>1, <1>5, <1>6 DEF Present, Inv, Types
<1>11. Absent'
  BY Zenon, <1>1, <1>6 DEF Absent, Inv
<1>12. Self'
  <2>1. ~IsSelfEvent(id)
    BY Zenon, <1>1, <1>4 DEF IsSelfEvent, Self, Inv
  <2>2. ~map'[id].isSelf
    BY Zenon, <1>2, <1>4, <2>1 DEF Arrived
  <2> QED
    BY Zenon, <1>1, <1>4, <1>6, <2>2 DEF Self, Inv
<1>13. OneUser'
  <2> SUFFICES ASSUME NEW k \in Nicks \ taken'
               PROVE  /\ k \in DOMAIN room' =>
                          /\ map'[Occupant(k)].real \in {None, room'[k]}
                          /\ \A t \in tasks' : t.id = Occupant(k) => t.user = room'[k]
                      /\ Occupant(k) \in DOMAIN map' /\ map'[Occupant(k)].real # None =>
                          \A t \in tasks' : t.id = Occupant(k) => t.user = map'[Occupant(k)].real
                      /\ \A t, s \in tasks' : t.id = Occupant(k) /\ s.id = Occupant(k)
                                              => t.user = s.user
    BY Zenon DEF OneUser
  <2>1. k \notin taken
    BY Zenon DEF Enter
  <2>2. CASE k = n
    <3>1. /\ id \in DOMAIN map => map[id].real \in {None, u}
          /\ \A t \in tasks : t.id = id => t.user = u
      BY Zenon, <2>2 DEF Enter
    <3>2. map'[id].real \in {None, u}
      BY Zenon, <1>5, <3>1 DEF Entry, DefaultParticipant
    <3>3. \A t \in tasks' : t.id = id => t.user = u
      BY Zenon, <1>7, <3>1
    <3> QED
      BY Zenon, <1>1, <2>2, <3>2, <3>3
  <2>3. CASE k # n
    <3>1. Occupant(k) # id
      BY Zenon, <2>3, IdsDiffer
    <3>2. \A t \in tasks' : t.id = Occupant(k) => t \in tasks
      BY Zenon, <1>7, <3>1
    <3>3. k \in DOMAIN room' => k \in DOMAIN room /\ room'[k] = room[k] /\ Occupant(k) \in DOMAIN map
      BY Zenon, <1>1, <2>3 DEF Present, Inv
    <3> QED
      BY <1>6, <2>1, <2>3, <3>2, <3>3 DEF OneUser, Inv
  <2> QED
    BY Zenon, <2>2, <2>3
<1>14. Awaited'
  BY Zenon, <1>1, <1>2, ArrivedAwaits
<1> QED
  BY Zenon, <1>3, <1>9, <1>10, <1>11, <1>12, <1>13, <1>14 DEF Inv

\* The server names a new affiliation of an occupant.
LEMMA AppointKeepsInv ==
    ASSUME Inv, NEW n \in Nicks, NEW a \in Affiliations, Appoint(n, a)
    PROVE  Inv'
<1> DEFINE id == Occupant(n)
           u == room[n]
<1>1. /\ n \in DOMAIN room /\ u \in Users
      /\ room' = room /\ taken' = taken /\ jids' = jids /\ sidebar' = sidebar
      /\ member' = [member EXCEPT ![u] = a]
      /\ PresenceAvailable(n, u)
  BY Zenon DEF Appoint, Stanza, Inv, Types
<1>2. /\ member' \in [Users -> Affiliations \cup {None}] /\ member'[u] = a
      /\ \A k \in DOMAIN room : k # n => member'[room[k]] = member[room[k]]
  BY Zenon, <1>1 DEF Inv, Types, OneNick
<1> HIDE DEF u
<1>3. Arrived(n, u)
  BY Zenon, <1>1, <1>2, AvailableEffect DEF Inv
<1>4. Types' /\ Anons' /\ NobodyTwice' /\ GoneIsNotComposing' /\ ListIsShown'
  <2>1. DOMAIN room' \subseteq Nicks /\ \A k \in DOMAIN room' : room'[k] \in Users
    BY Zenon, <1>1 DEF Inv, Types
  <2> QED
    BY Zenon, <1>1, <1>2, <1>3, <2>1, ArrivedKeeps
<1>5. /\ Changed(map', map, id) /\ map'[id].available /\ map'[id].affiliation = member'[u]
      /\ id \in DOMAIN map' /\ map'[id].real = Entry(map, id).real
  BY Zenon, <1>3 DEF Arrived, Changed
<1>6. \A k \in Nicks \ {n} :
        /\ Occupant(k) \in DOMAIN map' <=> Occupant(k) \in DOMAIN map
        /\ Occupant(k) \in DOMAIN map => map'[Occupant(k)] = map[Occupant(k)]
  BY Zenon, <1>5, ChangedKeeps
<1>7. id \in DOMAIN map /\ map'[id].real = map[id].real
  BY Zenon, <1>1, <1>5 DEF Present, Inv, Entry
<1>8. \A t \in tasks' : t \in tasks \/ (t.id = id /\ t.user = u)
  BY <1>3 DEF Arrived
<1>9. OneNick' /\ Absent'
  BY Zenon, <1>1, <1>6 DEF OneNick, Absent, Inv
<1>10. Present'
  BY <1>1, <1>2, <1>5, <1>6 DEF Present, Inv, Types, u
<1>11. Self'
  <2>1. IsSelfEvent(id) <=> u = Me
    BY Zenon, <1>1, <1>7 DEF IsSelfEvent, Self, Inv, u
  <2>2. map'[id].isSelf <=> u = Me
    BY Zenon, <1>3, <2>1 DEF Arrived
  <2>3. Range(room)' = Range(room)
    BY Zenon, <1>1
  <2> QED
    BY Zenon, <1>1, <1>6, <2>2, <2>3 DEF Self, Inv, u
<1>12. OneUser'
  <2> SUFFICES ASSUME NEW k \in Nicks \ taken
               PROVE  /\ k \in DOMAIN room =>
                          /\ map'[Occupant(k)].real \in {None, room[k]}
                          /\ \A t \in tasks' : t.id = Occupant(k) => t.user = room[k]
                      /\ Occupant(k) \in DOMAIN map' /\ map'[Occupant(k)].real # None =>
                          \A t \in tasks' : t.id = Occupant(k) => t.user = map'[Occupant(k)].real
                      /\ \A t, s \in tasks' : t.id = Occupant(k) /\ s.id = Occupant(k)
                                              => t.user = s.user
    BY Zenon, <1>1 DEF OneUser
  <2>1. CASE k = n
    <3>1. /\ map[id].real \in {None, u}
          /\ \A t \in tasks : t.id = id => t.user = u
      BY Zenon, <1>1, <2>1 DEF OneUser, Inv, u
    <3>2. \A t \in tasks' : t.id = id => t.user = u
      BY Zenon, <1>8, <3>1
    <3> QED
      BY Zenon, <1>7, <2>1, <3>1, <3>2 DEF u
  <2>2. CASE k # n
    <3>1. Occupant(k) # id
      BY Zenon, <2>2, IdsDiffer
    <3>2. \A t \in tasks' : t.id = Occupant(k) => t \in tasks
      BY Zenon, <1>8, <3>1
    <3>3. k \in DOMAIN room => Occupant(k) \in DOMAIN map
      BY Zenon DEF Present, Inv
    <3> QED
      BY <1>6, <2>2, <3>2, <3>3 DEF OneUser, Inv
  <2> QED
    BY Zenon, <2>1, <2>2
<1>13. Awaited'
  <2>1. DOMAIN room' = DOMAIN room \cup {n}
    BY Zenon, <1>1
  <2> QED
    BY Zenon, <1>1, <1>3, <2>1, ArrivedAwaits
<1> QED
  BY Zenon, <1>4, <1>9, <1>10, <1>11, <1>12, <1>13 DEF Inv

\* An occupant goes: the entry stays, unavailable, or is removed; the other
\* entries stay in both cases.
LEMMA LeaveKeepsInv ==
    ASSUME Inv, NEW n \in Nicks, NEW how \in {"left", "shutdown", "removed"}, Leave(n, how)
    PROVE  Inv'
<1> DEFINE id == Occupant(n)
           u == room[n]
<1>1. /\ n \in DOMAIN room /\ u \in Users
      /\ room' = Remove(room, n) /\ taken' = taken /\ jids' = jids /\ sidebar' = sidebar
      /\ member' = IF how = "removed" THEN [member EXCEPT ![u] = None] ELSE member
      /\ PresenceUnavailable(n, u, how)
  BY Zenon DEF Leave, Stanza, Inv, Types
<1>2. DOMAIN room' = DOMAIN room \ {n} /\ \A k \in DOMAIN room' : room'[k] = room[k]
  BY Zenon, <1>1, RemoveKey
<1>3. /\ member' \in [Users -> Affiliations \cup {None}]
      /\ \A k \in DOMAIN room' : member'[room[k]] = member[room[k]]
  BY Zenon, <1>1, <1>2 DEF Inv, Types, OneNick
<1>4. u = Me => Me \notin Range(room)'
  BY Zenon, <1>1, <1>2 DEF OneNick, Inv, Range
<1>5. Me \notin Range(room) => Me \notin Range(room)'
  BY Zenon, <1>2 DEF Range
<1> HIDE DEF u
<1>6. Gone(n, u, how)
  BY Zenon, <1>1, UnavailableEffect DEF Inv
<1>7. UNCHANGED <<anons, tasks, failed>>
  BY Zenon, <1>6 DEF Gone
<1>8. id \in DOMAIN map
  BY Zenon, <1>1 DEF Present, Inv
<1>9. IsSelfEvent(id) <=> u = Me
  BY Zenon, <1>1, <1>8 DEF IsSelfEvent, Self, Inv, u
<1>10. /\ RealIdsStay
       /\ \A k \in Nicks \ {n} :
            /\ Occupant(k) \in DOMAIN map' <=> Occupant(k) \in DOMAIN map
            /\ Occupant(k) \in DOMAIN map => map'[Occupant(k)] = map[Occupant(k)]
       /\ id \in DOMAIN map' => ~map'[id].available /\ ~map'[id].composing
       /\ id \in DOMAIN map' => (map'[id].isSelf <=> u = Me)
       /\ id \in DOMAIN map' => map'[id].real = map[id].real
       /\ DOMAIN map' \subseteq DOMAIN map
       /\ \A x \in DOMAIN map' : map'[x] \in Participant
       /\ \A x \in DOMAIN map' : x # id => map'[x] = map[x]
  <2>1. CASE how = "removed"
    <3>1. DOMAIN map' = DOMAIN map \ {id} /\ \A x \in DOMAIN map' : map'[x] = map[x]
      BY Zenon, <1>6, <2>1 DEF Gone
    <3> QED
      BY Zenon, <3>1, IdsDiffer DEF RealIdsStay, Inv, Types
  <2>2. CASE how # "removed"
    <3>1. /\ Changed(map', map, id) /\ ~map'[id].available /\ ~map'[id].composing
          /\ map'[id].isSelf <=> u = Me
      BY Zenon, <1>6, <1>9, <2>2 DEF Gone
    <3>2. map'[id].real = map[id].real /\ DOMAIN map' = DOMAIN map
      BY Zenon, <1>8, <3>1 DEF Changed, Entry
    <3> QED
      BY Zenon, <3>1, <3>2, ChangedKeeps DEF Changed
  <2> QED
    BY Zenon, <2>1, <2>2
<1>11. Types'
  BY <1>1, <1>2, <1>3, <1>7, <1>10 DEF Inv, Types
<1>12. Anons' /\ NobodyTwice'
  BY Zenon, <1>7, <1>10, RealIdsStayed DEF Inv
<1>13. OneNick' /\ Present' /\ Absent'
  BY <1>1, <1>2, <1>3, <1>10 DEF OneNick, Present, Absent, Inv, Types
<1>14. Self'
  <2> SUFFICES ASSUME NEW k \in Nicks, Occupant(k) \in DOMAIN map'
               PROVE  /\ k \in DOMAIN room' => (map'[Occupant(k)].isSelf <=> room'[k] = Me)
                      /\ k \notin DOMAIN room' /\ map'[Occupant(k)].isSelf => Me \notin Range(room)'
    BY Zenon DEF Self
  <2>1. CASE k = n
    BY Zenon, <1>2, <1>4, <1>10, <2>1
  <2>2. CASE k # n
    BY Zenon, <1>2, <1>5, <1>10, <2>2 DEF Self, Inv
  <2> QED
    BY Zenon, <2>1, <2>2
<1>15. OneUser'
  <2> SUFFICES ASSUME NEW k \in Nicks \ taken
               PROVE  /\ k \in DOMAIN room' =>
                          /\ map'[Occupant(k)].real \in {None, room'[k]}
                          /\ \A t \in tasks : t.id = Occupant(k) => t.user = room'[k]
                      /\ Occupant(k) \in DOMAIN map' /\ map'[Occupant(k)].real # None =>
                          \A t \in tasks : t.id = Occupant(k) => t.user = map'[Occupant(k)].real
                      /\ \A t, s \in tasks : t.id = Occupant(k) /\ s.id = Occupant(k)
                                             => t.user = s.user
    BY <1>1, <1>7 DEF OneUser
  <2>1. CASE k = n
    BY Zenon, <1>2, <1>8, <1>10, <2>1 DEF OneUser, Inv
  <2>2. CASE k # n
    <3>1. k \in DOMAIN room' => k \in DOMAIN room /\ Occupant(k) \in DOMAIN map
      BY Zenon, <1>2 DEF Present, Inv
    <3> QED
      BY <1>2, <1>10, <2>2, <3>1 DEF OneUser, Inv
  <2> QED
    BY Zenon, <2>1, <2>2
<1>16. Awaited'
  <2>1. \A k \in DOMAIN room' : map'[Occupant(k)] = map[Occupant(k)] /\ k \in DOMAIN room
    BY Zenon, <1>2, <1>10 DEF Present, Inv, Types
  <2> QED
    BY Zenon, <1>1, <1>7, <2>1 DEF Awaited, Inv
<1>17. GoneIsNotComposing'
  BY Zenon, <1>10 DEF GoneIsNotComposing, ComposingUsers, Inv
<1>18. ListIsShown'
  BY Zenon, <1>1, <1>4, <1>6 DEF ListIsShown, Gone
<1> QED
  BY Zenon, <1>11, <1>12, <1>13, <1>14, <1>15, <1>16, <1>17, <1>18 DEF Inv

\* An invitation changes nothing before the name of the invited user is there.
LEMMA InviteKeepsInv ==
    ASSUME Inv, NEW u \in Users, NEW a \in Affiliations, Invite(u, a)
    PROVE  Inv'
<1> DEFINE new == [kind |-> "added", id |-> User(u), user |-> u, affiliation |-> member'[u]]
<1>1. /\ UNCHANGED <<room, taken, jids, sidebar, map, anons, shown, failed>>
      /\ member' = [member EXCEPT ![u] = a] /\ tasks' = tasks \cup {new}
      /\ \A k \in DOMAIN room : room[k] # u
  BY Zenon DEF Invite, Stanza, UserAdded, Range
<1>2. member' \in [Users -> Affiliations \cup {None}] /\ \A v \in Users \ {u} : member'[v] = member[v]
  BY Zenon, <1>1 DEF Inv, Types
<1>3. new \in Tasks /\ new.kind = "added" /\ new.id = User(new.user)
  BY Zenon, <1>2 DEF Tasks, ParticipantIds
<1>4. \A n : new.id # Occupant(n)
  BY Zenon, IdsDiffer
<1> HIDE DEF new
<1>5. Types'
  BY Zenon, <1>1, <1>2, <1>3 DEF Inv, Types
<1>6. Present'
  BY Zenon, <1>1, <1>2 DEF Present, Inv, Types
<1>7. OneNick' /\ Absent' /\ Self' /\ Anons' /\ NobodyTwice' /\ GoneIsNotComposing'
  BY Zenon, <1>1 DEF Inv, OneNick, Absent, Self, Anons, NobodyTwice, GoneIsNotComposing,
     ComposingUsers
<1>8. OneUser' /\ Awaited'
  BY <1>1, <1>4 DEF Inv, OneUser, Awaited
<1>9. ListIsShown'
  BY Zenon, <1>1 DEF ListIsShown
<1> QED
  BY Zenon, <1>5, <1>6, <1>7, <1>8, <1>9 DEF Inv

\* Who composes is in the room, and so is available; the application is told of
\* it by another event.
LEMMA ComposeKeepsInv ==
    ASSUME Inv, NEW n \in Nicks, NEW c \in BOOLEAN, Compose(n, c)
    PROVE  Inv'
<1> DEFINE id == Occupant(n)
<1>1. /\ UNCHANGED <<room, member, taken, jids, sidebar, anons, tasks, shown, failed>>
      /\ n \in DOMAIN room /\ map' = SetComposeState(map, id, c)
  BY Zenon DEF Compose, Stanza
<1>2. id \in DOMAIN map /\ map[id].available /\ map[id] \in Participant
  BY Zenon, <1>1 DEF Present, Inv, Types
<1>3. map' = [map EXCEPT ![id].composing = c]
  BY Zenon, <1>1, <1>2 DEF SetComposeState
<1> DEFINE e == [map[id] EXCEPT !.composing = c]
<1>4. /\ e \in Participant
      /\ e.real = map[id].real /\ e.affiliation = map[id].affiliation
      /\ e.available = map[id].available /\ e.isSelf = map[id].isSelf
      /\ [e EXCEPT !.composing = FALSE] = [map[id] EXCEPT !.composing = FALSE]
  BY Zenon, <1>2 DEF Participant
<1>5. DOMAIN map' = DOMAIN map /\ map'[id] = e /\ \A x \in DOMAIN map : x # id => map'[x] = map[x]
  BY Zenon, <1>2, <1>3
<1> HIDE DEF e, id
<1>6. \A x \in DOMAIN map :
        /\ map'[x] \in Participant
        /\ map'[x].real = map[x].real /\ map'[x].affiliation = map[x].affiliation
        /\ map'[x].available = map[x].available /\ map'[x].isSelf = map[x].isSelf
        /\ [map'[x] EXCEPT !.composing = FALSE] = [map[x] EXCEPT !.composing = FALSE]
  BY Zenon, <1>4, <1>5 DEF Inv, Types
<1>7. \A x \in DOMAIN map : map'[x].composing => map'[x].available
  BY Zenon, <1>2, <1>5, <1>6 DEF Inv, GoneIsNotComposing, ComposingUsers
<1>8. Types'
  BY Zenon, <1>1, <1>5, <1>6 DEF Inv, Types
<1>9. Anons' /\ NobodyTwice'
  BY Zenon, <1>1, <1>5, <1>6, RealIdsStayed DEF RealIdsStay, Inv
<1>10. OneNick' /\ Present' /\ Absent'
  <2>1. OneNick'
    BY Zenon, <1>1 DEF OneNick, Inv
  <2>2. Present'
    BY Zenon, <1>1, <1>5, <1>6 DEF Present, Inv
  <2>3. Absent'
    BY Zenon, <1>1, <1>5, <1>6 DEF Absent, Inv
  <2> QED
    BY Zenon, <2>1, <2>2, <2>3
<1>11. Self'
  BY Zenon, <1>1, <1>5, <1>6 DEF Self, Inv
<1>12. OneUser' /\ Awaited'
  <2>1. \A k \in DOMAIN room : Occupant(k) \in DOMAIN map
    BY Zenon DEF Present, Inv
  <2>2. OneUser'
    <3> SUFFICES ASSUME NEW k \in Nicks \ taken
                 PROVE  /\ k \in DOMAIN room =>
                            /\ map'[Occupant(k)].real \in {None, room[k]}
                            /\ \A t \in tasks : t.id = Occupant(k) => t.user = room[k]
                        /\ Occupant(k) \in DOMAIN map /\ map'[Occupant(k)].real # None =>
                            \A t \in tasks : t.id = Occupant(k) => t.user = map'[Occupant(k)].real
                        /\ \A t, s \in tasks : t.id = Occupant(k) /\ s.id = Occupant(k)
                                               => t.user = s.user
      BY <1>1, <1>5 DEF OneUser
    <3>1. Occupant(k) \in DOMAIN map => map'[Occupant(k)].real = map[Occupant(k)].real
      BY Zenon, <1>6
    <3> QED
      BY Zenon, <2>1, <3>1 DEF OneUser, Inv
  <2>3. Awaited'
    BY Zenon, <1>1, <1>5, <1>6, <2>1 DEF Awaited, Inv
  <2> QED
    BY Zenon, <2>2, <2>3
<1>13. GoneIsNotComposing'
  BY Zenon, <1>5, <1>7 DEF GoneIsNotComposing, ComposingUsers
<1>14. ListIsShown'
  <2>1. Quiet(map)' = Quiet(map) /\ Quiet(shown)' = Quiet(shown)
    BY Zenon, <1>1, <1>5, <1>6 DEF Quiet
  <2> QED
    BY Zenon, <1>1, <2>1 DEF ListIsShown, Inv
<1> QED
  BY Zenon, <1>8, <1>9, <1>10, <1>11, <1>12, <1>13, <1>14 DEF Inv

\* What set_ids_and_name does when the name for occupant id, user u, arrives.
Identified(id, u) ==
    /\ DOMAIN map' = DOMAIN map \ {User(u)}
    /\ id \in DOMAIN map' /\ map'[id].real = u
    /\ \A x \in DOMAIN map' :
        /\ map'[x] \in Participant
        /\ map'[x].affiliation = map[x].affiliation
        /\ map'[x].available = map[x].available
        /\ map'[x].composing = map[x].composing
        /\ map'[x].isSelf = map[x].isSelf
        /\ x # id => map'[x] = map[x]
    /\ DOMAIN anons' = {a \in DOMAIN anons : anons[a] # id} \cup {u}
    /\ anons'[u] = id
    /\ \A a \in DOMAIN anons' \ {u} : anons'[a] = anons[a]

\* Its effect, on an occupant that is still listed.
LEMMA IdsEffect ==
    ASSUME Types, NEW t \in tasks, t.kind = "ids", t.id \in DOMAIN map, NameLoaded(t)
    PROVE  Identified(t.id, t.user)
<1> DEFINE id == t.id
           u == t.user
           m == [map EXCEPT ![id].real = u, ![id].anon = u]
           e == [[map[id] EXCEPT !.real = u] EXCEPT !.anon = u]
           kept == {a \in DOMAIN anons : anons[a] # id}
<1>1. /\ map' = SetIds(map, id, u, u) /\ anons' = SetAnonId(map, anons, id, u)
      /\ u \in Users /\ map[id] \in Participant /\ id \in Occupants
  BY Zenon DEF NameLoaded, Types, Tasks
<1>2. map' = Remove(m, User(u)) /\ anons' = Put(Restrict(anons, kept), u, id)
  BY Zenon, <1>1 DEF SetIds, SetAnonId
<1>3. DOMAIN m = DOMAIN map /\ m[id] = e /\ \A x \in DOMAIN map : x # id => m[x] = map[x]
  OBVIOUS
<1>4. /\ e \in Participant /\ e.real = u
      /\ e.affiliation = map[id].affiliation /\ e.available = map[id].available
      /\ e.composing = map[id].composing /\ e.isSelf = map[id].isSelf
  BY Zenon, <1>1 DEF Participant
<1>5. id # User(u)
  BY Zenon, <1>1, IdsDiffer DEF Occupants
<1>6. DOMAIN anons' = kept \cup {u} /\ anons'[u] = id
      /\ \A a \in DOMAIN anons' \ {u} : anons'[a] = anons[a]
  BY Zenon, <1>2 DEF Put, Restrict
<1> HIDE DEF m, e
<1>7. DOMAIN map' = DOMAIN map \ {User(u)} /\ \A x \in DOMAIN map' : map'[x] = m[x]
  BY Zenon, <1>2, <1>3 DEF Remove, Restrict
<1>8. \A x \in DOMAIN map' : map'[x] \in Participant /\ (x # id => map'[x] = map[x])
  BY <1>3, <1>4, <1>7 DEF Types
<1>9. id \in DOMAIN map' /\ map'[id] = e
  BY Zenon, <1>3, <1>5, <1>7
<1> QED
  BY Zenon, <1>4, <1>6, <1>7, <1>8, <1>9 DEF Identified

\* The name of an occupant arrives, whose nickname may be somebody else's by now.
LEMMA IdsKeepInv ==
    ASSUME Inv, NEW t \in tasks, t.kind = "ids", t.id \in DOMAIN map, NameLoaded(t)
    PROVE  Inv'
<1> DEFINE id == t.id
           u == t.user
<1>1. /\ UNCHANGED <<room, member, jids, sidebar, taken, failed>>
      /\ shown' = map' /\ tasks' = tasks \ {t}
      /\ u \in Users /\ id \in Occupants /\ u # None
  BY Zenon, UsersAssumption DEF NameLoaded, Inv, Types, Tasks
<1>2. Identified(id, u)
  BY Zenon, IdsEffect DEF Inv
<1> HIDE DEF id, u
<1>3. \A n \in Nicks : Occupant(n) \in DOMAIN map' <=> Occupant(n) \in DOMAIN map
  BY <1>2, IdsDiffer DEF Identified
<1>4. Types'
  <2>1. DOMAIN map' \subseteq ParticipantIds /\ \A x \in DOMAIN map' : map'[x] \in Participant
    BY Zenon, <1>2 DEF Identified, Inv, Types
  <2>2. DOMAIN anons' \subseteq Users /\ \A a \in DOMAIN anons' : anons'[a] \in Occupants
    BY <1>1, <1>2 DEF Identified, Inv, Types
  <2> QED
    BY Zenon, <1>1, <2>1, <2>2 DEF Inv, Types
<1>5. OneNick' /\ Present' /\ Absent'
  <2>1. OneNick'
    BY Zenon, <1>1 DEF OneNick, Inv
  <2>2. Present'
    BY <1>1, <1>2, <1>3 DEF Present, Identified, Inv, Types
  <2>3. Absent'
    BY Zenon, <1>1, <1>2, <1>3 DEF Absent, Identified, Inv
  <2> QED
    BY Zenon, <2>1, <2>2, <2>3
<1>6. Self'
  BY Zenon, <1>1, <1>2, <1>3 DEF Self, Identified, Inv
<1>7. Anons'
  BY <1>2 DEF Anons, Identified, Inv
<1>8. NobodyTwice'
  <2> SUFFICES ASSUME NEW v \in Users, User(v) \in DOMAIN map', NEW n \in Nicks,
                      Occupant(n) \in DOMAIN map'
               PROVE  map'[Occupant(n)].real # v
    BY Zenon DEF NobodyTwice
  <2>1. v # u /\ User(v) \in DOMAIN map
    BY Zenon, <1>2 DEF Identified
  <2> QED
    BY <1>2, <1>3, <2>1 DEF Identified, NobodyTwice, Inv
<1>9. OneUser'
  <2> SUFFICES ASSUME NEW k \in Nicks \ taken
               PROVE  /\ k \in DOMAIN room =>
                          /\ map'[Occupant(k)].real \in {None, room[k]}
                          /\ \A s \in tasks' : s.id = Occupant(k) => s.user = room[k]
                      /\ Occupant(k) \in DOMAIN map' /\ map'[Occupant(k)].real # None =>
                          \A s \in tasks' : s.id = Occupant(k) => s.user = map'[Occupant(k)].real
                      /\ \A r, s \in tasks' : r.id = Occupant(k) /\ s.id = Occupant(k)
                                              => r.user = s.user
    BY <1>1 DEF OneUser
  <2>1. tasks' \subseteq tasks
    BY Zenon, <1>1
  <2>2. CASE Occupant(k) = id
    <3>1. /\ \A s \in tasks : s.id = Occupant(k) => s.user = u
          /\ k \in DOMAIN room => u = room[k]
      BY <2>2 DEF OneUser, Inv, id, u
    <3> QED
      BY Zenon, <1>2, <2>1, <2>2, <3>1 DEF Identified
  <2>3. CASE Occupant(k) # id
    <3>1. Occupant(k) \in DOMAIN map => map'[Occupant(k)] = map[Occupant(k)]
      BY Zenon, <1>2, <1>3, <2>3 DEF Identified
    <3>2. k \in DOMAIN room => Occupant(k) \in DOMAIN map
      BY Zenon DEF Present, Inv
    <3> QED
      BY <1>3, <2>1, <3>1, <3>2 DEF OneUser, Inv
  <2> QED
    BY Zenon, <2>2, <2>3
<1>10. Awaited'
  <2> SUFFICES ASSUME jids, ~failed, NEW k \in DOMAIN room, map'[Occupant(k)].real = None
               PROVE  \E s \in tasks' : s.id = Occupant(k)
    BY Zenon, <1>1 DEF Awaited
  <2>1. Occupant(k) # id
    BY Zenon, <1>1, <1>2 DEF Identified
  <2>2. k \in Nicks /\ Occupant(k) \in DOMAIN map
    BY Zenon DEF Present, Inv, Types
  <2>3. map[Occupant(k)].real = None
    BY Zenon, <1>2, <1>3, <2>1, <2>2 DEF Identified
  <2>4. PICK s \in tasks : s.id = Occupant(k)
    BY Zenon, <2>3 DEF Awaited, Inv
  <2> QED
    BY Zenon, <1>1, <2>1, <2>4 DEF id
<1>11. GoneIsNotComposing'
  BY Zenon, <1>2 DEF GoneIsNotComposing, ComposingUsers, Identified, Inv
<1>12. ListIsShown'
  BY Zenon, <1>1 DEF ListIsShown
<1> QED
  BY Zenon, <1>4, <1>5, <1>6, <1>7, <1>8, <1>9, <1>10, <1>11, <1>12 DEF Inv

\* A name that changes nothing in the list: of an occupant that was removed, or
\* of a user that is listed.  No occupant in the room waits for it.
LEMMA NothingNewKeepsInv ==
    ASSUME Inv, NEW t \in tasks, tasks' = tasks \ {t},
           UNCHANGED <<room, member, jids, sidebar, taken, map, anons>>,
           \/ failed' = failed /\ shown' = map' /\ \A n \in DOMAIN room : t.id # Occupant(n)
           \/ failed' = TRUE /\ shown' = shown
    PROVE  Inv'
<1>1. tasks' \subseteq tasks /\ failed' \in BOOLEAN
  BY Zenon DEF Inv, Types
<1>2. Types'
  BY Zenon, <1>1 DEF Inv, Types
<1>3. OneNick' /\ Present' /\ Absent' /\ Self' /\ Anons' /\ NobodyTwice' /\ GoneIsNotComposing'
  BY Zenon DEF Inv, OneNick, Present, Absent, Self, Anons, NobodyTwice, GoneIsNotComposing,
     ComposingUsers
<1>4. OneUser'
  BY <1>1 DEF Inv, OneUser
<1>5. Awaited'
  BY Zenon DEF Inv, Awaited
<1>6. ListIsShown'
  BY Zenon DEF ListIsShown
<1> QED
  BY Zenon, <1>2, <1>3, <1>4, <1>5, <1>6 DEF Inv

\* The name of a user that was added arrives, who may be an occupant by now:
\* then add_user finds the real id.
LEMMA AddedKeepsInv ==
    ASSUME Inv, NEW t \in tasks, t.kind = "added", NameLoaded(t),
           ~\E x \in DOMAIN map : map[x].real = t.user
    PROVE  Inv'
<1> DEFINE u == t.user
           id == User(u)
           e == [Entry(map, id) EXCEPT !.real = u, !.affiliation = t.affiliation,
                                       !.isSelf = FALSE]
<1>1. /\ UNCHANGED <<room, member, jids, sidebar, taken, failed, anons>>
      /\ shown' = map' /\ tasks' = tasks \ {t}
      /\ u \in Users /\ t.id = id /\ t.affiliation \in Affiliations \cup {None}
  BY Zenon DEF NameLoaded, Inv, Types, Tasks
<1>2. map' = Put(map, id, e)
  BY Zenon DEF NameLoaded, AddUser
<1>3. Entry(map, id) \in Participant
  BY Zenon, EntryType DEF Inv, Types
<1>4. /\ e \in Participant /\ e.real = u
      /\ e.composing = Entry(map, id).composing /\ e.available = Entry(map, id).available
  BY Zenon, <1>1, <1>3 DEF Participant
<1>5. e.composing => e.available
  BY Zenon, <1>4 DEF Entry, DefaultParticipant, Inv, GoneIsNotComposing, ComposingUsers
<1> HIDE DEF e
<1>6. /\ DOMAIN map' = DOMAIN map \cup {id} /\ map'[id] = e
      /\ \A x \in DOMAIN map : x # id => map'[x] = map[x]
  BY Zenon, <1>2 DEF Put
<1>7. /\ \A n : Occupant(n) # id
      /\ \A n : Occupant(n) \in DOMAIN map' <=> Occupant(n) \in DOMAIN map
      /\ \A n : Occupant(n) \in DOMAIN map => map'[Occupant(n)] = map[Occupant(n)]
  BY Zenon, <1>6, IdsDiffer
<1>8. id \in ParticipantIds
  BY Zenon, <1>1 DEF ParticipantIds
<1> HIDE DEF id
<1>9. Types'
  BY Zenon, <1>1, <1>4, <1>6, <1>8 DEF Inv, Types
<1>10. OneNick' /\ Present' /\ Absent'
  <2>1. OneNick'
    BY Zenon, <1>1 DEF OneNick, Inv
  <2>2. Present'
    BY Zenon, <1>1, <1>7 DEF Present, Inv
  <2>3. Absent'
    BY Zenon, <1>1, <1>7 DEF Absent, Inv
  <2> QED
    BY Zenon, <2>1, <2>2, <2>3
<1>11. Self'
  BY Zenon, <1>1, <1>7 DEF Self, Inv
<1>12. Anons'
  BY <1>1, <1>7 DEF Anons, Inv, Types, Occupants
<1>13. NobodyTwice'
  <2> SUFFICES ASSUME NEW v \in Users, User(v) \in DOMAIN map', NEW n \in Nicks,
                      Occupant(n) \in DOMAIN map
               PROVE  map[Occupant(n)].real # v
    BY Zenon, <1>7 DEF NobodyTwice
  <2>1. User(v) \in DOMAIN map \/ v = u
    BY Zenon, <1>6, IdsDiffer DEF id
  <2> QED
    BY Zenon, <2>1 DEF NobodyTwice, Inv
<1>14. OneUser'
  <2> SUFFICES ASSUME NEW k \in Nicks \ taken
               PROVE  /\ k \in DOMAIN room =>
                          /\ map'[Occupant(k)].real \in {None, room[k]}
                          /\ \A s \in tasks : s.id = Occupant(k) => s.user = room[k]
                      /\ Occupant(k) \in DOMAIN map' /\ map'[Occupant(k)].real # None =>
                          \A s \in tasks : s.id = Occupant(k) => s.user = map'[Occupant(k)].real
                      /\ \A r, s \in tasks : r.id = Occupant(k) /\ s.id = Occupant(k)
                                             => r.user = s.user
    BY <1>1 DEF OneUser
  <2>1. k \in DOMAIN room => Occupant(k) \in DOMAIN map
    BY Zenon DEF Present, Inv
  <2> QED
    BY <1>7, <2>1 DEF OneUser, Inv
<1>15. Awaited'
  <2>1. \A k \in DOMAIN room : map'[Occupant(k)] = map[Occupant(k)]
    BY Zenon, <1>7 DEF Present, Inv
  <2>2. \A s \in tasks : \A k : s.id = Occupant(k) => s \in tasks'
    BY Zenon, <1>1, <1>7
  <2> QED
    BY Zenon, <1>1, <2>1, <2>2 DEF Awaited, Inv
<1>16. GoneIsNotComposing'
  BY Zenon, <1>5, <1>6 DEF GoneIsNotComposing, ComposingUsers, Inv
<1>17. ListIsShown'
  BY Zenon, <1>1 DEF ListIsShown
<1> QED
  BY Zenon, <1>9, <1>10, <1>11, <1>12, <1>13, <1>14, <1>15, <1>16, <1>17 DEF Inv

\* What happens when a name arrives, or cannot be loaded.
LEMMA NamesKeepInv ==
    ASSUME Inv, NEW t \in tasks, NameLoaded(t) \/ NameFailed(t)
    PROVE  Inv'
<1>1. CASE NameFailed(t)
  BY Zenon, <1>1, NothingNewKeepsInv DEF NameFailed
<1>2. CASE NameLoaded(t) /\ t.kind = "ids" /\ t.id \in DOMAIN map
  BY Zenon, <1>2, IdsKeepInv
<1>3. CASE NameLoaded(t) /\ t.kind = "ids" /\ t.id \notin DOMAIN map
  <2>1. map' = map /\ anons' = anons
    BY Zenon, <1>3 DEF NameLoaded, SetIds, SetAnonId
  <2>2. \A n \in DOMAIN room : t.id # Occupant(n)
    BY Zenon, <1>3 DEF Present, Inv
  <2> QED
    BY Zenon, <1>3, <2>1, <2>2, NothingNewKeepsInv DEF NameLoaded
<1>4. CASE /\ NameLoaded(t) /\ t.kind = "added"
           /\ \E x \in DOMAIN map : map[x].real = t.user
  <2>1. map' = map /\ anons' = anons
    BY Zenon, <1>4 DEF NameLoaded, AddUser
  <2>2. \A n \in DOMAIN room : t.id # Occupant(n)
    BY Zenon, <1>4, IdsDiffer DEF Inv, Types
  <2> QED
    BY Zenon, <1>4, <2>1, <2>2, NothingNewKeepsInv DEF NameLoaded
<1>5. CASE /\ NameLoaded(t) /\ t.kind = "added"
           /\ ~\E x \in DOMAIN map : map[x].real = t.user
  BY Zenon, <1>5, AddedKeepsInv
<1>6. t.kind \in {"ids", "added"}
  BY Zenon DEF Inv, Types, Tasks
<1> QED
  BY Zenon, <1>1, <1>2, <1>3, <1>4, <1>5, <1>6

-----------------------------------------------------------------------------
\* The list of a room that was just entered.
LEMMA NewList ==
    ASSUME Init
    PROVE  /\ DOMAIN map = {Occupant(n) : n \in DOMAIN room}
                           \cup {User(u) : u \in {v \in Users : member[v] # None}
                                                 \ (IF jids THEN Range(room) ELSE {})}
           /\ \A n \in DOMAIN room : map[Occupant(n)] =
                [real |-> RealId(room[n]), anon |-> room[n], affiliation |-> member[room[n]],
                 available |-> TRUE, composing |-> FALSE, isSelf |-> room[n] = Me]
           /\ \A u \in Users : User(u) \in DOMAIN map => map[User(u)] =
                [real |-> u, anon |-> None, affiliation |-> member[u],
                 available |-> FALSE, composing |-> FALSE, isSelf |-> u = Me]
<1> DEFINE members == Restrict(member, {u \in Users : member[u] # None})
<1>1. map = New(room, members)
  BY Zenon DEF Init
<1>2. DOMAIN members = {u \in Users : member[u] # None}
  BY Zenon DEF Restrict
<1> HIDE DEF members
<1>3. DOMAIN map = {Occupant(n) : n \in DOMAIN room}
                   \cup {User(u) : u \in {v \in Users : member[v] # None}
                                         \ (IF jids THEN Range(room) ELSE {})}
  BY Zenon, <1>1, <1>2 DEF New
<1>4. ASSUME NEW n \in DOMAIN room
      PROVE  map[Occupant(n)] =
                [real |-> RealId(room[n]), anon |-> room[n], affiliation |-> member[room[n]],
                 available |-> TRUE, composing |-> FALSE, isSelf |-> room[n] = Me]
  <2>1. Occupant(n) \in DOMAIN map /\ Occupant(n)[1] = "occupant" /\ Occupant(n)[2] = n
    BY Zenon, <1>3 DEF Occupant
  <2>2. map[Occupant(n)] =
            [DefaultParticipant EXCEPT !.real = RealId(room[n]), !.anon = room[n],
                !.affiliation = member[room[n]], !.available = TRUE, !.isSelf = room[n] = Me]
    BY Zenon, <1>1, <2>1 DEF New
  <2> QED
    BY Zenon, <2>2 DEF DefaultParticipant
<1>5. ASSUME NEW u \in Users, User(u) \in DOMAIN map
      PROVE  map[User(u)] =
                [real |-> u, anon |-> None, affiliation |-> member[u],
                 available |-> FALSE, composing |-> FALSE, isSelf |-> u = Me]
  <2>1. User(u)[1] = "user" /\ User(u)[2] = u
    BY Zenon DEF User
  <2>2. map[User(u)] =
            [DefaultParticipant EXCEPT !.real = u, !.anon = None,
                !.affiliation = member[u], !.available = FALSE, !.isSelf = u = Me]
    BY Zenon, <1>1, <1>5, <2>1 DEF New
  <2> QED
    BY Zenon, <2>2 DEF DefaultParticipant
<1> QED
  BY Zenon, <1>3, <1>4, <1>5

\* The invariant holds when the room was entered.
LEMMA InitInv ==
    ASSUME Init
    PROVE  Inv
<1>1. /\ DOMAIN room \subseteq Nicks /\ \A n \in DOMAIN room : room[n] \in Users
      /\ jids \in BOOLEAN /\ failed = FALSE /\ sidebar \in BOOLEAN
      /\ member \in [Users -> Affiliations \cup {None}] /\ tasks = {} /\ shown = map
  BY DEF Init
<1>2. OneNick
  BY Zenon DEF Init, OneNick, IsInjective
<1>3. \A n \in DOMAIN room :
        /\ Occupant(n) \in DOMAIN map /\ map[Occupant(n)] \in Participant
        /\ map[Occupant(n)].real = RealId(room[n]) /\ RealId(room[n]) \in {room[n], None}
        /\ map[Occupant(n)].affiliation = member[room[n]]
        /\ map[Occupant(n)].available /\ ~map[Occupant(n)].composing
        /\ map[Occupant(n)].isSelf <=> room[n] = Me
  <2> TAKE n \in DOMAIN room
  <2> DEFINE self == room[n] = Me
             real == RealId(room[n])
             e == [real |-> real, anon |-> room[n], affiliation |-> member[room[n]],
                   available |-> TRUE, composing |-> FALSE, isSelf |-> self]
  <2>1. Occupant(n) \in DOMAIN map /\ map[Occupant(n)] = e
    BY Zenon, NewList
  <2>2. /\ self \in BOOLEAN /\ real \in {room[n], None}
        /\ room[n] \in Users /\ member[room[n]] \in Affiliations \cup {None}
    BY Zenon, <1>1 DEF RealId
  <2>3. self <=> room[n] = Me
    OBVIOUS
  <2> HIDE DEF self, real
  <2>4. e \in Participant
    BY Zenon, <2>2 DEF Participant
  <2> QED
    BY <2>1, <2>2, <2>3, <2>4 DEF real
<1>4. \A u \in Users : User(u) \in DOMAIN map =>
        map[User(u)] \in Participant /\ ~map[User(u)].composing
  <2> SUFFICES ASSUME NEW u \in Users, User(u) \in DOMAIN map
               PROVE  map[User(u)] \in Participant /\ ~map[User(u)].composing
    OBVIOUS
  <2> DEFINE self == u = Me
  <2>1. map[User(u)] = [real |-> u, anon |-> None, affiliation |-> member[u],
                        available |-> FALSE, composing |-> FALSE, isSelf |-> self]
    BY Zenon, NewList
  <2>2. self \in BOOLEAN /\ member[u] \in Affiliations \cup {None}
    BY Zenon, <1>1
  <2> HIDE DEF self
  <2> QED
    BY <2>1, <2>2 DEF Participant
<1>5. \A x \in DOMAIN map : \/ \E n \in DOMAIN room : x = Occupant(n)
                            \/ \E u \in Users : x = User(u)
  BY NewList
<1>6. \A n \in Nicks : Occupant(n) \in DOMAIN map => n \in DOMAIN room
  BY <1>5, IdsDiffer
<1>7. \A a \in DOMAIN anons : a \in Users /\ \E n \in DOMAIN room : anons[a] = Occupant(n) /\ room[n] = a
  BY Zenon, <1>1 DEF Init, AnonIdsOf, Range
<1>8. Types
  <2>1. DOMAIN map \subseteq ParticipantIds
    BY Zenon, <1>1, <1>5 DEF ParticipantIds
  <2>2. \A x \in DOMAIN map : map[x] \in Participant
    BY Zenon, <1>3, <1>4, <1>5
  <2>3. DOMAIN anons \subseteq Users /\ \A a \in DOMAIN anons : anons[a] \in Occupants
    BY Zenon, <1>1, <1>7 DEF Occupants
  <2> QED
    BY Zenon, <1>1, <2>1, <2>2, <2>3 DEF Types
<1>9. Present /\ Absent /\ Self
  BY Zenon, <1>3, <1>6 DEF Present, Absent, Self
<1>10. Anons
  BY <1>3, <1>7 DEF Anons
<1>11. OneUser /\ Awaited
  <2>1. OneUser
    BY Zenon, <1>1, <1>3, <1>6 DEF OneUser
  <2>2. Awaited
    BY <1>1, <1>3, UsersAssumption DEF Awaited, RealId
  <2> QED
    BY Zenon, <2>1, <2>2
<1>12. NobodyTwice
  <2> SUFFICES ASSUME NEW u \in Users, User(u) \in DOMAIN map, NEW n \in Nicks,
                      Occupant(n) \in DOMAIN map
               PROVE  map[Occupant(n)].real # u
    BY Zenon DEF NobodyTwice
  <2>1. u \notin (IF jids THEN Range(room) ELSE {})
    BY NewList, IdsDiffer
  <2>2. n \in DOMAIN room
    BY Zenon, <1>6
  <2> QED
    BY <1>3, <2>1, <2>2, UsersAssumption DEF RealId, Range
<1>13. GoneIsNotComposing /\ ListIsShown
  BY <1>1, <1>3, <1>4, <1>5 DEF GoneIsNotComposing, ComposingUsers, ListIsShown
<1> QED
  BY Zenon, <1>2, <1>8, <1>9, <1>10, <1>11, <1>12, <1>13 DEF Inv

-----------------------------------------------------------------------------
\* The inductive invariant, through every interleaving of the server's stanzas
\* with the names the handlers wait for.
THEOREM ParticipantsInvariant == Spec => []Inv
<1>1. Init => Inv
  BY Zenon, InitInv
<1>2. Inv /\ [Next]_vars => Inv'
  <2> SUFFICES ASSUME Inv, [Next]_vars PROVE Inv'
    OBVIOUS
  <2>1. CASE UNCHANGED vars
    BY <2>1 DEF vars, Inv, Types, OneNick, Present, Absent, Self, Anons, OneUser, Awaited,
       NobodyTwice, GoneIsNotComposing, ComposingUsers, ListIsShown, Quiet
  <2>2. CASE \E n \in Nicks, u \in Users : Enter(n, u)
    BY Zenon, <2>2, EnterKeepsInv
  <2>3. CASE \E n \in Nicks, a \in Affiliations : Appoint(n, a)
    BY <2>3, AppointKeepsInv
  <2>4. CASE \E n \in Nicks, how \in {"left", "shutdown", "removed"} : Leave(n, how)
    BY Zenon, <2>4, LeaveKeepsInv
  <2>5. CASE \E u \in Users, a \in Affiliations : Invite(u, a)
    BY <2>5, InviteKeepsInv
  <2>6. CASE \E n \in Nicks, c \in BOOLEAN : Compose(n, c)
    BY Zenon, <2>6, ComposeKeepsInv
  <2>7. CASE \E t \in tasks : NameLoaded(t) \/ NameFailed(t)
    BY Zenon, <2>7, NamesKeepInv
  <2> QED
    BY Zenon, <2>1, <2>2, <2>3, <2>4, <2>5, <2>6, <2>7 DEF Next
<1> QED
  BY <1>1, <1>2, PTL DEF Spec

\* Every variable of the participant list keeps its type.
THEOREM ParticipantsTypeOK == Spec => []TypeOK
<1>1. Inv => TypeOK
  BY Zenon DEF Inv, Types, TypeOK, Range, Occupants, Tasks
<1> QED
  BY <1>1, ParticipantsInvariant, PTL

\* get_user_id names nobody but the owner of the anonymous id: set_anon_id drops
\* the other ids of the entry before it puts the new one, so the real id of the
\* entry is that of the last user identified there.
THEOREM AnonIdsNameTheirOwners == Spec => []AnonIdNamesItsOwner
<1>1. Inv => AnonIdNamesItsOwner
  BY Zenon DEF Inv, Anons, AnonIdNamesItsOwner, GetUserId
<1> QED
  BY <1>1, ParticipantsInvariant, PTL

\* The list is the room: for any number of users, nicknames, affiliations and
\* stanzas, in every order of presences and names.
THEOREM ParticipantListAgrees == Spec => []ListAgrees
<1>1. ASSUME Inv PROVE OccupantsAreListed
  <2> SUFFICES ASSUME tasks = {}, NEW n \in Nicks
               PROVE  LET id == Occupant(n) IN
                      /\ n \in DOMAIN room =>
                          /\ id \in DOMAIN map /\ map[id].available
                          /\ map[id].affiliation = member[room[n]]
                          /\ jids /\ n \notin taken /\ ~failed => map[id].real = room[n]
                          /\ map[id].isSelf <=> room[n] = Me
                      /\ n \notin DOMAIN room /\ id \in DOMAIN map => ~map[id].available
    BY Zenon DEF OccupantsAreListed
  <2>1. CASE n \in DOMAIN room
    <3>1. /\ Occupant(n) \in DOMAIN map /\ map[Occupant(n)].available
          /\ map[Occupant(n)].affiliation = member[room[n]]
          /\ map[Occupant(n)].isSelf <=> room[n] = Me
      BY Zenon, <1>1, <2>1 DEF Inv, Present, Self
    <3>2. ASSUME jids, n \notin taken, ~failed PROVE map[Occupant(n)].real = room[n]
      BY Zenon, <1>1, <2>1, <3>2 DEF Inv, OneUser, Awaited
    <3> QED
      BY Zenon, <2>1, <3>1, <3>2
  <2>2. CASE n \notin DOMAIN room
    BY Zenon, <1>1, <2>2 DEF Inv, Absent
  <2> QED
    BY Zenon, <2>1, <2>2
<1>2. Inv => ListAgrees
  BY Zenon, <1>1 DEF Inv, ListAgrees
<1> QED
  BY <1>2, ParticipantsInvariant, PTL
=============================================================================
