------------------------------- MODULE Account -------------------------------
(***************************************************************************)
(* The user's own data on several sides at once:                           *)
(*  - availability: what AccountService::set_availability and the login    *)
(*    send to the server and to the rooms, and what AccountSettings keep;  *)
(*  - publications: the avatar and the profile that set_avatar and         *)
(*    set_profile publish, store and show, while the server sends each     *)
(*    publication back to the device;                                      *)
(*  - synced settings: the settings of one room that every device of the   *)
(*    user changes locally, publishes whole and receives from the server.  *)
(* A behaviour is about one of the three, its focus.                       *)
(***************************************************************************)
EXTENDS Naturals, Sequences, SequencesExt, FiniteSets

CONSTANTS
  Rooms,        \* rooms the user joins
  Devices,      \* the user's devices
  MaxCalls,     \* bound on the calls of the user interface
  MaxDrops      \* bound on lost connections

VARIABLES
  focus, calls, drops,
  failed,       \* the kinds of data a failed call may have left unlike the server's
  conn, login, settings, presence, rooms, writes,   \* availability
  overtaken,    \* the login or rooms that read the settings before they changed
  published, local, echoes, steps,                  \* publications
  synced, device, queue, loading, missed            \* synced settings

common == <<focus, calls, drops, failed>>
availabilityVars == <<conn, login, settings, presence, rooms, writes, overtaken>>
publicationVars == <<published, local, echoes, steps>>
settingsVars == <<synced, device, queue, loading, missed>>
vars == <<common, availabilityVars, publicationVars, settingsVars>>

Call(kind) ==
  /\ focus = kind /\ calls < MaxCalls
  /\ calls' = calls + 1
  /\ UNCHANGED <<focus, drops>>

-----------------------------------------------------------------------------
(* Availability *)

Availabilities == {"Available", "Away", "DoNotDisturb"}
Gone == "Unavailable"
NotInRoom == [state |-> "out", availability |-> Gone]

\* AccountSettingsRepository::get; the store serves its requests in order.
ReadSettings == IF writes = <<>> THEN settings ELSE Last(writes)

\* ConnectionService::connect reads the settings before it logs in,
Connect ==
  /\ focus = "availability" /\ conn = "off"
  /\ conn' = "connecting" /\ login' = ReadSettings /\ overtaken' = {}
  /\ UNCHANGED <<common, settings, presence, rooms, writes, publicationVars, settingsVars>>

\* sends the initial presence
InitialPresence ==
  /\ conn = "connecting"
  /\ conn' = "present" /\ presence' = login
  /\ UNCHANGED <<common, login, settings, rooms, writes, overtaken, publicationVars, settingsVars>>

\* and writes what it read at the start back to the settings.
SaveLogin ==
  /\ conn = "present"
  /\ conn' = "on" /\ writes' = Append(writes, login)
  /\ UNCHANGED <<common, login, settings, presence, rooms, overtaken, publicationVars, settingsVars>>

Drop ==
  /\ focus = "availability" /\ conn # "off" /\ drops < MaxDrops
  /\ drops' = drops + 1
  /\ conn' = "off" /\ presence' = Gone
  /\ rooms' = [r \in Rooms |-> NotInRoom]
  /\ UNCHANGED <<focus, calls, failed, login, settings, writes, overtaken, publicationVars,
                 settingsVars>>

\* join_room and create_room read the settings of a room that is pending,
Join(r) ==
  /\ conn = "on" /\ rooms[r].state = "out"
  /\ rooms' = [rooms EXCEPT ![r] = [state |-> "pending", availability |-> ReadSettings]]
  /\ UNCHANGED <<common, conn, login, settings, presence, writes, overtaken, publicationVars,
                 settingsVars>>

\* and enter it with that availability after further requests.
Enter(r) ==
  /\ rooms[r].state = "pending"
  /\ rooms' = [rooms EXCEPT ![r].state = "in"]
  /\ UNCHANGED <<common, conn, login, settings, presence, writes, overtaken, publicationVars,
                 settingsVars>>

InState(state) == {r \in Rooms : rooms[r].state = state}

\* Every room of the repository gets the presence; a pending one is entered with
\* the availability that was read for it all the same.
ToRooms(a) ==
  [r \in Rooms |-> IF r \in InState("in") THEN [rooms[r] EXCEPT !.availability = a] ELSE rooms[r]]

SetAvailability(a) ==
  /\ Call("availability")
  /\ conn # "off"
  /\ presence' = a /\ rooms' = ToRooms(a)
  /\ writes' = Append(writes, a)
  /\ overtaken' = InState("pending") \cup IF conn = "present" THEN {"login"} ELSE {}
  /\ UNCHANGED <<failed, conn, login, settings, publicationVars, settingsVars>>

\* AccountSettingsRepository::update commits one change after the other.
UpdateSettings ==
  /\ writes # <<>>
  /\ settings' = Head(writes) /\ writes' = Tail(writes)
  /\ UNCHANGED <<common, conn, login, presence, rooms, overtaken, publicationVars, settingsVars>>

AvailabilityNext ==
  \/ Connect \/ InitialPresence \/ SaveLogin \/ Drop
  \/ \E r \in Rooms : Join(r) \/ Enter(r)
  \/ \E a \in Availabilities : SetAvailability(a)
  \/ UpdateSettings

-----------------------------------------------------------------------------
(* Publications of the avatar and the profile *)

Kinds == {"avatar", "vcard4", "vcard-temp"}

\* One running call: what it publishes, where it is and whether others for the same
\* data ran beside it.  The avatar is published with its metadata, after the image;
\* a profile before the nickname.
Step(kind, value, beside) == [kind |-> kind, value |-> value, pc |-> "first", beside |-> beside]
PublishesAt(kind) == IF kind = "avatar" THEN "second" ELSE "first"

Publish(kind) ==
  /\ Call("publication")
  /\ LET beside == {i \in DOMAIN steps : steps[i].kind = kind}
     IN  steps' = Append([i \in DOMAIN steps |->
                            IF i \in beside THEN [steps[i] EXCEPT !.beside = TRUE] ELSE steps[i]],
                         Step(kind, calls + 1, beside # {}))
  /\ UNCHANGED <<failed, availabilityVars, published, local, echoes, settingsVars>>

\* The server accepts one request; PEP notifies the publishing device as well.
Accepted(i, next) ==
  LET s == steps[i] IN
  /\ steps' = [steps EXCEPT ![i].pc = next]
  /\ IF s.pc = PublishesAt(s.kind)
     THEN /\ published' = [published EXCEPT ![s.kind] = s.value]
          /\ echoes' = IF s.kind = "vcard-temp" THEN echoes ELSE Append(echoes, s)
     ELSE UNCHANGED <<published, echoes>>

\* Requests are answered in the order they were sent, and stores in the order
\* they were asked.
IsNext(i) == \A j \in 1..(i - 1) : steps[j].pc # steps[i].pc

FirstAccepted(i) ==
  /\ steps[i].pc = "first" /\ IsNext(i)
  /\ Accepted(i, "second")
  /\ UNCHANGED <<common, availabilityVars, local, settingsVars>>

SecondAccepted(i) ==
  /\ steps[i].pc = "second" /\ IsNext(i)
  /\ Accepted(i, "store")
  /\ UNCHANGED <<common, availabilityVars, local, settingsVars>>

\* Every await of set_avatar and set_profile may fail; the call then ends. What it
\* published is shown when it is notified, if it is, and until a call before it
\* stores its own.
StepFails(i) ==
  /\ failed' = IF steps[i].kind = "vcard-temp" \/ steps[i].beside
               THEN failed \cup {steps[i].kind} ELSE failed
  /\ steps' = RemoveAt(steps, i)
  /\ UNCHANGED <<focus, calls, drops, availabilityVars, published, local, echoes, settingsVars>>

\* The store has answered; handle_avatar_changed or the second half of
\* handle_user_profile_changed follows at once.
Stored(i) ==
  /\ steps[i].pc = "store" /\ IsNext(i)
  /\ local' = [local EXCEPT ![steps[i].kind] = steps[i].value]
  /\ steps' = RemoveAt(steps, i)
  /\ UNCHANGED <<common, availabilityVars, published, echoes, settingsVars>>

ReceiveEcho ==
  /\ echoes # <<>>
  /\ local' = [local EXCEPT ![Head(echoes).kind] = Head(echoes).value]
  /\ echoes' = Tail(echoes)
  /\ UNCHANGED <<common, availabilityVars, published, steps, settingsVars>>

PublicationNext ==
  \/ \E kind \in Kinds : Publish(kind)
  \/ \E i \in 1..Len(steps) :
       FirstAccepted(i) \/ SecondAccepted(i) \/ StepFails(i) \/ Stored(i)
  \/ ReceiveEcho

-----------------------------------------------------------------------------
(* The synced settings of one room *)

SyncedRoomSettings == [encryption_enabled : BOOLEAN, last_read_message : 0..MaxCalls]
DefaultSettings == [encryption_enabled |-> FALSE, last_read_message |-> 0]

NotInRepo == [state |-> "out", settings |-> DefaultSettings]

\* update_synced_settings: the room changes at once, the whole record is saved
\* if it differs.
UpdateSyncedSettings(d, new) ==
  /\ Call("settings")
  /\ device[d].state = "in" /\ new # device[d].settings
  /\ device' = [device EXCEPT ![d].settings = new]
  /\ queue' = [queue EXCEPT ![d].out = Append(@, new)]
  /\ UNCHANGED <<failed, availabilityVars, publicationVars, synced, loading, missed>>

SetEncryptionEnabled(d) ==
  UpdateSyncedSettings(d, [device[d].settings EXCEPT !.encryption_enabled = ~@])

SetLastReadMessage(d) ==
  UpdateSyncedSettings(d, [device[d].settings EXCEPT !.last_read_message = calls + 1])

SaveSettings(d) ==
  /\ queue[d].out # <<>>
  /\ LET item == Head(queue[d].out)
     IN /\ synced' = {item}
        /\ queue' = [e \in Devices |->
                      [out |-> IF e = d THEN Tail(queue[e].out) ELSE queue[e].out,
                       in |-> Append(queue[e].in, item)]]
  /\ UNCHANGED <<common, availabilityVars, publicationVars, device, loading, missed>>

\* The failure is logged only.
SaveFails(d) ==
  /\ queue[d].out # <<>>
  /\ queue' = [queue EXCEPT ![d].out = Tail(@)]
  /\ missed' = missed \cup {d}
  /\ UNCHANGED <<common, availabilityVars, publicationVars, synced, device, loading>>

AppliedIfDefault(d, item) ==
  IF device[d].state # "out" /\ device[d].settings = DefaultSettings
  THEN [device EXCEPT ![d].settings = item] ELSE device

Applied(d, item) ==
  IF device[d].state # "out" THEN [device EXCEPT ![d].settings = item] ELSE device

\* SyncedRoomSettingsEventHandler. What a pending room gets is overwritten by
\* settings that were loaded before.
HandleSyncedRoomSettingsEvent(d) ==
  /\ queue[d].in # <<>>
  /\ device' = Applied(d, Head(queue[d].in))
  /\ missed' = IF loading[d].settings # {} THEN missed \cup {d} ELSE missed \ {d}
  /\ queue' = [queue EXCEPT ![d].in = Tail(@)]
  /\ UNCHANGED <<common, availabilityVars, publicationVars, synced, loading>>

NotLoading == [done |-> FALSE, settings |-> {}]

JoinRoom(d) ==
  /\ focus = "settings" /\ device[d].state = "out"
  /\ device' = [device EXCEPT ![d].state = "pending"]
  /\ UNCHANGED <<common, availabilityVars, publicationVars, synced, queue, loading, missed>>

\* The server answers with the settings, if some were published; notifications on
\* the way are ahead of the answer.
LoadSettings(d) ==
  /\ device[d].state = "pending" /\ ~loading[d].done
  /\ queue[d].in = <<>>
  /\ loading' = [loading EXCEPT ![d] = [done |-> TRUE, settings |-> synced]]
  /\ UNCHANGED <<common, availabilityVars, publicationVars, synced, device, queue, missed>>

\* A failure is taken for settings that were never published.
LoadFails(d) ==
  /\ device[d].state = "pending" /\ ~loading[d].done
  /\ loading' = [loading EXCEPT ![d].done = TRUE]
  /\ missed' = missed \cup {d}
  /\ UNCHANGED <<common, availabilityVars, publicationVars, synced, device, queue>>

\* A room without published settings keeps those of the pending room.
FinalizePendingRoom(d) ==
  /\ loading[d].done
  /\ device' = [device EXCEPT ![d] =
        [state |-> "in",
         settings |-> IF loading[d].settings = {} THEN @.settings
                      ELSE CHOOSE s \in loading[d].settings : TRUE]]
  /\ loading' = [loading EXCEPT ![d] = NotLoading]
  /\ UNCHANGED <<common, availabilityVars, publicationVars, synced, queue, missed>>

SettingsNext ==
  \E d \in Devices :
    \/ SetEncryptionEnabled(d) \/ SetLastReadMessage(d)
    \/ SaveSettings(d) \/ SaveFails(d)
    \/ HandleSyncedRoomSettingsEvent(d)
    \/ JoinRoom(d) \/ LoadSettings(d) \/ LoadFails(d) \/ FinalizePendingRoom(d)

-----------------------------------------------------------------------------
Init ==
  /\ focus \in {"availability", "publication", "settings"}
  /\ calls = 0 /\ drops = 0 /\ failed = {}
  /\ conn = "off" /\ login = Gone /\ settings = "Available" /\ presence = Gone
  /\ rooms = [r \in Rooms |-> NotInRoom] /\ writes = <<>> /\ overtaken = {}
  /\ published = [k \in Kinds |-> 0] /\ local = [k \in Kinds |-> 0]
  /\ echoes = <<>> /\ steps = <<>>
  /\ synced = {}
  /\ device = [d \in Devices |-> NotInRepo]
  /\ queue = [d \in Devices |-> [out |-> <<>>, in |-> <<>>]]
  /\ loading = [d \in Devices |-> NotLoading] /\ missed = {}

Next == AvailabilityNext \/ PublicationNext \/ SettingsNext

Spec == Init /\ [][Next]_vars

-----------------------------------------------------------------------------
(***************************************************************************)
(* The settings hold an availability a presence can be sent with           *)
(* (TryFrom<Availability> for Show), and a room is joined with one.        *)
(***************************************************************************)
TypeOK ==
  /\ focus \in {"availability", "publication", "settings"}
  /\ conn \in {"off", "connecting", "present", "on"}
  /\ settings \in Availabilities /\ presence \in Availabilities \cup {Gone}
  /\ \A r \in Rooms : rooms[r].state # "out" => rooms[r].availability \in Availabilities
  /\ published \in [Kinds -> 0..MaxCalls] /\ local \in [Kinds -> 0..MaxCalls]
  /\ overtaken \subseteq Rooms \cup {"login"}
  /\ synced \subseteq SyncedRoomSettings /\ Cardinality(synced) <= 1
  /\ \A d \in Devices : device[d].settings \in SyncedRoomSettings

(***************************************************************************)
(* When nothing is pending, the account and every room that was joined     *)
(* show the availability of the AccountSettings: it is what the interface  *)
(* shows (account_info) and what the next login sends                      *)
(* (AccountService::set_availability, ConnectionService::connect). The     *)
(* exceptions are the login and the rooms that had read the settings when  *)
(* set_availability changed them: the login, if it has sent its presence,  *)
(* writes back the old value, and the room is entered with it, until the   *)
(* next change or login.                                                   *)
(***************************************************************************)
AvailabilityAgrees ==
  conn = "on" /\ writes = <<>> =>
    /\ presence = settings \/ "login" \in overtaken
    /\ \A r \in InState("in") \ overtaken : rooms[r].availability = settings

(***************************************************************************)
(* Once every call has ended and every notification is handled, the avatar *)
(* and the profile the device shows are the published ones, whatever the   *)
(* order in which notifications and answers arrived, also when a step of a *)
(* call failed, unless a call for the same data was running beside it or   *)
(* it was for a vCard-temp, of which there are no notifications            *)
(* (set_avatar, set_profile).                                              *)
(***************************************************************************)
OwnDataIsPublished ==
  steps = <<>> /\ echoes = <<>> =>
    \A k \in Kinds \ failed : local[k] = published[k]

(***************************************************************************)
(* Once every save and notification has arrived, every device has the      *)
(* room settings of the server, unless since the last notification it has  *)
(* handled its own save or its load failed, or it handled that one while   *)
(* it was joining with settings loaded before (update_synced_settings,     *)
(* handle_synced_room_settings_event, finalize_pending_room).              *)
(***************************************************************************)
SettingsConverge ==
  (\A d \in Devices : queue[d] = [out |-> <<>>, in |-> <<>>] /\ ~loading[d].done) =>
    \A d \in Devices \ missed :
      device[d].state = "in" =>
        device[d].settings \in IF synced = {} THEN {DefaultSettings} ELSE synced

=============================================================================
