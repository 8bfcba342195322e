----------------------------- MODULE MCContacts -----------------------------
(* What the client knows of the participants of a room, of contacts, users   *)
(* and the own account, each part on a small instance of its own: the        *)
(* behaviours of this module are those of the parts, one after the other.    *)
(* The participants of a room, three users with two nicknames, are the part  *)
(* this module extends; they do nothing in the behaviours of the other       *)
(* ones. The modules of the parts say what they model.                       *)
EXTENDS Participants, VCards

VARIABLES
    part,   \* the part a behaviour is about
    s1, s2, s3, s4, s5, s6, s7, s8, s9, s10, s11, s12, s13, s14, s15, s16,
    s17, s18, s19, s20   \* the variables of the other parts

others == <<s1, s2, s3, s4, s5, s6, s7, s8, s9, s10, s11, s12, s13, s14, s15,
            s16, s17, s18, s19, s20>>

all == <<part, vars, others>>

\* The nicknames are alike, and so are the other users.
Symmetric == Permutations(Nicks) \cup Permutations(Users \ {Me})

\* One contact, two calls, one change made elsewhere, one reconnect.
CL == INSTANCE ContactLists WITH
    Users <- {"u1"}, Threads <- FALSE, MaxCalls <- 2, MaxChanges <- 1,
    MaxReconnects <- 1, MaxTasks <- 3,
    list <- s1, roster <- s2, up <- s3, down <- s4, cache <- s5,
    requests <- s6, tasks <- s7, ready <- s8, view <- s9, bare <- s10,
    interested <- s11, calls <- s12, changes <- s13, reconnects <- s14

\* A contact with two resources and two versions of avatar and profile.
UI == INSTANCE UserInfo WITH
    Resources <- {"phone", "laptop"}, Versions <- {1, 2},
    Tasks <- {"t1", "t2"}, Threads <- FALSE, MaxChanges <- 3,
    MaxConnections <- 2,
    focus <- s1, server <- s2, stream <- s3, connections <- s4, changes <- s5,
    entries <- s6, info <- s7, seen <- s8, profiles <- s9, images <- s10,
    requested <- s11, tasks <- s12, writes <- s13, clearing <- s14

\* Two rooms, two devices, three calls and one lost connection.
AC == INSTANCE Account WITH
    Rooms <- {"r1", "r2"}, Devices <- {"phone", "laptop"},
    MaxCalls <- 3, MaxDrops <- 1,
    focus <- s1, calls <- s2, drops <- s3, failed <- s4, conn <- s5,
    login <- s6, settings <- s7, presence <- s8, rooms <- s9, writes <- s10,
    published <- s11, local <- s12, echoes <- s13, steps <- s14,
    synced <- s15, device <- s16, queue <- s17, loading <- s18, missed <- s19,
    overtaken <- s20

\* Profiles and cards of up to two words a field.
PR == INSTANCE Profiles WITH
    input <- s1, node <- s2, temp <- s3, push <- s4, touched <- s5,
    received <- s6

-----------------------------------------------------------------------------
\* A part with n variables leaves the other ones alone.
Unused(n) ==
    /\ IF n < 1 THEN s1 = "off" ELSE TRUE
    /\ IF n < 2 THEN s2 = "off" ELSE TRUE
    /\ IF n < 3 THEN s3 = "off" ELSE TRUE
    /\ IF n < 4 THEN s4 = "off" ELSE TRUE
    /\ IF n < 5 THEN s5 = "off" ELSE TRUE
    /\ IF n < 6 THEN s6 = "off" ELSE TRUE
    /\ IF n < 7 THEN s7 = "off" ELSE TRUE
    /\ IF n < 8 THEN s8 = "off" ELSE TRUE
    /\ IF n < 9 THEN s9 = "off" ELSE TRUE
    /\ IF n < 10 THEN s10 = "off" ELSE TRUE
    /\ IF n < 11 THEN s11 = "off" ELSE TRUE
    /\ IF n < 12 THEN s12 = "off" ELSE TRUE
    /\ IF n < 13 THEN s13 = "off" ELSE TRUE
    /\ IF n < 14 THEN s14 = "off" ELSE TRUE
    /\ IF n < 15 THEN s15 = "off" ELSE TRUE
    /\ IF n < 16 THEN s16 = "off" ELSE TRUE
    /\ IF n < 17 THEN s17 = "off" ELSE TRUE
    /\ IF n < 18 THEN s18 = "off" ELSE TRUE
    /\ IF n < 19 THEN s19 = "off" ELSE TRUE
    /\ IF n < 20 THEN s20 = "off" ELSE TRUE

Resting(n) ==
    /\ UNCHANGED vars
    /\ IF n < 7 THEN UNCHANGED s7 ELSE TRUE
    /\ IF n < 8 THEN UNCHANGED s8 ELSE TRUE
    /\ IF n < 9 THEN UNCHANGED s9 ELSE TRUE
    /\ IF n < 10 THEN UNCHANGED s10 ELSE TRUE
    /\ IF n < 11 THEN UNCHANGED s11 ELSE TRUE
    /\ IF n < 12 THEN UNCHANGED s12 ELSE TRUE
    /\ IF n < 13 THEN UNCHANGED s13 ELSE TRUE
    /\ IF n < 14 THEN UNCHANGED s14 ELSE TRUE
    /\ IF n < 15 THEN UNCHANGED s15 ELSE TRUE
    /\ IF n < 16 THEN UNCHANGED s16 ELSE TRUE
    /\ IF n < 17 THEN UNCHANGED s17 ELSE TRUE
    /\ IF n < 18 THEN UNCHANGED s18 ELSE TRUE
    /\ IF n < 19 THEN UNCHANGED s19 ELSE TRUE
    /\ IF n < 20 THEN UNCHANGED s20 ELSE TRUE

\* The room of the behaviours in which nothing happens to it.
Pinned ==
    /\ \E n \in Nicks : room = [m \in {n} |-> Me]
    /\ member = [u \in Users |-> IF u = Me THEN "member" ELSE None]
    /\ ~jids /\ ~sidebar

MCInit ==
    /\ Init
    /\ \/ part = "participants" /\ Unused(0)
       \/ part = "contacts" /\ Pinned /\ CL!Init /\ Unused(14)
       \/ part = "userinfo" /\ Pinned /\ UI!Init /\ Unused(14)
       \/ part = "account" /\ Pinned /\ AC!Init /\ Unused(20)
       \/ part = "profiles" /\ Pinned /\ PR!Init /\ Unused(6)

MCNext ==
    /\ UNCHANGED part
    /\ \/ part = "participants" /\ Next /\ UNCHANGED others
       \/ part = "contacts" /\ CL!Next /\ Resting(14)
       \/ part = "userinfo" /\ UI!Next /\ Resting(14)
       \/ part = "account" /\ AC!Next /\ Resting(20)
       \/ part = "profiles" /\ PR!Next /\ Resting(6)

MCSpec == MCInit /\ [][MCNext]_all

-----------------------------------------------------------------------------
\* Every part keeps its types.
TypesOK ==
    /\ TypeOK
    /\ part = "contacts" => CL!TypeOK
    /\ part = "userinfo" => UI!TypeOK
    /\ part = "account" => AC!TypeOK
    /\ part = "profiles" => PR!TypeOK

\* Once every call and push has been dealt with a cached list is the
\* server's: no push is lost to a list that was requested before it and
\* stored after it (load_contacts_if_needed, load_block_list_if_needed); and
\* the list the application has read is still the server's, or it was told to
\* read it again (the `if repo.set(..) { dispatch_event }` of the services).
ContactListsAgree == part = "contacts" =>
    /\ CL!CacheAgrees
    /\ CL!ReadersAreTold

\* What is shown of a contact is what the contact published, however
\* presences, notifications, loads and reconnections interleave: one entry
\* per resource in order of priority; the PEP avatar where there is one ("If
\* we have a PEP avatar already, we'll keep it" in
\* handle_user_presence_changed), with an image that is its own although
\* another may have been asked for meanwhile (load_avatar_image); and the
\* name of the profile in the store (handle_user_profile_changed writes first
\* one and then the other).
UserInfoAgrees == part = "userinfo" =>
    /\ UI!PresencesAreKnown
    /\ UI!PepAvatarIsShown
    /\ UI!PepImagesFit
    /\ UI!NameFollowsProfile

\* Once nothing is pending the account agrees with what was set: the server
\* and every room joined have the availability of the AccountSettings, save a
\* login or room that had read the settings when they changed
\* (set_availability, connect); the avatar and the profile shown are the
\* published ones, in whichever order notifications and answers came and also
\* when a call failed, unless it was for a vCard-temp or beside another one
\* (set_avatar, set_profile); and every device has the room settings of the
\* server, unless its save or load failed or it was joining when the last
\* notification came (update_synced_settings,
\* handle_synced_room_settings_event).
OwnDataAgrees == part = "account" =>
    /\ AC!AvailabilityAgrees
    /\ AC!OwnDataIsPublished
    /\ AC!SettingsConverge

\* The profile another user sees is the one that was entered, with its texts
\* trimmed, whichever of the two formats it is read from and whether or not a
\* program added elements to it; a card written by this library is read as it
\* was written, except for the four fields whose `From` and `TryFrom` do not
\* fit; no text of a profile is blank; and a malformed card is an error,
\* never a profile with fields missing.
ProfilesArrive == part = "profiles" =>
    /\ PR!ProfileArrives
    /\ PR!CardArrives
    /\ PR!NoBlankTexts
    /\ PR!BrokenIsRefused
=============================================================================
