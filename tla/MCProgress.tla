----------------------------- MODULE MCProgress -----------------------------
(* The transactions of the store and the other parts in which something      *)
(* must eventually happen, each on a small instance of its own: the          *)
(* behaviours of this module are those of the parts, one after the other.    *)
(* The store is the part this module extends; it does nothing in the         *)
(* behaviours of the other ones. The modules of the parts say what they      *)
(* model.                                                                    *)
EXTENDS Store

VARIABLES
    part,   \* the part a behaviour is about
    s1, s2, s3, s4, s5, s6, s7, s8, s9, s10, s11, s12, s13   \* the variables of the other parts

others == <<s1, s2, s3, s4, s5, s6, s7, s8, s9, s10, s11, s12, s13>>

all == <<part, vars, others>>

\* Two calls that create rooms, one request that fails, two users that meddle.
RC == INSTANCE RoomCreation WITH
    Tasks <- {1, 2}, Me <- "me", Others <- {"u1", "u2"},
    GroupIds <- <<"g", "g0", "g1">>, ChannelIds <- <<"c1", "c2">>,
    Elsewhere <- "c0", MaxAttempts <- 2, MaxFailures <- 1, MaxOthers <- 2,
    rooms <- s1, repo <- s2, notices <- s3, tasks <- s4, left <- s5,
    unsent <- s6, failures <- s7, others <- s8

\* Three events of two rooms in a channel for two.
ED == INSTANCE EventDispatch WITH
    Rooms <- <<"r1", "r2">>, Ids <- {"i1", "i2"}, Capacity <- 2,
    MaxEvents <- 3,
    channel <- s1, buf <- s2, slot <- s3, client <- s4, owed <- s5,
    told <- s6, batch <- s7, events <- s8

\* Two devices of an account, one of which may be new; the other one announces
\* itself at the same time if the user has deleted it.
DL == INSTANCE DeviceLists WITH
    Devices <- {"d1", "d2"}, Initial <- {{"d1"}, {"d1", "d2"}}, MaxOps <- 2,
    list <- s1, bundles <- s2, stream <- s3, task <- s4, cache <- s5,
    local <- s6, sessions <- s7, attempts <- s8, ops <- s9, disabled <- s10,
    checks <- s11, gaveUp <- s12, stale <- s13

-----------------------------------------------------------------------------
\* A part with n variables leaves the other ones alone.
Unused(n) ==
    /\ IF n < 1 THEN s1 = "off" ELSE TRUE
    /\ IF n < 2 THEN s2 = "off" ELSE TRUE
    /\ IF n < 3 THEN s3 = "off" ELSE TRUE
    /\ IF n < 4 THEN s4 = "off" ELSE TRUE
    /\ IF n < 5 THEN s5 = "off" ELSE TRUE
    /\ IF n < 6 THEN s6 = "off" ELSE TRUE
    /\ IF n < 7 THEN s7 = "off" ELSE TRUE
    /\ IF n < 8 THEN s8 = "off" ELSE TRUE
    /\ IF n < 9 THEN s9 = "off" ELSE TRUE
    /\ IF n < 10 THEN s10 = "off" ELSE TRUE
    /\ IF n < 11 THEN s11 = "off" /\ s12 = "off" /\ s13 = "off" ELSE TRUE

Resting(n) ==
    /\ UNCHANGED vars
    /\ IF n < 9 THEN UNCHANGED s9 ELSE TRUE
    /\ IF n < 10 THEN UNCHANGED s10 ELSE TRUE
    /\ IF n < 11 THEN UNCHANGED <<s11, s12, s13>> ELSE TRUE

\* The store of the behaviours in which nothing happens to it.
Pinned ==
    driver = "sqlite"

MCInit ==
    /\ Init
    /\ \/ part = "store" /\ Unused(0)
       \/ part = "creation" /\ Pinned /\ RC!Init /\ Unused(8)
       \/ part = "dispatch" /\ Pinned /\ ED!Init /\ Unused(8)
       \/ part = "devices" /\ Pinned /\ DL!Init /\ Unused(13)

MCNext ==
    /\ UNCHANGED part
    /\ \/ part = "store" /\ Next /\ UNCHANGED others
       \/ part = "creation" /\ RC!Next /\ Resting(8)
       \/ part = "dispatch" /\ ED!Next /\ Resting(8)
       \/ part = "devices" /\ DL!Next /\ Resting(13)

MCSpec == MCInit /\ [][MCNext]_all

Keep(n) == UNCHANGED part /\ Resting(n)

\* The fairness of the parts: see their modules.
RoomFairness ==
    /\ \A t \in 1 .. 2 : WF_all(part = "creation" /\ RC!Step(t) /\ Keep(8))
    /\ WF_all(part = "dispatch" /\ ED!Collect /\ Keep(8))
    /\ WF_all(part = "dispatch" /\ ED!Tick /\ Keep(8))
    /\ WF_all(part = "dispatch" /\ ED!Deliver /\ Keep(8))

KeyFairness ==
    /\ \A d \in {"d1", "d2"} : /\ WF_all(part = "devices" /\ DL!Step(d) /\ Keep(13))
                               /\ WF_all(part = "devices" /\ DL!Receive(d) /\ Keep(13))
                               /\ WF_all(part = "devices" /\ DL!Check(d) /\ Keep(13))

StoreFairness ==
    /\ \A t \in Tasks : WF_all(part = "store" /\ Proceed(t) /\ UNCHANGED <<part, others>>)

MCFairSpec == MCSpec /\ RoomFairness /\ KeyFairness /\ StoreFairness

-----------------------------------------------------------------------------
\* Every part keeps its types.
TypesOK ==
    /\ TypeOK
    /\ part = "creation" => RC!TypeOK
    /\ part = "dispatch" => ED!TypeOK
    /\ part = "devices" => DL!TypeOK

\* However the creations of several people and their failures interleave,
\* there is never more than one room of the same people, since everybody
\* tries the ids in the same order; once nothing is under way no room is left
\* connecting, except one whose invitations could not be sent; a room that we
\* created was returned to somebody or destroyed, unless the request to do so
\* failed; and a conversion leaves the user with the group or the channel.
CreationsEndWell == part = "creation" =>
    /\ RC!OneLiveGroup
    /\ RC!NothingLeftConnecting
    /\ RC!NoOrphans
    /\ RC!ConversionKeepsARoom

\* Coalescing is invisible: what the channel has accepted is reported or
\* still on its way, for every message and user that an event named (dedup_by
\* with extend); a batch has one event per kind and room, however the rooms
\* are mixed (sort_by before dedup_by); and a message that was appended and
\* then deleted is not reported deleted first (order_key_for_room_event).
ToldInOrder == part = "dispatch" =>
    /\ ED!NothingForgotten
    /\ ED!ToldOnce
    /\ ED!AppendedBeforeDeleted

\* Whatever was begun comes to an end: an operation of the store, with the lock
\* and the pool that others hold; a creation, whose nicknames and suffixes run
\* out; and the way of an event that the channel has accepted, which no later
\* event has to push through (throttled and its timer), unless the client is
\* dropped.
EverythingEnds ==
    /\ \A t \in Tasks : []<>~(part = "store" /\ Working(t))
    /\ \A t \in 1 .. 2 : []<>~(part = "creation" /\ RC!Underway(t))
    /\ []<>(part = "dispatch" => ED!NothingOwed)

\* However the devices overwrite each other's lists, remove devices whose
\* bundle they cannot find or process or delete one that is still running, and
\* whichever requests fail: in the end every device that is connected is listed,
\* unless its last attempt to announce itself failed; what it has stored is the
\* list that is published, unless it has stored another one since the last push
\* (a shorter list it could not publish, or a late answer); and this stays so.
DevicesSettle == <>[](part = "devices" => DL!Listed /\ DL!CacheIsCurrent)
=============================================================================
