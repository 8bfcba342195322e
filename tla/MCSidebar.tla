----------------------------- MODULE MCSidebar ------------------------------
(* One room that is joined, pinged and removed while the connection comes    *)
(* and goes, and the sidebar that shows it, each part on a small instance    *)
(* of its own: the behaviours of this module are those of the parts, one     *)
(* after the other. The life of the room is the part this module extends;    *)
(* nothing happens to the room in the behaviours of the other one.           *)
EXTENDS MCRoomLifecycle

VARIABLES
    part,   \* the part a behaviour is about
    s1, s2, s3, s4, s5, s6, s7, s8, s9, s10, s11, s12, s13   \* the variables of the other parts

others == <<s1, s2, s3, s4, s5, s6, s7, s8, s9, s10, s11, s12, s13>>

all == <<part, vars, others>>

\* One room, up to three tasks, one operation and one change made elsewhere.
SB == INSTANCE Sidebar WITH
    Room <- "r", Alternate <- "a", MaxTasks <- 3, MaxOps <- 1, MaxEvents <- 1,
    objs <- s1, repo <- s2, tasks <- s3, net <- s4, inbox <- s5, marks <- s6,
    muc <- s7, shown <- s8, silent <- s9, unsaved <- s10, astray <- s11,
    ops <- s12, events <- s13

-----------------------------------------------------------------------------
\* A part with n variables leaves the other ones alone.
Unused(n) ==
    /\ IF n < 1 THEN s1 = "off" ELSE TRUE
    /\ IF n < 2 THEN s2 = "off" ELSE TRUE
    /\ IF n < 3 THEN s3 = "off" ELSE TRUE
    /\ IF n < 4 THEN s4 = "off" ELSE TRUE
    /\ IF n < 5 THEN s5 = "off" ELSE TRUE
    /\ IF n < 6 THEN s6 = "off" ELSE TRUE
    /\ IF n < 7 THEN s7 = "off" ELSE TRUE
    /\ IF n < 8 THEN s8 = "off" ELSE TRUE
    /\ IF n < 9 THEN s9 = "off" ELSE TRUE
    /\ IF n < 10 THEN s10 = "off" ELSE TRUE
    /\ IF n < 11 THEN s11 = "off" ELSE TRUE
    /\ IF n < 12 THEN s12 = "off" ELSE TRUE
    /\ IF n < 13 THEN s13 = "off" ELSE TRUE

Resting(n) ==
    /\ UNCHANGED vars

\* Either the type of the room never changes, or the user joins no room.
Never(T) == \A t \in T : pc'[t] = "idle"

MCInit ==
    /\ Init
    /\ \/ part = "room" /\ Unused(0)
       \/ part = "reload" /\ Unused(0)
       \/ part = "sidebar" /\ SB!Init /\ Unused(13)

MCNext ==
    /\ UNCHANGED part
    /\ \/ part = "room" /\ Next /\ Never(Reloads) /\ UNCHANGED others
       \/ part = "reload" /\ Next /\ Never(UserJoins) /\ UNCHANGED others
       \/ part = "sidebar" /\ SB!Next /\ Resting(13)

MCSpec == MCInit /\ [][MCNext]_all

-----------------------------------------------------------------------------
\* Every part keeps its types.
TypesOK ==
    /\ TypeOK
    /\ part = "sidebar" => SB!TypeOK

\* The application was told of the sidebar as it is, once nothing is under
\* way: every operation and every handler ends with SidebarChanged when
\* something visible changed, except those that `silent` records: a refused
\* rename, a purge that cannot leave a room, a join of the user that fails or
\* is redirected.
ChangesAreAnnounced == part = "sidebar" => SB!ChangesAreAnnounced

\* Once nothing is under way the sidebar is what the bookmarks say, whatever
\* the order in which the user's changes, those of other clients and the
\* echoes of the user's own bookmarks were handled; and a group with a
\* bookmark is connected also when it is hidden, so that its messages arrive
\* and bring it back.
SidebarFollowsBookmarks == part = "sidebar" =>
    /\ SB!SidebarFollowsBookmarks
    /\ SB!GroupsStayConnected
=============================================================================
