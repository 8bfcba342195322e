------------------------------ MODULE MCRooms -------------------------------
(* The keys and sessions of two accounts, the messages of a room, and those  *)
(* that arrive while the client connects in a process with threads, each     *)
(* part on a small instance of its own: the behaviours of this module are    *)
(* those of the parts, one after the other. The keys are the part this       *)
(* module extends; they do not change in the behaviours of the other ones.   *)
(* The modules of the parts say what they model.                             *)
EXTENDS KeyStore, TLC

VARIABLES
    part,   \* the part a behaviour is about
    s1, s2, s3, s4, s5, s6, s7, s8, s9, s10, s11, s12, s13, s14, s15, s16,
    s17, s18, s19, s20, s21, s22, s23, s24   \* the variables of the other parts

others == <<s1, s2, s3, s4, s5, s6, s7, s8, s9, s10, s11, s12, s13, s14, s15,
            s16, s17, s18, s19, s20, s21, s22, s23, s24>>

all == <<part, vars, others>>

\* The accounts are alike, and so are the devices of their peers.
Symmetric == Permutations(Accounts) \cup Permutations(Peers)

\* Two messages, two tasks, two connections.
MG == INSTANCE Messages WITH
    PageSize <- 1, MaxCatchupSpan <- 6, MaxMessages <- 2, MaxTasks <- 2,
    MaxConnections <- 2, MaxOps <- 1,
    muc <- s1, focus <- s2, log <- s3, now <- s4, conn <- s5, since0 <- s6,
    offline <- s7, inbox <- s8, offq <- s9, room <- s10, repo <- s11,
    nextId <- s12, lastCatchup <- s13, lastRead <- s14, stats <- s15,
    sidebar <- s16, query <- s17, ui <- s18, tasks <- s19, lost <- s20,
    missed <- s21, failed <- s22, quiet <- s23, ops <- s24

\* Two messages and three attempts to connect, each made whenever the caller
\* likes, with threads.
CN == INSTANCE ConnectionSetup WITH
    Messages <- {"m1", "m2"}, Threads <- TRUE, Patient <- FALSE,
    MaxAttempts <- 3,
    state <- s1, props <- s2, connect <- s3, attempts <- s4, stream <- s5,
    closing <- s6, lost <- s7, ready <- s8, msg <- s9

-----------------------------------------------------------------------------
\* A part with n variables leaves the other ones alone.
Unused(n) ==
    /\ IF n < 1 THEN s1 = "off" ELSE TRUE
    /\ IF n < 2 THEN s2 = "off" ELSE TRUE
    /\ IF n < 3 THEN s3 = "off" ELSE TRUE
    /\ IF n < 4 THEN s4 = "off" ELSE TRUE
    /\ IF n < 5 THEN s5 = "off" ELSE TRUE
    /\ IF n < 6 THEN s6 = "off" ELSE TRUE
    /\ IF n < 7 THEN s7 = "off" ELSE TRUE
    /\ IF n < 8 THEN s8 = "off" ELSE TRUE
    /\ IF n < 9 THEN s9 = "off" ELSE TRUE
    /\ IF n < 10 THEN s10 = "off" ELSE TRUE
    /\ IF n < 11 THEN s11 = "off" ELSE TRUE
    /\ IF n < 12 THEN s12 = "off" ELSE TRUE
    /\ IF n < 13 THEN s13 = "off" ELSE TRUE
    /\ IF n < 14 THEN s14 = "off" ELSE TRUE
    /\ IF n < 15 THEN s15 = "off" ELSE TRUE
    /\ IF n < 16 THEN s16 = "off" ELSE TRUE
    /\ IF n < 17 THEN s17 = "off" ELSE TRUE
    /\ IF n < 18 THEN s18 = "off" ELSE TRUE
    /\ IF n < 19 THEN s19 = "off" ELSE TRUE
    /\ IF n < 20 THEN s20 = "off" ELSE TRUE
    /\ IF n < 21 THEN s21 = "off" ELSE TRUE
    /\ IF n < 22 THEN s22 = "off" ELSE TRUE
    /\ IF n < 23 THEN s23 = "off" ELSE TRUE
    /\ IF n < 24 THEN s24 = "off" ELSE TRUE

Resting(n) ==
    /\ UNCHANGED vars
    /\ IF n < 10 THEN UNCHANGED s10 ELSE TRUE
    /\ IF n < 11 THEN UNCHANGED s11 ELSE TRUE
    /\ IF n < 12 THEN UNCHANGED s12 ELSE TRUE
    /\ IF n < 13 THEN UNCHANGED s13 ELSE TRUE
    /\ IF n < 14 THEN UNCHANGED s14 ELSE TRUE
    /\ IF n < 15 THEN UNCHANGED s15 ELSE TRUE
    /\ IF n < 16 THEN UNCHANGED s16 ELSE TRUE
    /\ IF n < 17 THEN UNCHANGED s17 ELSE TRUE
    /\ IF n < 18 THEN UNCHANGED s18 ELSE TRUE
    /\ IF n < 19 THEN UNCHANGED s19 ELSE TRUE
    /\ IF n < 20 THEN UNCHANGED s20 ELSE TRUE
    /\ IF n < 21 THEN UNCHANGED s21 ELSE TRUE
    /\ IF n < 22 THEN UNCHANGED s22 ELSE TRUE
    /\ IF n < 23 THEN UNCHANGED s23 ELSE TRUE
    /\ IF n < 24 THEN UNCHANGED s24 ELSE TRUE

MCInit ==
    /\ Init
    /\ \/ part = "keys" /\ Unused(0)
       \/ part = "messages" /\ MG!Init /\ Unused(24)
       \/ part = "native" /\ CN!Init /\ Unused(9)

MCNext ==
    /\ UNCHANGED part
    /\ \/ part = "keys" /\ Next /\ UNCHANGED others
       \/ part = "messages" /\ MG!Next /\ Resting(24)
       \/ part = "native" /\ CN!Next /\ Resting(9)

MCSpec == MCInit /\ [][MCNext]_all

-----------------------------------------------------------------------------
\* Every part keeps its types.
TypesOK ==
    /\ TypeOK
    /\ part = "messages" => MG!TypeOK
    /\ part = "native" => CN!TypeOK

\* In a MUC room that has been caught up the repository holds every message
\* of the archive with its server id, those sent while we were away or lost
\* with a connection and our own ones, unless they are older than the maximum
\* or were overtaken; a message we send is stored once, whether it comes back
\* as an echo, from the archive or from both at once; and the UI was told of
\* all of them, save those whose sending failed and the one that opened a
\* fresh room.
MessagesAreKept == part = "messages" =>
    /\ MG!NothingLost
    /\ MG!OwnStoredOnce
    /\ MG!UIKnows
=============================================================================
