---------------------------- MODULE MCConnection ----------------------------
(* The connection of a client in a browser, and what must come to an end     *)
(* while it lasts: a join and a message to a room whose answers may not      *)
(* come, an invitation to a room that moves, the answers of three clients    *)
(* that start sessions with each other, and what the messages of a client    *)
(* are to another. The behaviours of this module are those of the parts, one *)
(* after the other; the connection, the part this module extends, does       *)
(* nothing in those of the other parts.                                      *)
EXTENDS ConnectionSetup

VARIABLES
    part,   \* the part a behaviour is about
    s1, s2, s3, s4, s5, s6, s7, s8, s9, s10, s11, s12, s13, s14, s15, s16,
    s17, s18, s19, s20   \* the variables of the other parts

others == <<s1, s2, s3, s4, s5, s6, s7, s8, s9, s10, s11, s12, s13, s14, s15,
            s16, s17, s18, s19, s20>>

all == <<part, vars, others>>

\* A join and a groupchat message to the same room.
RE == INSTANCE RequestFutures WITH
    IqRequests <- {}, PingRequests <- {}, MamRequests <- {},
    JoinRequests <- {"join"}, MucRequests <- {"muc"}, Rooms <- {"room"},
    RoomOf <- [r \in {"join", "muc"} |-> "room"], Nobody <- "nobody",
    Timeout <- 1, MaxConnections <- 1, MaxArchived <- 0,
    pos <- s1, pushes <- s2, age <- s3, value <- s4, result <- s5,
    waker <- s6, woken <- s7, pc <- s8, out <- s9, taken <- s10,
    timerWakes <- s11, connection <- s12, opened <- s13, reader <- s14,
    writer <- s15, client <- s16, panicked <- s17, sentOn <- s18,
    answered <- s19, archived <- s20

\* A room that moved: an invitation to it and the event of its destruction. Its
\* type does not change.
RL == INSTANCE RoomLifecycle WITH
    MucIds <- {"old", "new"}, NoRoom <- "none",
    NewLocation <- [r \in {"old", "new"} |-> IF r = "old" THEN "new" ELSE "none"],
    UserJoins <- {}, Invites <- {"i1"}, BookmarkJoins <- {}, Moves <- {"m1"},
    PingTasks <- {}, Reloads <- {}, RoomOf <- [t \in {"i1", "m1"} |-> "old"],
    MaxSessions <- 2,
    state <- s1, arc <- s2, known <- s3, joinedIn <- s4, arcs <- s5,
    retyped <- s6, pc <- s7, at <- s8, handle <- s9, sent <- s10, session <- s11,
    online <- s12, account <- s13, lost <- s14

\* Three clients, one of which reads its archive, with one prekey each.
SS == INSTANCE Sessions WITH
    Clients <- {"a", "b", "c"},
    Pairs <- {<<"a", "b">>, <<"b", "a">>, <<"c", "b">>}, CatchingUp <- {"b"},
    PreKeys <- {1}, MaxSends <- 2, MaxDrops <- 1,
    store <- s1, bundle <- s2, sessions <- s3, pending <- s4, context <- s5,
    tasks <- s6, repairs <- s7, net <- s8, next <- s9, archive <- s10,
    read <- s11, unread <- s12, consumed <- s13, lost <- s14, cut <- s15,
    drops <- s16, decrypting <- s17

\* Two users, with a second device each, in a chat and in a room.
MS == INSTANCE MessageStanzas WITH
    BareJids <- {<<"me", "">>, <<"you", "">>, <<"muc", "">>, <<"old", "">>},
    FullJids <- {<<"me", "phone">>, <<"you", "laptop">>, <<"me", "laptop">>, <<"muc", "me">>, <<"muc", "you">>},
    MaxNumber <- 7, Me <- "me", You <- "you", Muc <- "muc", Now <- 9,
    op <- s1, stanza <- s2, delivered <- s3, events <- s4, parsed <- s5

-----------------------------------------------------------------------------
\* A part with n variables leaves the other ones alone.
Unused(n) ==
    /\ IF n < 1 THEN s1 = "off" ELSE TRUE
    /\ IF n < 2 THEN s2 = "off" ELSE TRUE
    /\ IF n < 3 THEN s3 = "off" ELSE TRUE
    /\ IF n < 4 THEN s4 = "off" ELSE TRUE
    /\ IF n < 5 THEN s5 = "off" ELSE TRUE
    /\ IF n < 6 THEN s6 = "off" ELSE TRUE
    /\ IF n < 7 THEN s7 = "off" ELSE TRUE
    /\ IF n < 8 THEN s8 = "off" ELSE TRUE
    /\ IF n < 9 THEN s9 = "off" ELSE TRUE
    /\ IF n < 10 THEN s10 = "off" ELSE TRUE
    /\ IF n < 11 THEN s11 = "off" ELSE TRUE
    /\ IF n < 12 THEN s12 = "off" ELSE TRUE
    /\ IF n < 13 THEN s13 = "off" ELSE TRUE
    /\ IF n < 14 THEN s14 = "off" ELSE TRUE
    /\ IF n < 15 THEN s15 = "off" ELSE TRUE
    /\ IF n < 16 THEN s16 = "off" ELSE TRUE
    /\ IF n < 17 THEN s17 = "off" ELSE TRUE
    /\ IF n < 18 THEN s18 = "off" ELSE TRUE
    /\ IF n < 19 THEN s19 = "off" ELSE TRUE
    /\ IF n < 20 THEN s20 = "off" ELSE TRUE

Resting(n) ==
    /\ UNCHANGED vars
    /\ IF n < 6 THEN UNCHANGED s6 ELSE TRUE
    /\ IF n < 7 THEN UNCHANGED s7 ELSE TRUE
    /\ IF n < 8 THEN UNCHANGED s8 ELSE TRUE
    /\ IF n < 9 THEN UNCHANGED s9 ELSE TRUE
    /\ IF n < 10 THEN UNCHANGED s10 ELSE TRUE
    /\ IF n < 11 THEN UNCHANGED s11 ELSE TRUE
    /\ IF n < 12 THEN UNCHANGED s12 ELSE TRUE
    /\ IF n < 13 THEN UNCHANGED s13 ELSE TRUE
    /\ IF n < 14 THEN UNCHANGED s14 ELSE TRUE
    /\ IF n < 15 THEN UNCHANGED s15 ELSE TRUE
    /\ IF n < 16 THEN UNCHANGED s16 ELSE TRUE
    /\ IF n < 17 THEN UNCHANGED s17 ELSE TRUE
    /\ IF n < 18 THEN UNCHANGED s18 ELSE TRUE
    /\ IF n < 19 THEN UNCHANGED s19 ELSE TRUE
    /\ IF n < 20 THEN UNCHANGED s20 ELSE TRUE

MCInit ==
    /\ Init
    /\ \/ part = "connection" /\ Unused(0)
       \/ part = "echo" /\ RE!Init /\ Unused(20)
       \/ part = "moving" /\ RL!Init /\ Unused(14)
       \/ part = "sessions" /\ SS!Init /\ Unused(17)
       \/ part = "messages" /\ MS!Init /\ Unused(5)

MCNext ==
    /\ UNCHANGED part
    /\ \/ part = "connection" /\ Next /\ UNCHANGED others
       \/ part = "echo" /\ RE!Next /\ Resting(20)
       \/ part = "moving" /\ RL!Next /\ Resting(14)
       \/ part = "sessions" /\ SS!Next /\ Resting(17)
       \/ part = "messages" /\ MS!Next /\ Resting(5)

MCSpec == MCInit /\ [][MCNext]_all

Echo(action) == part = "echo" /\ action /\ UNCHANGED part /\ Resting(20)
Moving(action) == part = "moving" /\ action /\ UNCHANGED part /\ Resting(14)
Answering(action) == part = "sessions" /\ action /\ UNCHANGED part /\ Resting(17)

\* The fairness of the parts: see their modules.
MCFairness ==
    /\ \A r \in RE!Requests :
         /\ WF_all(Echo(RE!SendStanza(r) \/ RE!SendStanzaFails(r)))
         /\ WF_all(Echo(s7[r] /\ RE!Poll(r)))
         /\ WF_all(Echo(RE!WakeExpired(r)))
         /\ \A a \in RE!Cancellers : WF_all(Echo(RE!FailWithDisconnect(a, r)))
    /\ WF_all(Echo(\E c \in RE!Connections : RE!TimeoutTimer(c)))
    /\ WF_all(Echo(RE!Tick))
    /\ \A t \in RL!Tasks : WF_all(Moving(RL!Local(t))) /\ WF_all(Moving(RL!Answer(t)))
    /\ \A c \in {"a", "b", "c"} : WF_all(Answering(SS!Step(c)))

MCFairSpec == MCSpec /\ MCFairness

-----------------------------------------------------------------------------
\* Every part keeps its types.
TypesOK ==
    /\ TypeOK
    /\ part = "echo" => RE!TypeOK
    /\ part = "moving" => RL!TypeOK
    /\ part = "sessions" => SS!TypeOK
    /\ part = "messages" => MS!TypeOK

\* The clients can read each other's messages: a message is unreadable only
\* if it starts a session from a prekey that another session took before it;
\* once nothing is being finalized every published prekey is one its client
\* can decrypt with, unless the last attempt to publish them failed; and in
\* the end a session whose first message was read is complete on both sides,
\* unless a connection was lost on the way or the context of the catch-up was
\* finalized while the message was being decrypted.
SessionsWork == part = "sessions" =>
    /\ SS!ReadUnlessTaken
    /\ SS!PublishedPreKeysWork
    /\ SS!SessionsComplete

\* What another client reads is what the user sent: the text, the mentions,
\* the attachments, the reactions and the message that a correction, a
\* retraction or a reaction is about, in the id the room's messages are found
\* by; from the sender's account whenever it can be known; with nothing of a
\* reply's text lost; the same from the archive; and a copy that another
\* account claims to have made is not shown.
MessagesArrive == part = "messages" =>
    /\ MS!SentIsReceived
    /\ MS!SenderIsKnown
    /\ MS!ReplyKeepsText
    /\ MS!SameFromArchive
    /\ MS!OnlyOwnCarbons

\* Every request that was registered completes, whatever the server, the
\* network and the user do: the reply, the timeout, the cancellation or the
\* failed write reaches the caller.
EveryRequestCompletes == \A r \in RE!Requests : []<>~(part = "echo" /\ RE!Underway(r))

\* Whatever happens to its join, a connecting room does not stay so; and the
\* answers of the clients end: two of them do not keep completing each other's
\* sessions.
ExchangesEnd ==
    /\ \A r \in {"old", "new"} : []<>~(part = "moving" /\ RL!Connecting(r))
    /\ <>[](part = "sessions" => SS!Silence)
=============================================================================
