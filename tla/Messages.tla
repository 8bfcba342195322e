------------------------------- MODULE Messages -------------------------------
(***************************************************************************)
(* The messages of one room on their way into the messages repository: the  *)
(* live ones (MessagesEventHandler), the ones kept while the client was     *)
(* connecting (OfflineMessagesRepository), those loaded from the archive    *)
(* (catch-up and paging) and the ones that are sent, together with the      *)
(* statistics that count the unread ones and the events that tell the UI.   *)
(*                                                                          *)
(* The archive of the server (external) is a sequence; the position of a    *)
(* message is its server id.  A message may target an earlier one (a        *)
(* correction, a reaction, a retraction).  Every query of the repository is *)
(* an await: handlers, catch-up and paging interleave between them.         *)
(***************************************************************************)
EXTENDS Naturals, Sequences, FiniteSets, FiniteSetsExt

CONSTANTS
    PageSize, MaxCatchupSpan,
    MaxMessages, MaxTasks, MaxConnections, MaxOps

VARIABLES
    muc,            \* a MUC room, or a direct conversation
    focus,          \* what a behaviour is about: the archive, sending or the statistics
    log,            \* the archive: [own, target, remote, time]
    now,            \* the clock, which the client and the server share
    conn, since0,   \* the connection and when it was made (connection_timestamp)
    offline,        \* messages the server keeps for the next session
    inbox,          \* stanzas on their way to the handlers
    offq,           \* OfflineMessagesRepository
    room,           \* is there a room, and has it been caught up since we connected
    repo,           \* MessagesRepository: a set of records
    nextId,
    lastCatchup,    \* LocalRoomSettings::last_catchup_time
    lastRead,       \* SyncedRoomSettings::last_read_message
    stats,          \* RoomStatistics
    sidebar,        \* has SidebarChanged been dispatched and not been handled
    query,          \* an update of the statistics that is under way
    ui,             \* ids of the records the UI was told of
    tasks,
    lost, missed, failed, quiet, ops   \* history

vars == <<muc, focus, log, now, conn, since0, offline, inbox, offq, room, repo, nextId, lastCatchup,
          lastRead, stats, sidebar, query, ui, tasks, lost, missed,
          failed, quiet, ops>>
server == <<log, now, offline>>
session == <<muc, focus, conn, since0>>
counted == <<lastRead, stats, sidebar, query>>
history == <<lost, missed, failed, quiet, ops>>

Init ==
    /\ muc \in BOOLEAN /\ focus \in {"archive", "send", "count"}
    /\ log = <<>> /\ now = 1
    /\ conn = "off" /\ since0 = 0 /\ offline = {} /\ inbox = <<>> /\ offq = <<>>
    /\ room = "none" /\ repo = {} /\ nextId = 1
    /\ lastCatchup = 0 /\ lastRead = 0
    /\ stats = [needsUpdate |-> TRUE, unread |-> 0]
    /\ sidebar = FALSE /\ query = [pc |-> "idle", after |-> 0, count |-> 0]
    /\ ui = {} /\ tasks = {}
    /\ lost = {} /\ missed = {} /\ failed = FALSE /\ quiet = {} /\ ops = [connections |-> 0, calls |-> 0]

-----------------------------------------------------------------------------
\* MessageRecord, and the repository's put: a record replaces the one with its id.
Record(id, remote, srv, own, target, time) ==
    [id |-> id, remote |-> remote, server |-> srv, own |-> own, target |-> target, time |-> time]
Append1(r) == {x \in repo : x.id # r.id} \cup {r}
AppendAll(rs) == {x \in repo : \A r \in rs : x.id # r.id} \cup rs

\* contains, resolve_server_id, resolve_remote_id.
Contains(m) == \E r \in repo : r.server = m
ResolveServerId(m) == {r.id : r \in {x \in repo : x.server = m}}
ResolveRemoteId(remote) == {r.id : r \in {x \in repo : x.remote = remote}}
ResolveTarget(m) == \E r \in repo : r.server = m \/ r.remote = log[m].remote

\* get_last_received_message: the time of the last record with a server id.
LastReceived(before) ==
    LET times == {r.time : r \in {x \in repo : x.server # 0 /\ x.time < before}}
    IN IF times = {} THEN 0 ELSE Max(times)

\* get_messages_after, and how update_statistics_if_needed counts them.
GetMessagesAfter(after) == {r \in repo : r.time > after}
Unread(after) == Cardinality({r \in GetMessagesAfter(after) : r.target = 0 /\ ~r.own})

Texts == {i \in 1 .. Len(log) : log[i].target = 0}
Stamp == now' = now + 1

-----------------------------------------------------------------------------
\* Somebody posts to the room.  The server delivers the message, keeps it for
\* our next session, or another device of ours received it.
Session == conn # "off" /\ (muc => room \in {"open", "caught up"})
Posted(own, target, remote) == log' = Append(log, [own |-> own, target |-> target,
                                                   remote |-> remote, time |-> now])
PeerPosts ==
    LET m == Len(log) + 1 IN
    /\ Len(log) < MaxMessages
    /\ \E target \in Texts \cup {0} : Posted(FALSE, target, MaxMessages * 10 + m)
    /\ Stamp
    /\ IF Session
       THEN inbox' = Append(inbox, [m |-> m, how |-> "received", delayed |-> FALSE])
            /\ UNCHANGED offline
       ELSE UNCHANGED inbox /\ offline' \in {offline} \cup (IF muc THEN {} ELSE {offline \cup {m}})
    /\ lost' = IF ~Session /\ \E t \in tasks : t.pc \in {"page", "save", "finish"}
               THEN lost \cup {m} ELSE lost
    /\ UNCHANGED <<session, offq, room, repo, nextId, lastCatchup, counted, ui, tasks,
                   missed, failed, quiet, ops>>

\* The connection is made; the server delivers what it kept.
Connect ==
    /\ conn = "off" /\ ops.connections < (IF focus = "archive" THEN MaxConnections ELSE 1)
    /\ conn' = "connecting" /\ since0' = now /\ Stamp
    /\ inbox' = [i \in 1 .. Cardinality(offline) |->
            [m |-> CHOOSE m \in offline : Cardinality({k \in offline : k < m}) = i - 1,
             how |-> "received", delayed |-> TRUE]]
    /\ offline' = {} /\ offq' = <<>>
    /\ ops' = [ops EXCEPT !.connections = @ + 1]
    /\ UNCHANGED <<muc, focus, log, room, repo, nextId, lastCatchup, counted, ui, tasks,
                   lost, missed, failed, quiet>>

\* ConnectionService::connect comes to its end: the messages that were put
\* aside are handled one after the other.
Connected ==
    /\ conn = "connecting" /\ conn' = "on"
    /\ UNCHANGED <<muc, focus, since0, server, inbox, offq, room, repo, nextId, lastCatchup, counted, ui,
                   tasks, history>>

\* The connection is lost, and the stanzas on their way.
Disconnect ==
    /\ conn = "on" /\ conn' = "off"
    /\ inbox' = <<>> /\ offq' = <<>>
    /\ room' = IF room = "none" THEN "none" ELSE "disconnected"
    /\ lost' = lost \cup {inbox[i].m : i \in DOMAIN inbox} \cup {offq[i].m : i \in DOMAIN offq}
    /\ UNCHANGED <<muc, focus, since0, server, repo, nextId, lastCatchup, counted, ui, tasks,
                   missed, failed, quiet, ops>>

-----------------------------------------------------------------------------
\* MessagesEventHandler
NoTask == [kind |-> "live", pc |-> "check", m |-> 0, how |-> "received", delayed |-> FALSE,
           id |-> 0, update |-> FALSE, fresh |-> FALSE, drain |-> FALSE, time |-> 0,
           last |-> 0, acc |-> {}, started |-> 0, conn |-> 0]
Start(task) ==
    /\ Cardinality(tasks) < MaxTasks /\ \A t \in tasks : t.kind # task.kind \/ t.m # task.m \/ t.how # task.how
    /\ tasks' = tasks \cup {[task EXCEPT !.conn = since0]}
To(t, new) == tasks' = (tasks \ {t}) \cup {new}
End(t) == tasks' = tasks \ {t}

Live(e, drain) == [NoTask EXCEPT !.m = e.m, !.how = e.how, !.delayed = e.delayed, !.drain = drain,
                                 !.pc = IF e.how = "sent" THEN "resolve" ELSE "check"]

\* handle_event: a message that arrives while we are connecting is put aside.
HandleEvent ==
    /\ inbox # <<>> /\ inbox' = Tail(inbox)
    /\ IF conn # "on"
       THEN offq' = Append(offq, Head(inbox)) /\ UNCHANGED tasks
       ELSE Start(Live(Head(inbox), FALSE)) /\ UNCHANGED offq
    /\ UNCHANGED <<session, server, room, repo, nextId, lastCatchup, counted, ui, history>>

\* The messages that were put aside, in order, each after the one before it.
ApplyOfflineMessage ==
    /\ conn = "on" /\ offq # <<>> /\ offq' = Tail(offq)
    /\ \A t \in tasks : ~t.drain
    /\ Start(Live(Head(offq), TRUE))
    /\ UNCHANGED <<session, server, inbox, room, repo, nextId, lastCatchup, counted, ui, history>>

\* handle_message_event: "Skip known messages".
HandleMessageEvent(t) ==
    /\ t.kind = "live" /\ t.pc = "check"
    /\ IF Contains(t.m) THEN End(t)
       ELSE To(t, [t EXCEPT !.pc = IF t.how = "received" THEN "parse" ELSE "resolve"])
    /\ UNCHANGED <<session, server, inbox, offq, room, repo, nextId, lastCatchup, counted, ui, history>>

\* SidebarDomainService::handle_received_message, when there is a room.
SidebarHandlesMessage ==
    /\ stats' = [stats EXCEPT !.needsUpdate = TRUE]
    /\ sidebar' = TRUE
    /\ UNCHANGED <<lastRead, query>>

\* handle_received_message: the message is parsed and gets an id; the sidebar
\* is told, which joins the conversation (and catches up) if there is no room.
HandleReceivedMessage(t) ==
    /\ t.kind = "live" /\ t.pc = "parse"
    /\ nextId' = nextId + 1
    /\ LET parsed == [t EXCEPT !.id = nextId, !.time = IF t.delayed THEN log[t.m].time ELSE now] IN
       IF log[t.m].target = 0 /\ room = "none"
       THEN /\ room' = "open"
            /\ To(t, [parsed EXCEPT !.pc = "since", !.fresh = TRUE])
            /\ UNCHANGED counted
       ELSE /\ To(t, [parsed EXCEPT !.pc = "append", !.fresh = room = "none"])
            /\ IF log[t.m].target = 0 THEN SidebarHandlesMessage ELSE UNCHANGED counted
            /\ UNCHANGED room
    /\ UNCHANGED <<session, server, inbox, offq, repo, lastCatchup, ui, history>>

\* handle_sent_message: our own message, known by its remote id.
Resolved(t) == ResolveRemoteId(log[t.m].remote)
HandleSentMessage(t) ==
    /\ t.kind = "live" /\ t.pc = "resolve"
    /\ IF room = "none" THEN End(t) /\ UNCHANGED nextId
       ELSE IF Resolved(t) = {}
       THEN /\ To(t, [t EXCEPT !.id = nextId, !.pc = "append", !.time = now])
            /\ nextId' = nextId + 1
       ELSE /\ To(t, [t EXCEPT !.id = Min(Resolved(t)), !.update = TRUE, !.pc = "append", !.time = now])
            /\ UNCHANGED nextId
    /\ UNCHANGED <<session, server, inbox, offq, room, repo, lastCatchup, counted, ui, history>>

\* save_message_and_dispatch_event; nothing is dispatched for a fresh room, for
\* a message that was there without its server id, and for a modifier whose
\* target is not known.
Dispatched(t) ==
    IF t.fresh \/ t.update THEN {}
    ELSE IF log[t.m].target # 0 /\ ~ResolveTarget(log[t.m].target) THEN {}
    ELSE {t.id}
SaveMessage(t) ==
    /\ t.kind = "live" /\ t.pc = "append"
    /\ repo' = Append1(Record(t.id, log[t.m].remote, IF t.how = "sent" THEN 0 ELSE t.m,
                              log[t.m].own, log[t.m].target, t.time))
    /\ ui' = ui \cup Dispatched(t)
    /\ quiet' = IF t.fresh THEN quiet \cup {t.id} ELSE quiet
    /\ End(t)
    /\ UNCHANGED <<session, server, inbox, offq, room, nextId, lastCatchup, counted,
                   lost, missed, failed, ops>>

-----------------------------------------------------------------------------
\* MessageArchiveDomainService::catchup_room
StartCatchup ==
    /\ conn = "on" /\ room \notin {"open", "caught up"} /\ offq = <<>> /\ \A t \in tasks : ~t.drain
    /\ Start([NoTask EXCEPT !.kind = "catchup", !.pc = "since", !.fresh = room = "none"])
    /\ room' = "open"
    /\ UNCHANGED <<session, server, inbox, offq, repo, nextId, lastCatchup, counted, ui, history>>

\* "catchup from either the last received message before the current connection
\* or from the last successful catchup", but not further than the maximum.
CatchupSince ==
    LET earliest == IF now > MaxCatchupSpan THEN now - MaxCatchupSpan ELSE 0
    IN Max({lastCatchup, LastReceived(since0), earliest})
CatchupBegins(t) ==
    /\ t.pc = "since"
    /\ To(t, [t EXCEPT !.pc = "page", !.started = CatchupSince, !.last = 0])
    /\ missed' = missed \cup {m \in 1 .. Len(log) : log[m].time < CatchupSince /\ ~Contains(m)
                                                  /\ (CatchupSince + MaxCatchupSpan = now \/ m \in lost)}
    /\ UNCHANGED <<session, server, inbox, offq, room, repo, nextId, lastCatchup, counted, ui,
                   lost, failed, quiet, ops>>

\* load_messages_since, load_messages_after: the page and whether it is the last.
Wanted(t) == {m \in 1 .. Len(log) : IF t.last = 0 THEN log[m].time >= t.started ELSE m > t.last}
FirstOf(ms, n) == {m \in ms : Cardinality({k \in ms : k < m}) < n}
LastOf(ms, n) == {m \in ms : Cardinality({k \in ms : k > m}) < n}

\* parse_message_page: our messages are known by their remote id, those of
\* others by their server id; the rest get new ones.
Known(m) == IF log[m].own THEN ResolveRemoteId(log[m].remote) ELSE ResolveServerId(m)
ParseMessagePage(page) ==
    LET new == {m \in page : Known(m) = {}}
        id(m) == IF m \in new THEN nextId + Cardinality({k \in new : k < m}) ELSE Min(Known(m))
    IN {Record(id(m), log[m].remote, m, log[m].own, log[m].target, log[m].time) : m \in page}
NewIds(page) == nextId + Cardinality({m \in page : Known(m) = {}})

IsLastAlways(t, page) == TRUE
IsLast(t, page) == page = Wanted(t)
CatchupPage(t) ==
    LET page == FirstOf(Wanted(t), PageSize) IN
    /\ t.pc = "page" /\ t.kind # "load" /\ conn = "on"
    /\ To(t, [t EXCEPT !.acc = @ \cup ParseMessagePage(page),
                       !.pc = IF IsLast(t, page) \/ page = {} THEN "save" ELSE "page",
                       !.last = IF page = {} THEN @ ELSE Max(page)])
    /\ nextId' = NewIds(page)
    /\ UNCHANGED <<session, server, inbox, offq, room, repo, lastCatchup, counted, ui, history>>

\* A request of the archive fails, or the connection is gone.
CatchupFails(t) ==
    /\ t.pc = "page"
    /\ IF conn = "on" THEN ops.calls < MaxOps /\ ops' = [ops EXCEPT !.calls = @ + 1]
       ELSE UNCHANGED ops
    /\ failed' = (failed \/ t.kind # "load")
    /\ IF t.kind = "live" THEN To(t, [t EXCEPT !.pc = "append"]) /\ SidebarHandlesMessage
       ELSE End(t) /\ UNCHANGED counted
    /\ UNCHANGED <<session, server, inbox, offq, room, repo, nextId, lastCatchup, ui, lost, missed, quiet>>

CatchupSaves(t) ==
    /\ t.pc = "save"
    /\ repo' = AppendAll(t.acc)
    /\ To(t, [t EXCEPT !.pc = "finish"])
    /\ UNCHANGED <<session, server, inbox, offq, room, nextId, lastCatchup, counted, ui, history>>

\* The time of the catch-up is saved, the UI is told to reload if there was
\* anything new in a room it knows.
CatchupFinishes(t) ==
    /\ t.pc = "finish"
    /\ lastCatchup' = now
    /\ room' = IF conn = "on" /\ t.conn = since0 THEN "caught up" ELSE room
    /\ stats' = [stats EXCEPT !.needsUpdate = TRUE]
    /\ ui' = IF t.acc # {} \/ t.fresh THEN {r.id : r \in repo} ELSE ui
    /\ IF t.kind = "live" THEN To(t, [t EXCEPT !.pc = "append"]) /\ sidebar' = TRUE
       ELSE End(t) /\ UNCHANGED sidebar
    /\ UNCHANGED <<session, server, inbox, offq, repo, nextId, lastRead, query, history>>

-----------------------------------------------------------------------------
\* Room::load_latest_messages, load_messages_before; one page (MessageReduction
\* models how pages are put together).
Call(f) == focus = f /\ ops.calls < MaxOps /\ ops' = [ops EXCEPT !.calls = @ + 1]
LoadMessages(before) ==
    /\ Call("archive") /\ conn = "on" /\ room = "caught up"
    /\ Start([NoTask EXCEPT !.kind = "load", !.pc = "page", !.last = before])
    /\ UNCHANGED <<session, server, inbox, offq, room, repo, nextId, lastCatchup, counted, ui,
                   lost, missed, failed, quiet>>
LoadPage(t) ==
    LET page == LastOf({m \in 1 .. Len(log) : t.last = 0 \/ m < t.last}, PageSize) IN
    /\ t.kind = "load" /\ t.pc = "page" /\ conn = "on"
    /\ To(t, [t EXCEPT !.acc = ParseMessagePage(page), !.pc = "append"])
    /\ nextId' = NewIds(page)
    /\ UNCHANGED <<session, server, inbox, offq, room, repo, lastCatchup, counted, ui, history>>
LoadSaves(t) ==
    /\ t.kind = "load" /\ t.pc = "append"
    /\ repo' = AppendAll(t.acc)
    /\ ui' = ui \cup {r.id : r \in t.acc}
    /\ End(t)
    /\ UNCHANGED <<session, server, inbox, offq, room, nextId, lastCatchup, counted, history>>

\* Room::send_message, update_message: the message is saved, then it is sent.
SendMessage(target) ==
    /\ Call("send") /\ conn = "on" /\ room = "caught up" /\ Len(log) < MaxMessages
    /\ Start([NoTask EXCEPT !.kind = "send", !.pc = "send", !.id = nextId, !.m = target])
    /\ repo' = Append1(Record(nextId, nextId, 0, TRUE, target, now))
    /\ nextId' = nextId + 1
    /\ UNCHANGED <<session, server, inbox, offq, room, lastCatchup, counted, ui,
                   lost, missed, failed, quiet>>
MessageSent(t) ==
    /\ t.kind = "send" /\ End(t)
    /\ IF conn = "on" /\ Len(log) < MaxMessages
       THEN /\ Posted(TRUE, t.m, t.id) /\ Stamp
            /\ inbox' = IF muc THEN Append(inbox, [m |-> Len(log) + 1, how |-> "echo", delayed |-> FALSE])
                        ELSE inbox
            /\ ui' = ui \cup {t.id}
            /\ UNCHANGED quiet
       ELSE quiet' = quiet \cup {t.id} /\ UNCHANGED <<log, now, inbox, ui>>
    /\ UNCHANGED <<session, offline, offq, room, repo, nextId, lastCatchup, counted,
                   lost, missed, failed, ops>>

\* Room::toggle_reaction_to_message, retract_message: sent, and handled as an
\* event of its own (Event::Sent) before the echo.
SendModifier(target) ==
    LET m == Len(log) + 1 IN
    /\ Call("send") /\ conn = "on" /\ room = "caught up" /\ Len(log) < MaxMessages
    /\ ResolveTarget(target)
    /\ Posted(TRUE, target, nextId) /\ Stamp
    /\ nextId' = nextId + 1
    /\ inbox' = inbox \o <<[m |-> m, how |-> "sent", delayed |-> FALSE]>> \o
                (IF muc THEN <<[m |-> m, how |-> "echo", delayed |-> FALSE]>> ELSE <<>>)
    /\ UNCHANGED <<session, offline, offq, room, repo, lastCatchup, counted, ui, tasks,
                   lost, missed, failed, quiet>>

\* Room::mark_as_read.
MarkAsRead ==
    /\ Call("count") /\ room = "caught up" /\ LastReceived(now + 1) > lastRead
    /\ lastRead' = LastReceived(now + 1)
    /\ stats' = [stats EXCEPT !.needsUpdate = TRUE] /\ sidebar' = TRUE /\ UNCHANGED query
    /\ UNCHANGED <<session, server, inbox, offq, room, repo, nextId, lastCatchup, ui, tasks,
                   lost, missed, failed, quiet>>

-----------------------------------------------------------------------------
\* SidebarService::sidebar_items after SidebarChanged: update_statistics_if_needed.
SidebarItems ==
    /\ focus = "count" /\ sidebar /\ sidebar' = FALSE /\ query.pc = "idle"
    /\ IF room = "none" \/ ~stats.needsUpdate THEN UNCHANGED <<stats, query>>
       ELSE /\ stats' = [needsUpdate |-> FALSE, unread |-> 0]
            /\ query' = [pc |-> "query", after |-> lastRead, count |-> 0]
    /\ UNCHANGED <<session, server, inbox, offq, room, repo, nextId, lastCatchup, lastRead, ui,
                   tasks, history>>
QueryMessages ==
    /\ query.pc = "query"
    /\ query' = [query EXCEPT !.pc = "write", !.count = Unread(query.after)]
    /\ UNCHANGED <<session, server, inbox, offq, room, repo, nextId, lastCatchup, lastRead, stats,
                   sidebar, ui, tasks, history>>
WriteStatistics ==
    /\ query.pc = "write"
    /\ stats' = [needsUpdate |-> FALSE, unread |-> query.count]
    /\ query' = [query EXCEPT !.pc = "idle", !.after = 0, !.count = 0]
    /\ UNCHANGED <<session, server, inbox, offq, room, repo, nextId, lastCatchup, lastRead, sidebar,
                   ui, tasks, history>>

Next ==
    \/ PeerPosts \/ Connect \/ Connected \/ Disconnect
    \/ HandleEvent \/ ApplyOfflineMessage \/ StartCatchup
    \/ \E t \in tasks : HandleMessageEvent(t) \/ HandleReceivedMessage(t) \/ HandleSentMessage(t)
                        \/ SaveMessage(t) \/ CatchupBegins(t) \/ CatchupPage(t) \/ CatchupFails(t)
                        \/ CatchupSaves(t) \/ CatchupFinishes(t) \/ LoadPage(t) \/ LoadSaves(t)
                        \/ MessageSent(t)
    \/ \E before \in {0, Len(log)} : LoadMessages(before)
    \/ \E target \in Texts \cup {0} : SendMessage(target)
    \/ \E target \in Texts : SendModifier(target)
    \/ MarkAsRead \/ SidebarItems \/ QueryMessages \/ WriteStatistics

Spec == Init /\ [][Next]_vars

-----------------------------------------------------------------------------
AtRest == tasks = {} /\ inbox = <<>> /\ offq = <<>> 
CaughtUp == AtRest /\ conn = "on" /\ room = "caught up" /\ ~failed

\* Every variable holds a value of its type; ids name one record.
TypeOK ==
    /\ conn \in {"off", "connecting", "on"}
    /\ room \in {"none", "open", "caught up", "disconnected"}
    /\ \A r \in repo : r.id < nextId /\ r.server \in 0 .. Len(log)
    /\ \A r, s \in repo : r.id = s.id => r = s
    /\ ui \subseteq {r.id : r \in repo}
    /\ lastCatchup < now + 1 /\ lastRead < now + 1
    /\ stats.unread \in 0 .. Cardinality(repo)

\* A message we send is stored once, whether it comes back as an echo, from the
\* archive or from both at once: it is looked up by its remote id.
OwnStoredOnce ==
    \A r, s \in repo : r.own /\ s.own /\ r.remote = s.remote /\ r.id = r.remote => r = s

\* In a MUC room that has been caught up the repository holds every message of
\* the archive with its server id, those sent while we were away, those that
\* were lost with a connection and our own ones; unless they are older than the
\* maximum or were lost and overtaken by a message or a catch-up.  A modifier of
\* ours is there, if not always with its server id.
NothingLost ==
    CaughtUp /\ muc => \A m \in 1 .. Len(log) \ missed :
        Contains(m) \/ (log[m].own /\ log[m].target # 0 /\ ResolveRemoteId(log[m].remote) # {})

\* The UI has been told of every message of the repository, save those whose
\* sending failed and the one that opened a fresh room.
UIKnows ==
    AtRest /\ room = "caught up" => \A r \in repo : r.target = 0 => r.id \in ui \/ r.id \in quiet

\* handle_message_event "Skip known messages": no message of somebody else is
\* stored twice.
StoredOnce == \A r, s \in repo : r.server # 0 /\ r.server = s.server /\ ~r.own => r.id = s.id

\* "so that we don't consider offline messages that we might have received upon
\* connection": the catch-up of a conversation loads what was sent while we
\* were away, whether the server kept it for us or another device received it.
OfflineNotConsidered ==
    CaughtUp /\ ~muc => \A m \in 1 .. Len(log) \ missed : log[m].own \/ Contains(m)

\* RoomStatistics::needs_update "Are the statistics out of date?": statistics
\* that need no update count the unread messages there are.
StatisticsFresh ==
    AtRest /\ ~sidebar /\ query.pc = "idle" /\ room # "none" /\ ~stats.needsUpdate => stats.unread = Unread(lastRead)
=============================================================================
