------------------------------- MODULE Inbound ------------------------------
(* The way of a stanza into the client: prose-xmpp's modules turn it into     *)
(* events (src/client, src/mods), every event is a task that the event parser *)
(* of prose-core-client turns into server events (infra/xmpp/event_parser),   *)
(* and these go through the queue of handlers, one after the other            *)
(* (app/event_handlers). Handlers run concurrently with other tasks; here     *)
(* they only take note of the event, and requests are answered.               *)
EXTENDS Naturals, Sequences

CONSTANTS
    Me,             \* the own account's bare address
    Senders,        \* the addresses stanzas come from
    Askers,         \* those requests come from
    MaxArrivals     \* how many requests arrive

VARIABLES
    online,         \* the connection is up
    arrived,        \* the stanzas received, in order; the index is a request's id
    tasks,          \* spawned tasks: [event] or, once parsed, [todo: server events]
    handled,        \* <<handler, server event>> in the order they were handled
    sent            \* the stanzas sent in reply

vars == <<online, arrived, tasks, handled, sent>>

SE == INSTANCE SequencesExt

\* An address is <<bare, resource>>, "" for none; an optional value is a set.
IsFull(jid) == jid[2] # ""
Bare(jid) == <<jid[1], "">>
The(option) == CHOOSE x \in option : TRUE
First(seq) == IF seq = <<>> THEN {} ELSE {seq[1]}

Option(S) == {{}} \cup {{x} : x \in S}
UpTo(n, S) == UNION {[1 .. k -> S] : k \in 0 .. n}

(* The stanzas `XMPPElement::try_from_element` tells apart: a headline is a   *)
(* message of pubsub events.                                                  *)
Queries ==
    [kind : {"iq"}, type : {"get"}, from : Option(Askers), node : {{}},
     name : {"ping", "time", "version", "last", "other"}, items : {<<>>}]
    \cup [kind : {"iq"}, type : {"get"}, from : Option(Askers), node : Option({"n"}),
          name : {"disco"}, items : {<<>>}]

Pushes ==
    [kind : {"iq"}, type : {"set"}, from : Option(Senders \cup {Me}), name : {"block", "unblock"},
     items : UpTo(2, Senders)]
    \cup [kind : {"iq"}, type : {"set"}, from : Option(Senders \cup {Me}), name : {"roster"},
          items : UpTo(1, Senders), subscription : {"both", "remove"}]

Presences ==
    [kind : {"presence"}, type : {"available", "unavailable", "subscribe", "error"},
     from : Option(Senders)]

\* The `x` of a room (muc#user) holds a status of the configuration or another one, an
\* invitation from somebody, a user who was added, or what MucUser cannot be read from.
Messages ==
    LET Of(xs, embedded) ==
            [kind : {"message"}, type : {"chat", "groupchat", "normal", "error"},
             from : Option(Senders \cup {Me}), mam : {FALSE}, chat_state : BOOLEAN, body : BOOLEAN,
             subject : Option({"", "topic"}), carbon : {"none"}, direct : BOOLEAN, x : xs,
             embedded : embedded]
    IN  Of({"none", "config", "other", "added", "bad"}, {<<>>})
        \cup Of({"mediated"}, {<<jid>> : jid \in Senders})

Carbons ==
    [kind : {"message"}, type : {"chat"}, from : Option(Senders \cup {Me}), mam : BOOLEAN,
     chat_state : {FALSE}, body : {FALSE}, subject : {{}}, carbon : {"received", "sent"},
     direct : {FALSE}, x : {"none"}, embedded : {<<>>}]

\* Items are well-formed, malformed, without a payload or without content.
Notifications(nodes) ==
    [what : {"published"}, node : nodes, items : UpTo(2, {"good", "bad"}) \cup {<<"none">>}]
    \cup [what : {"published"}, node : nodes \cap {"avatar", "activity"}, items : {<<"empty">>}]
    \cup [what : {"retracted"}, node : nodes, items : UpTo(1, {"good", "bad"})]
    \cup [what : {"purge", "configuration"}, node : nodes, items : {<<>>}]

\* A server notifies of one event; the code allows for more.
PubSubMessages ==
    LET nodes == {"bookmark", "devices", "settings", "nick", "avatar", "vcard4", "activity",
                  "bookmarks", "bookmarks2", "other"}
        more == Notifications({"bookmark", "nick", "vcard4"})
    IN  [kind : {"pubsub"}, from : {Bare(jid) : jid \in Senders},
         events : {<<>>} \cup {<<e>> : e \in Notifications(nodes)}
                  \cup {<<e, f>> : e \in Notifications(nodes), f \in more}]

Stanzas == Queries \cup Pushes \cup Presences \cup Messages \cup Carbons \cup PubSubMessages

\* An event of prose-xmpp and of prose-core-client: who it is about and what it says.
Event(mod, name, about, data) ==
    [mod |-> mod, name |-> name, about |-> about, data |-> data]

-----------------------------------------------------------------------------
(* src/mods: what every module makes of a stanza. A module that fails has     *)
(* scheduled the events before the error.                                     *)

ProfileQueries ==
    [time |-> "EntityTimeQuery", version |-> "SoftwareVersionQuery",
     last |-> "LastActivityQuery"]

\* A request without a sender is an error.
ProfileIq(iq, id) ==
    IF iq.type = "get" /\ iq.name \in DOMAIN ProfileQueries /\ iq.from # {}
    THEN <<Event("Profile", ProfileQueries[iq.name], The(iq.from), [id |-> id])>>
    ELSE <<>>

PingIq(iq, id) ==
    IF iq.type = "get" /\ iq.name = "ping" /\ iq.from # {}
    THEN <<Event("Ping", "Ping", The(iq.from), [id |-> id])>>
    ELSE <<>>

CapsIq(iq, id) ==
    IF iq.type = "get" /\ iq.name = "disco" /\ iq.from # {}
    THEN <<Event("Caps", "DiscoInfoQuery", The(iq.from), [id |-> id, node |-> iq.node])>>
    ELSE <<>>

\* Of several users only the last is reported.
BlockListIq(iq) ==
    LET last == First(SE!Reverse(iq.items))
    IN  CASE iq.type = "set" /\ iq.name = "block" ->
                IF last = {} THEN <<>> ELSE <<Event("BlockList", "UserBlocked", The(last), {})>>
          [] iq.type = "set" /\ iq.name = "unblock" ->
                IF last = {}
                THEN <<Event("BlockList", "BlockListCleared", <<"", "">>, {})>>
                ELSE <<Event("BlockList", "UserUnblocked", The(last), {})>>
          [] OTHER -> <<>>

IsRosterPush(iq) ==
    iq.type = "set" /\ iq.name = "roster" /\ iq.items # <<>>

\* A push of another sender is logged, and handled.
RosterIq(iq) ==
    IF IsRosterPush(iq)
    THEN <<Event("Roster", "RosterItemChanged", iq.items[Len(iq.items)],
                 [subscription |-> iq.subscription])>>
    ELSE <<>>

RosterPresence(p) ==
    IF p.type = "subscribe" /\ p.from # {}
    THEN <<Event("Roster", "PresenceSubscriptionRequest", Bare(The(p.from)), {})>>
    ELSE <<>>

StatusPresence(p) ==
    IF p.type \in {"available", "unavailable"}
    THEN <<Event("Status", "Presence", p.from, p)>>
    ELSE <<>>

MucMessage(m) ==
    IF m.from = {} \/ m.type # "normal"
    THEN <<>>
    ELSE (IF m.direct
          THEN <<Event("MUC", "DirectInvite", The(m.from), {})>> ELSE <<>>)
         \o (IF m.x = "mediated"
             THEN <<Event("MUC", "MediatedInvite", The(m.from), m.embedded)>> ELSE <<>>)

\* A chat state is reported on its own. A stanza whose only payload it is still has
\* a payload. Carbons count from the own account only.
ChatMessage(m) ==
    LET state == IF m.from # {} /\ m.chat_state
                 THEN <<Event("Chat", "ChatStateChanged", The(m.from), [type |-> m.type])>>
                 ELSE <<>>
        empty == ~m.chat_state /\ ~m.direct /\ m.carbon = "none" /\ m.x = "none"
                 /\ ~m.body /\ m.subject = {}
    IN  CASE m.mam -> <<>>
          [] ~m.mam /\ empty -> state
          [] ~m.mam /\ ~empty /\ m.carbon # "none" ->
                state \o (IF m.from = {Me} THEN <<Event("Chat", "Carbon", Me, m)>> ELSE <<>>)
          [] OTHER -> state \o <<Event("Chat", "Message", m.from, m)>>

\* The nodes other modules handle.
IgnoredNodes == {"avatar", "bookmarks", "bookmarks2", "activity", "vcard4"}

\* `handle_pubsub_message` of the pubsub module looks at the first event only.
PubSubMessage(m) ==
    IF m.events = <<>> \/ m.events[1].node \in IgnoredNodes
    THEN <<>>
    ELSE <<Event("PubSub", "PubSubMessage", m.from, m.events)>>

\* `handle_pubsub_event` of Profile: the first item; a malformed one is an error.
\* An event handler gives the events it schedules, {} for an error.
FirstItem(e, from, nr, mod, name) ==
    CASE e.items = <<>> -> {<<>>}
      [] e.items # <<>> /\ e.items[1] = "none" -> {<<>>}
      [] e.items # <<>> /\ e.items[1] = "bad" -> {}
      [] OTHER -> {<<Event(mod, name, from, [nr |-> nr, item |-> e.items[1]])>>}

ProfilePubSub(e, from, nr) ==
    CASE e.what = "published" /\ e.node = "vcard4" -> FirstItem(e, from, nr, "Profile", "Vcard")
      [] e.what = "published" /\ e.node = "avatar" ->
            FirstItem(e, from, nr, "Profile", "AvatarMetadata")
      [] OTHER -> {<<>>}

StatusPubSub(e, from, nr) ==
    IF e.what = "published" /\ e.node = "activity"
    THEN FirstItem(e, from, nr, "Status", "UserActivity")
    ELSE {<<>>}

\* The old bookmarks are one item.
BookmarkPubSub(e, from, nr) ==
    LET stored == SelectSeq(e.items, LAMBDA item : item # "none")
    IN  IF e.what = "published" /\ e.node = "bookmarks"
        THEN FirstItem([e EXCEPT !.items = stored], from, nr, "Bookmark", "BookmarksChanged")
        ELSE {<<>>}

Bookmark2PubSub(e, from, nr) ==
    IF e.node = "bookmarks2" /\ e.what \in {"published", "retracted"}
    THEN IF \A i \in DOMAIN e.items : e.items[i] = "good"
         THEN {<<Event("Bookmark2", e.what, from, [nr |-> nr])>>}
         ELSE {}
    ELSE {<<>>}

\* `handle_pubsub_message` of a module: event by event, up to the first error.
EachPubSubEvent(Handle(_, _, _), m) ==
    LET results == [i \in DOMAIN m.events |-> Handle(m.events[i], m.from, i)]
        upTo == SE!SelectInSeq(results, LAMBDA r : r = {})
        Until == IF upTo = 0 THEN Len(results) ELSE upTo - 1
    IN  SE!FlattenSeq([i \in 1 .. Until |-> The(results[i])])

\* `handle_element` of all modules, in the order the client's builder adds them.
ModuleEvents(s, id) ==
    CASE s.kind = "iq" ->
            CapsIq(s, id) \o ProfileIq(s, id) \o RosterIq(s) \o BlockListIq(s) \o PingIq(s, id)
      [] s.kind = "presence" -> StatusPresence(s) \o RosterPresence(s)
      [] s.kind = "message" -> MucMessage(s) \o ChatMessage(s)
      [] s.kind = "pubsub" ->
            EachPubSubEvent(Bookmark2PubSub, s) \o EachPubSubEvent(BookmarkPubSub, s)
            \o EachPubSubEvent(StatusPubSub, s) \o EachPubSubEvent(ProfilePubSub, s)
            \o PubSubMessage(s)

-----------------------------------------------------------------------------
(* infra/xmpp/event_parser: the server events of an event. A parser gives the *)
(* possible results; none for an error, which drops the event.                *)

ServerEvent(type, about, what, data) ==
    [type |-> type, about |-> about, what |-> what, data |-> data]

Just(type, about, what, data) == {<<ServerEvent(type, about, what, data)>>}

parse_chat_state(e) ==
    IF IsFull(e.about)
    THEN Just("UserStatus", e.about, "ComposeStateChanged",
              [occupant |-> e.data.type = "groupchat"])
    ELSE {}

\* An `x` that MucUser cannot be read from is an error.
parse_group_chat_message(from, m) ==
    CASE m.x \in {"bad", "mediated"} -> {}
      [] m.x = "config" -> Just("Room", Bare(from), "RoomConfigChanged", m)
      [] m.x \in {"none", "other", "added"} /\ m.subject # {} ->
            Just("Room", Bare(from), "RoomTopicChanged", m)
      [] OTHER -> Just("Message", from, "Received", m)

parse_normal_message(from, m) ==
    IF ~m.direct /\ m.x = "added"
    THEN Just("Room", Bare(from), "UserAdded", m)
    ELSE {<<>>}


\* A message without a sender is an error; a chat state without a body has been
\* reported already.
parse_message(m) ==
    LET from == The(m.from)
    IN  IF m.from = {} THEN {}
        ELSE IF m.chat_state /\ ~m.body THEN {<<>>}
        ELSE CASE m.type = "groupchat" -> parse_group_chat_message(from, m)
               [] m.type = "chat" -> Just("Message", from, "Received", m)
               [] m.type = "normal" -> parse_normal_message(from, m)
               [] m.type = "error" -> {<<>>}

parse_chat_event(e) ==
    CASE e.name = "Message" -> parse_message(e.data)
      [] e.name = "Carbon" -> Just("Message", e.about, "Sync", e.data)
      [] e.name = "ChatStateChanged" -> parse_chat_state(e)

\* Of the presences only those of users: an occupant's are module Participants'.
parse_status_event(e) ==
    CASE e.name = "UserActivity" -> Just("UserInfo", Bare(e.about), "StatusChanged", e.data)
      [] e.name = "Presence" ->
            IF e.about = {} THEN {}
            ELSE Just("UserStatus", The(e.about), "PresenceChanged", e.data)

parse_block_list_event(e) == Just("BlockList", Bare(e.about), e.name, e.data)

parse_muc_event(e) ==
    CASE e.name = "DirectInvite" ->
            IF IsFull(e.about)
            THEN Just("Room", e.about, "ReceivedInvitation", e.data) ELSE {}
      [] e.name = "MediatedInvite" ->
            IF IsFull(e.data[1])
            THEN Just("Room", Bare(e.about), "ReceivedInvitation", e.data) ELSE {}

parse_caps_event(e) ==
    IF e.data.node = {} THEN {} ELSE Just("Request", e.about, "Capabilities", e.data)

parse_profile_event(e) ==
    CASE e.name = "Vcard" -> Just("UserInfo", Bare(e.about), "ProfileChanged", e.data)
      [] e.name = "AvatarMetadata" ->
            IF e.data.item = "empty" THEN {}
            ELSE Just("UserInfo", Bare(e.about), "AvatarChanged", e.data)
      [] e.name = "EntityTimeQuery" -> Just("Request", e.about, "LocalTime", e.data)
      [] e.name = "SoftwareVersionQuery" -> Just("Request", e.about, "SoftwareVersion", e.data)
      [] e.name = "LastActivityQuery" -> Just("Request", e.about, "LastActivity", e.data)

parse_roster_event(e) ==
    CASE e.name = "PresenceSubscriptionRequest" ->
            Just("ContactList", e.about, "PresenceSubscriptionRequested", e.data)
      [] e.name = "RosterItemChanged" ->
            Just("ContactList", Bare(e.about),
                 IF e.data.subscription = "remove" THEN "ContactRemoved"
                 ELSE "ContactAddedOrPresenceSubscriptionUpdated", e.data)

\* The nodes with a parser, and the server event they become. The identifier of a
\* bookmark and of a room's settings is an address.
Parsers ==
    [bookmark |-> "SidebarBookmark", devices |-> "UserDevice",
     settings |-> "SyncedRoomSettings", nick |-> "UserInfo"]

\* Items without or with a malformed payload are skipped, a nickname is the last item.
handle_added_or_updated_items(from, e, nr) ==
    LET numbered == [i \in DOMAIN e.items |-> <<e.items[i], i>>]
        items == SelectSeq(numbered, LAMBDA item : item[1] = "good")
    IN  IF e.node = "nick"
        THEN Just("UserInfo", from, "NicknameChanged",
                  [nr |-> nr, items |-> SelectSeq(items, LAMBDA item : item = items[Len(items)])])
        ELSE Just(Parsers[e.node], from, "AddedOrUpdated", [nr |-> nr, items |-> items])

handle_retracted_items(from, e, nr) ==
    IF e.node \in {"bookmark", "settings"} /\ "bad" \in SE!Range(e.items)
    THEN {}
    ELSE Just(Parsers[e.node], from,
              IF e.node = "nick" THEN "NicknameChanged" ELSE "Deleted",
              [nr |-> nr, items |-> <<>>])

handle_purge(from, e, nr) ==
    Just(Parsers[e.node], from, IF e.node = "nick" THEN "NicknameChanged" ELSE "Purged",
         [nr |-> nr, items |-> <<>>])

\* The events of one node in the message's order, up to the first error.
parse_pubsub_events(from, events, node) ==
    LET parsed == [i \in DOMAIN events |->
                    CASE events[i].node # node \/ node \notin DOMAIN Parsers -> {<<>>}
                      [] events[i].node = node /\ events[i].what = "published" ->
                            handle_added_or_updated_items(from, events[i], i)
                      [] events[i].node = node /\ events[i].what = "retracted" ->
                            handle_retracted_items(from, events[i], i)
                      [] events[i].node = node /\ events[i].what \in {"purge", "delete"} ->
                            handle_purge(from, events[i], i)
                      [] OTHER -> {<<>>}]
        failed == SE!SelectInSeq(parsed, LAMBDA r : r = {})
        upTo == IF failed = 0 THEN Len(parsed) ELSE failed - 1
    IN  SE!FlattenSeq([i \in 1 .. upTo |-> The(parsed[i])])

\* `parse_pubsub_event`: the events grouped by node, the nodes in any order. What
\* fails for one node is logged.
parse_pubsub_event(e) ==
    LET nodes == {e.data[i].node : i \in DOMAIN e.data}
    IN  {SE!FlattenSeq([i \in DOMAIN order |->
                            parse_pubsub_events(Bare(e.about), e.data, order[i])]) :
            order \in SE!SetToSeqs(nodes)}

\* Nobody listens to the bookmarks of other clients.
parse_xmpp_event(e) ==
    CASE e.mod = "BlockList" -> parse_block_list_event(e)
      [] e.mod \in {"Bookmark", "Bookmark2"} -> {<<>>}
      [] e.mod = "Caps" -> parse_caps_event(e)
      [] e.mod = "Chat" -> parse_chat_event(e)
      [] e.mod = "Client" -> Just("Connection", e.about, e.name, e.data)
      [] e.mod = "MUC" -> parse_muc_event(e)
      [] e.mod = "Ping" -> Just("Request", e.about, "Ping", e.data)
      [] e.mod = "Profile" -> parse_profile_event(e)
      [] e.mod = "PubSub" -> parse_pubsub_event(e)
      [] e.mod = "Roster" -> parse_roster_event(e)
      [] e.mod = "Status" -> parse_status_event(e)

-----------------------------------------------------------------------------
(* The queue of handlers.                                                     *)

Handlers ==
    <<"connection", "requests", "user_info", "messages", "rooms", "bookmarks",
      "contact_list", "block_list", "user_devices", "synced_room_settings">>

\* `handle_event` of every handler: the types of server events it takes.
Takes ==
    [connection |-> {"Connection"}, requests |-> {"Request"}, user_info |-> {"UserInfo"},
     messages |-> {"Message"}, rooms |-> {"Occupant", "Room", "UserStatus"},
     bookmarks |-> {"SidebarBookmark"}, contact_list |-> {"ContactList"},
     block_list |-> {"BlockList"}, user_devices |-> {"UserDevice"},
     synced_room_settings |-> {"SyncedRoomSettings"}]

\* The connection's handler lets the ping timer pass, and the rooms' acts on it.
Consumes(h, e) == e.type \in Takes[h] /\ e.what # "PingTimer"
ActsOn(h, e) == Consumes(h, e) \/ (h = "rooms" /\ e.what = "PingTimer")

\* `handle_server_event`: handler by handler until one consumes the event.
handle_server_event(e) ==
    LET last == SE!SelectInSeq(Handlers, LAMBDA h : Consumes(h, e))
        seen == SubSeq(Handlers, 1, IF last = 0 THEN Len(Handlers) ELSE last)
        acting == SelectSeq(seen, LAMBDA h : ActsOn(h, e))
    IN  [i \in DOMAIN acting |-> <<acting[i], e>>]

\* What the request handling service has the modules send.
Responses ==
    [Ping |-> "pong", LocalTime |-> "time", LastActivity |-> "last",
     Capabilities |-> "disco", SoftwareVersion |-> "version"]

\* `send_..._response` of the modules.
Answer(to, id, name) == [to |-> to, id |-> id, name |-> name]

\* `handle_request_event`.
Response(e) == Answer({e.about}, e.data.id, Responses[e.what])

\* `handle_roster_push` answers from within the module.
RosterAnswer(iq, id) ==
    IF IsRosterPush(iq) THEN <<Answer(iq.from, id, "result")>> ELSE <<>>

-----------------------------------------------------------------------------
Spawn(events) == [i \in DOMAIN events |-> [event |-> events[i], parsed |-> FALSE, todo |-> <<>>]]

Init ==
    /\ online = TRUE
    /\ arrived = <<>> /\ tasks = <<>> /\ handled = <<>> /\ sent = <<>>

\* One stanza of any kind arrives, or several requests.
OnlyQueries == arrived # <<>> /\ arrived[1].kind = "iq" /\ arrived[1].type = "get"
Arriving == IF arrived = <<>> THEN Stanzas ELSE IF OnlyQueries THEN Queries ELSE {}

\* `handle_stanza`, for what no pending request consumes.
Receive(s) ==
    LET id == Len(arrived) + 1
    IN  /\ online
        /\ Len(arrived) < MaxArrivals
        /\ arrived' = Append(arrived, s)
        /\ tasks' = tasks \o Spawn(ModuleEvents(s, id))
        /\ sent' = sent \o (IF s.kind = "iq" THEN RosterAnswer(s, id) ELSE <<>>)
        /\ UNCHANGED <<online, handled>>

\* The timer of the connection: the ping itself is a request of module RequestFutures.
PingTimer ==
    /\ online
    /\ OnlyQueries
    /\ \A i \in DOMAIN tasks : tasks[i].event.mod # "Client"
    /\ \A i \in DOMAIN handled : handled[i][2].type # "Connection"
    /\ tasks' = tasks \o Spawn(<<Event("Client", "PingTimer", Me, {})>>)
    /\ UNCHANGED <<online, arrived, handled, sent>>

Disconnected ==
    /\ online
    /\ OnlyQueries
    /\ online' = FALSE
    /\ tasks' = tasks \o Spawn(<<Event("Client", "Disconnected", Me, {})>>)
    /\ UNCHANGED <<arrived, handled, sent>>

\* The handler queue's `handle_event` up to its first await; an event that cannot
\* be parsed is logged.
Parse(i) ==
    LET results == parse_xmpp_event(tasks[i].event)
    IN  /\ ~tasks[i].parsed
        /\ \/ /\ results = {}
              /\ tasks' = SE!RemoveAt(tasks, i)
           \/ \E events \in results :
                 tasks' = [tasks EXCEPT ![i].parsed = TRUE, ![i].todo = events]
        /\ UNCHANGED <<online, arrived, handled, sent>>

\* The next server event of a task; a response cannot be sent without a connection.
Handle(i) ==
    LET e == tasks[i].todo[1]
    IN  /\ tasks[i].parsed /\ tasks[i].todo # <<>>
        /\ handled' = handled \o handle_server_event(e)
        /\ tasks' = [tasks EXCEPT ![i].todo = Tail(@)]
        /\ sent' = IF e.type = "Request" /\ online THEN Append(sent, Response(e)) ELSE sent
        /\ UNCHANGED <<online, arrived>>

Finish(i) ==
    /\ tasks[i].parsed /\ tasks[i].todo = <<>>
    /\ tasks' = SE!RemoveAt(tasks, i)
    /\ UNCHANGED <<online, arrived, handled, sent>>

Next ==
    \/ \E s \in Arriving : Receive(s)
    \/ PingTimer \/ Disconnected
    \/ \E i \in DOMAIN tasks : Parse(i) \/ Handle(i) \/ Finish(i)

Spec == Init /\ [][Next]_vars

-----------------------------------------------------------------------------
\* Every variable holds a value of its type.
TypeOK ==
    /\ online \in BOOLEAN
    /\ Len(arrived) <= MaxArrivals
    /\ \A i \in DOMAIN tasks : tasks[i].parsed \in BOOLEAN /\ Len(tasks[i].todo) <= 2
    /\ \A i \in DOMAIN handled : handled[i][1] \in DOMAIN Takes
    /\ \A i \in DOMAIN sent : sent[i].id \in DOMAIN arrived

Done == tasks = <<>>

\* What the client answers: requests with a sender, about the node for which the
\* capabilities were announced, and roster pushes, whoever sends them.
Expects(s) ==
    CASE s.kind # "iq" -> {}
      [] s.kind = "iq" /\ s.name = "roster" /\ s.items # <<>> -> {"result"}
      [] s.kind = "iq" /\ s.name \in {"time", "version", "last"} /\ s.from # {} -> {s.name}
      [] s.kind = "iq" /\ s.name = "ping" /\ s.from # {} -> {"pong"}
      [] s.kind = "iq" /\ s.name = "disco" /\ s.from # {} /\ s.node # {} -> {"disco"}
      [] OTHER -> {}

\* A request is answered once, by the response it asks for, with its id and to its
\* sender, whatever other tasks run in between (requests_event_handler.rs,
\* request_handling_service.rs and the `send_..._response` of the modules).
AnsweredOnce ==
    \A id \in DOMAIN arrived :
        LET answers == SelectSeq(sent, LAMBDA r : r.id = id)
            expected == Expects(arrived[id])
        IN  /\ Len(answers) <= 1
            /\ \A i \in DOMAIN answers :
                  {answers[i].name} = expected /\ answers[i].to = arrived[id].from
            /\ Done /\ online /\ expected # {} => Len(answers) = 1

Told(type) == SelectSeq(handled, LAMBDA h : h[2].type = type)

\* A message stanza has one meaning, although two modules and the parser look at it
\* independently (chat.rs, muc/mod.rs, event_parser/message.rs): a text arrives as one
\* message (of a private chat, whatever else is in it), what a room says of its
\* configuration or its topic arrives as that and never as a message, a chat state
\* never as a message and once, and a `normal` message never as one. An invitation
\* from a full address arrives as one; only a stanza with a direct and a mediated one
\* is told twice.
OneMeaning ==
    Done /\ Len(arrived) = 1 /\ arrived[1].kind = "message" =>
        LET m == arrived[1]
            message == Told("Message")
            room == Told("Room")
            isContent == m.from # {} /\ m.carbon = "none" /\ (m.chat_state => m.body)
            invites == (IF m.direct /\ IsFull(The(m.from)) THEN 1 ELSE 0)
                       + (IF m.x = "mediated" /\ IsFull(m.embedded[1]) THEN 1 ELSE 0)
            IsOnly(what) == message = <<>> /\ Len(room) = 1 /\ room[1][2].what = what
        IN  /\ Len(message) <= 1 /\ (message = <<>> \/ room = <<>>)
            /\ isContent /\ m.type = "chat" /\ m.body => Len(message) = 1
            /\ isContent /\ m.type = "groupchat" =>
                  /\ m.x = "config" => IsOnly("RoomConfigChanged")
                  /\ m.x \notin {"config", "bad", "mediated"} /\ m.subject # {} =>
                        IsOnly("RoomTopicChanged")
                  /\ m.x \notin {"config", "bad", "mediated"} /\ m.subject = {} /\ m.body =>
                        Len(message) = 1
            /\ ~m.body /\ m.chat_state => message = <<>>
            /\ m.from # {} /\ m.type = "normal" =>
                  /\ message = <<>>
                  /\ Len(SelectSeq(room, LAMBDA h : h[2].what = "ReceivedInvitation")) = invites
            /\ m.from # {} /\ IsFull(The(m.from)) /\ m.chat_state =>
                  /\ Len(Told("UserStatus")) = 1
                  /\ Told("UserStatus")[1][2].data.occupant <=> m.type = "groupchat"

\* The pushes of the nodes with a parser arrive: every well-formed item of every
\* event, in order within a node, whatever is wrong with the other items or nodes of
\* the message. Only the events of the same node after one with a malformed
\* identifier are lost, and all when the first node is another module's
\* (generic_pub_sub_parser.rs, event_parser/pubsub/mod.rs, mods/pubsub.rs).
PushesArrive ==
    Done /\ Len(arrived) = 1 /\ arrived[1].kind = "pubsub" =>
        LET events == arrived[1].events
            Failed(i) == events[i].what = "retracted" /\ "bad" \in SE!Range(events[i].items)
                         /\ events[i].node \in {"bookmark", "settings"}
            Of(i) == {k \in DOMAIN handled : handled[k][2].type # "UserStatus"
                                             /\ handled[k][2].data.nr = i}
            Expected(i) ==
                /\ events[i].node \in DOMAIN Parsers
                /\ events[i].what # "configuration"
                /\ events[1].node \notin IgnoredNodes
                /\ \A j \in 1 .. i : events[j].node = events[i].node => ~Failed(j)
        IN  \A i \in DOMAIN events : Expected(i) =>
                \E k \in DOMAIN handled :
                    /\ Of(i) = {k}
                    /\ events[i].what = "published" /\ events[i].node # "nick" =>
                          Len(handled[k][2].data.items) =
                          Len(SelectSeq(events[i].items, LAMBDA item : item = "good"))
                    /\ \A j \in 1 .. (i - 1) : events[j].node = events[i].node =>
                          \A l \in Of(j) : l < k
=============================================================================
