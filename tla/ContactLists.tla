---------------------------- MODULE ContactLists ----------------------------
(***************************************************************************)
(* The contact list, the block list and the presence subscription requests *)
(* of the account: the caching repositories (infra/contacts), the domain   *)
(* services that change a list on the server and then in the cache, and    *)
(* the handlers of the pushes with which the server reports a change of    *)
(* any resource.  Loading a list is split at its await: the cache is       *)
(* tested, the request is sent, and the answer replaces the cache.         *)
(*                                                                         *)
(* Both lists are functions from the users to what the list says of them;  *)
(* they do not meet, so that a behaviour is about one of them.             *)
(* A step is the code of one task between two awaits.  In a browser tasks  *)
(* run in the order in which they were woken, before the next stanza is    *)
(* read; with Threads they run in any order.                               *)
(***************************************************************************)
EXTENDS Naturals, Sequences, SequencesExt

CONSTANTS
    Users,
    Threads,        \* tasks run on several threads (not in a browser)
    MaxCalls,       \* bound: calls of the application
    MaxChanges,     \* bound: changes made by contacts and other resources
    MaxReconnects,  \* bound: times the connection is lost and set up again
    MaxTasks        \* bound: calls and handlers that run at the same time

Absent == "absent"
NotLoaded == <<>>
Lists == {"contacts", "blocked"}

\* A roster item on the server: its subscription and whether we have asked.
Items == {"none", "none+ask", "to", "from", "from+ask", "both"}

\* PresenceSubscription::from(&Item).
PresenceSubscription(item) ==
    CASE item = Absent -> Absent
      [] item = "none+ask" -> "Requested"
      [] item = "none" -> "None"
      [] item = "both" -> "Mutual"
      [] item \in {"from", "from+ask"} -> "TheyFollow"
      [] item = "to" -> "WeFollow"

Subscriptions == {PresenceSubscription(i) : i \in Items}
Entries == [contacts |-> Subscriptions \cup {Absent},
            blocked |-> {"blocked", Absent}]

\* What a task does to a list: "get" (for the application or for "connect"),
\* "set" to a value, "delete" or "clear".  A call goes to the server first; a
\* push comes from there.  An approval answers a request and adds the contact.
Operation == [act : {"connect", "get", "set", "delete", "clear", "approve"},
              user : Users, val : {"blocked"} \cup Subscriptions]

VARIABLES
    list,       \* the list this behaviour is about
    roster,     \* the server's list: roster items or blocked users
    up,         \* stanzas on their way to the server
    down,       \* stanzas on their way to the client
    cache,      \* CachingContactsRepository::contacts and
                \* CachingBlockListRepository::blocked_users
    requests,   \* PresenceSubRequestsRepository::requests
    tasks,      \* calls and handlers: what a task does, where it is ("done"
                \* when there is none) and the list it has been sent
    ready,      \* tasks that have been woken, in that order
    view,       \* history: the list the application read last; NotLoaded once
                \* it has been told of a change since
    bare,       \* history: connect has not loaded the list, it was cleared
                \* since, or a deletion from the block list met no cache
    interested, \* the server pushes changes: the list was requested
    calls, changes, reconnects

wires == <<up, down>>
server == <<list, roster, interested>>
counters == <<calls, changes, reconnects>>
vars == <<server, wires, cache, requests, tasks, ready, view, bare, counters>>

EmptyList == [u \in Users |-> Absent]

\* What others may make of an entry.
Elsewhere(l) == IF l = "contacts" THEN {Absent, "none", "to", "both"}
                ELSE {Absent, "blocked"}

\* A slot for a task, and the task's end.
Slots == 1 .. MaxTasks
Task(op, at) == [op |-> op, at |-> at, got |-> EmptyList]
LoadInConnect == [act |-> "connect", user |-> CHOOSE u \in Users : TRUE, val |-> "None"]
NoTask == Task(LoadInConnect, "done")
Connecting == [t \in Slots |-> IF t = 1 THEN Task(LoadInConnect, "woken") ELSE NoTask]
Connected == \A t \in Slots : tasks[t].op.act = "connect" => tasks[t].at = "done"
IsNew(t) == tasks[t].at = "done" /\ \A s \in 1 .. t - 1 : tasks[s].at # "done"
Begin(t, op, at) == IsNew(t) /\ tasks' = [tasks EXCEPT ![t] = Task(op, at)]
End(t) == tasks' = [tasks EXCEPT ![t] = NoTask]

Init ==
    /\ list \in Lists
    /\ roster \in [Users -> Elsewhere(list)]
    /\ up = <<>> /\ down = <<>>
    /\ cache = NotLoaded
    /\ requests = {}
    /\ tasks = Connecting /\ ready = <<1>>
    /\ view = NotLoaded
    /\ bare = TRUE
    /\ interested = FALSE
    /\ calls = 0 /\ changes = 0 /\ reconnects = 0

-----------------------------------------------------------------------------
(***************************************************************************)
(* The repositories.                                                       *)
(***************************************************************************)

\* Deleting from the block list is all that does not load the list first.
LoadsFirst(op) == list = "contacts" \/ op.act \in {"connect", "get", "set"}

\* The cache after an operation on the cache c.
Changed(op, c) ==
    LET entries == IF c = NotLoaded THEN EmptyList ELSE c
    IN CASE op.act \in {"connect", "get"} -> c
         [] op.act = "set" -> [entries EXCEPT ![op.user] = op.val]
         [] op.act = "delete" -> [entries EXCEPT ![op.user] = Absent]
         [] op.act = "clear" -> IF c = NotLoaded THEN c ELSE EmptyList

ReportsNewOnly(op, c) ==
    op.act \notin {"connect", "get"} /\ (c = NotLoaded \/ c[op.user] = Absent)

\* What the repository returns: the list has changed.
Reports(op, c) ==
    /\ op.act \notin {"connect", "get"}
    /\ IF c = NotLoaded
       THEN op.act = "set"
       ELSE Changed(op, c) # c

\* The operation on the cache c, and the event that announces a change.
ApplyTo(t, c) ==
    LET op == tasks[t].op IN
    /\ cache' = Changed(op, c)
    /\ view' = CASE op.act = "get" -> c
                 [] Reports(op, c) -> NotLoaded
                 [] OTHER -> view
    /\ bare' = CASE op.act = "connect" -> FALSE
                 [] op.act \in {"delete", "clear"} /\ c = NotLoaded -> TRUE
                 [] OTHER -> bare

\* get_all, set, delete, delete_all up to the request for the list, or done.
\* load_contacts_if_needed, load_block_list_if_needed: the test and the send.
AskOrApply(t, sent) ==
    LET op == tasks[t].op IN
    IF LoadsFirst(op) /\ cache = NotLoaded
    THEN /\ tasks' = [tasks EXCEPT ![t].at = "list"]
         /\ up' = up \o sent \o <<[kind |-> "load", task |-> t]>>
         /\ UNCHANGED <<cache, view, bare>>
    ELSE /\ End(t)
         /\ up' = up \o sent
         /\ ApplyTo(t, cache)

\* The rest of load_..._if_needed: the answer replaces the cache, whatever has
\* happened to it since the request, and the operation follows.
StoreAndApply(t) ==
    /\ End(t)
    /\ ApplyTo(t, tasks[t].got)
    /\ UNCHANGED up

-----------------------------------------------------------------------------
(***************************************************************************)
(* The application's calls (ContactListDomainService,                      *)
(* BlockListDomainService).  Presences are sent without waiting.           *)
(***************************************************************************)
Presence(type, u) == [kind |-> type, user |-> u]

\* The IQ set with which a call changes the list of the server.
Set(t, op) == [kind |-> "iq", task |-> t, op |-> op]

\* add_contact preapproves and asks, remove_contact revokes, once the server
\* has changed the roster.
AfterServer(op) ==
    CASE list = "contacts" /\ op.act = "set" ->
             <<Presence("subscribed", op.user), Presence("subscribe", op.user)>>
      [] list = "contacts" /\ op.act = "delete" ->
             <<Presence("unsubscribed", op.user)>>
      [] OTHER -> <<>>

\* load_contacts, load_block_list: only the repository.
Get(t, op) ==
    /\ op.act = "get"
    /\ Begin(t, op, "woken")
    /\ ready' = Append(ready, t)
    /\ UNCHANGED <<up, requests>>

\* add_contact, remove_contact, block_user, unblock_user, clear_block_list up to
\* the first await; the subscription of an added contact is Requested.
Change(t, op) ==
    /\ op.act \in {"set", "delete", "clear"}
    /\ Begin(t, op, "server")
    /\ up' = Append(up, Set(t, op))
    /\ UNCHANGED <<requests, ready>>

\* approve_presence_sub_request: answers, forgets the request, adds the contact.
ApprovePresenceSubRequest(t, op) ==
    /\ op.act = "approve" /\ op.user \in requests
    /\ LET add == [op EXCEPT !.act = "set", !.val = "Requested"]
       IN /\ Begin(t, add, "server")
          /\ up' = up \o <<Presence("subscribed", op.user), Set(t, add)>>
    /\ requests' = requests \ {op.user}
    /\ UNCHANGED ready

\* deny_presence_sub_request.
DenyPresenceSubRequest(u) ==
    /\ list = "contacts"
    /\ Connected /\ u \in requests /\ calls < MaxCalls
    /\ calls' = calls + 1
    /\ up' = Append(up, Presence("unsubscribed", u))
    /\ requests' = requests \ {u}
    /\ UNCHANGED <<server, down, cache, tasks, ready, view, bare, changes, reconnects>>

\* The calls there are for a list.
CallsOf(l) ==
    {op \in Operation :
        CASE op.act = "set" -> op.val = IF l = "contacts" THEN "Requested" ELSE "blocked"
          [] op.act = "clear" -> l = "blocked" /\ op.val = "None"
          [] op.act = "approve" -> l = "contacts" /\ op.val = "None"
          [] OTHER -> op.act # "connect" /\ op.val = "None"}

Call(t, op) ==
    /\ Connected /\ calls < MaxCalls
    /\ calls' = calls + 1
    /\ Get(t, op) \/ Change(t, op) \/ ApprovePresenceSubRequest(t, op)
    /\ UNCHANGED <<server, down, cache, view, bare, changes, reconnects>>

\* request_presence_sub: asks again, the cache is left to the push.
RequestPresenceSub(u) ==
    /\ list = "contacts"
    /\ Connected /\ calls < MaxCalls
    /\ calls' = calls + 1
    /\ up' = Append(up, Presence("subscribe", u))
    /\ UNCHANGED <<server, down, cache, requests, tasks, ready, view, bare,
                   changes, reconnects>>

-----------------------------------------------------------------------------
(***************************************************************************)
(* The client reads a stanza: an answer wakes its task, a push becomes an  *)
(* event that is handled by a task of its own.                             *)
(***************************************************************************)

\* Mutant: the subscription of the item is stored as the server names it.
OfPushAsServed(s) ==
    [user |-> s.user,
     act |-> CASE s.val = "all" -> "clear"
               [] s.val = Absent -> "delete"
               [] OTHER -> "set",
     val |-> IF s.val \in {"all", Absent} THEN "None" ELSE s.val]

\* Roster::handle_iq_stanza, BlockList::handle_iq_stanza and the handlers:
\* what the push of one item does to the repository.
OfPush(s) ==
    [user |-> s.user,
     act |-> CASE s.val = "all" -> "clear"
               [] s.val = Absent -> "delete"
               [] OTHER -> "set",
     val |-> CASE s.val \in {"all", Absent} -> "None"
               [] list = "contacts" -> PresenceSubscription(s.val)
               [] OTHER -> s.val]

ReceivePush(t, s) ==
    /\ s.kind = "push"
    /\ Begin(t, OfPush(s), "woken")
    /\ ready' = Append(ready, t)
    /\ UNCHANGED requests

\* Roster::handle_presence_stanza and handle_presence_sub_request.
ReceiveSubscribe(s) ==
    /\ s.kind = "asked"
    /\ requests' = requests \cup {s.user}
    /\ UNCHANGED <<tasks, ready>>

ReceiveAnswer(s) ==
    /\ s.kind = "answer"
    /\ IF s.ok
       THEN /\ tasks' = [tasks EXCEPT ![s.task].got = s.got]
            /\ ready' = Append(ready, s.task)
       ELSE End(s.task) /\ UNCHANGED ready
    /\ UNCHANGED requests

Receive ==
    /\ down # <<>>
    /\ Threads \/ ready = <<>>
    /\ LET s == Head(down)
       IN (\E t \in Slots : ReceivePush(t, s)) \/ ReceiveSubscribe(s) \/ ReceiveAnswer(s)
    /\ down' = Tail(down)
    /\ UNCHANGED <<server, up, cache, view, bare, counters>>

\* A woken task runs to its next await.
Run(t) ==
    /\ ready # <<>>
    /\ IF Threads THEN t \in Range(ready) ELSE t = Head(ready)
    /\ ready' = SelectSeq(ready, LAMBDA r : r # t)
    /\ CASE tasks[t].at = "woken" -> AskOrApply(t, <<>>)
         [] tasks[t].at = "server" -> AskOrApply(t, AfterServer(tasks[t].op))
         [] tasks[t].at = "list" -> StoreAndApply(t)
    /\ UNCHANGED <<server, down, requests, counters>>

\* The connection is lost, its requests fail, and connect() sets up another:
\* reset_before_reconnect of both domain services.
Reconnect ==
    /\ reconnects < MaxReconnects
    /\ reconnects' = reconnects + 1
    /\ ready = <<>> /\ ready' = <<1>>
    /\ up' = <<>> /\ down' = <<>>
    /\ tasks' = Connecting
    /\ cache' = NotLoaded
    /\ view' = NotLoaded
    /\ bare' = TRUE
    /\ interested' = FALSE
    /\ UNCHANGED <<list, roster, requests, calls, changes>>

\* clear_cache of both domain services (CacheService).
ClearCache ==
    /\ Connected /\ calls < MaxCalls
    /\ calls' = calls + 1
    /\ cache' = NotLoaded
    /\ view' = NotLoaded
    /\ requests' = {}
    /\ bare' = TRUE
    /\ UNCHANGED <<server, wires, tasks, ready, changes, reconnects>>

-----------------------------------------------------------------------------
(***************************************************************************)
(* The server (external): RFC 6121 and XEP-0191, as far as the client uses *)
(* them.  Once the list has been requested on a connection every change of *)
(* an item is pushed, before or after the answer.                          *)
(***************************************************************************)
Push(u, val) == [kind |-> "push", user |-> u, val |-> val]
Pushed(u, val) == IF interested THEN <<Push(u, val)>> ELSE <<>>
Answer(t, ok, got) == [kind |-> "answer", task |-> t, ok |-> ok, got |-> got]

\* What the server says of a user, as the client represents it.
Served(u) == IF list = "contacts" THEN PresenceSubscription(roster[u]) ELSE roster[u]

\* The roster item after a presence of ours.
AfterPresence(type, item) ==
    CASE type = "subscribe" /\ item \in {Absent, "none"} -> "none+ask"
      [] type = "subscribe" /\ item = "from" -> "from+ask"
      [] type = "unsubscribed" /\ item = "from" -> "none"
      [] type = "unsubscribed" /\ item = "both" -> "to"
      [] type = "unsubscribed" /\ item = "from+ask" -> "none+ask"
      [] OTHER -> item

ServePresence(s) ==
    /\ s.kind \in {"subscribe", "subscribed", "unsubscribed"}
    /\ LET item == AfterPresence(s.kind, roster[s.user])
       IN /\ roster' = [roster EXCEPT ![s.user] = item]
          /\ down' = IF item = roster[s.user] THEN down
                     ELSE down \o Pushed(s.user, item)
    /\ UNCHANGED interested

ServeLoad(s) ==
    /\ s.kind = "load"
    /\ \/ /\ down' = Append(down, Answer(s.task, TRUE, [u \in Users |-> Served(u)]))
          /\ interested' = TRUE
       \/ /\ down' = Append(down, Answer(s.task, FALSE, EmptyList))
          /\ UNCHANGED interested
    /\ UNCHANGED roster

\* The list after an IQ set: an item that is there stays as it is.
AfterSet(op) ==
    CASE op.act = "set" /\ list = "blocked" -> [roster EXCEPT ![op.user] = "blocked"]
      [] op.act = "set" -> [roster EXCEPT ![op.user] = IF @ = Absent THEN "none" ELSE @]
      [] op.act = "delete" -> [roster EXCEPT ![op.user] = Absent]
      [] op.act = "clear" -> EmptyList

ServeSet(s) ==
    /\ s.kind = "iq"
    /\ \/ /\ down' = Append(down, Answer(s.task, FALSE, EmptyList))
          /\ UNCHANGED roster
       \/ LET ok == <<Answer(s.task, TRUE, EmptyList)>>
              push == Pushed(s.op.user,
                             IF s.op.act = "clear" THEN "all" ELSE roster'[s.op.user])
          IN /\ roster' = AfterSet(s.op)
             /\ down' \in {down \o push \o ok, down \o ok \o push}
    /\ UNCHANGED interested

Serve ==
    /\ up # <<>>
    /\ ServePresence(Head(up)) \/ ServeLoad(Head(up)) \/ ServeSet(Head(up))
    /\ up' = Tail(up)
    /\ UNCHANGED <<list, cache, requests, tasks, ready, view, bare, counters>>

\* A contact answers, asks or leaves, or another resource changes the list.
ChangeElsewhere ==
    /\ changes < MaxChanges
    /\ changes' = changes + 1
    /\ \E u \in Users :
         \/ \E i \in Elsewhere(list) \ {roster[u]} :
              /\ roster' = [roster EXCEPT ![u] = i]
              /\ down' = down \o Pushed(u, i)
         \/ /\ list = "contacts"
            /\ down' = Append(down, [kind |-> "asked", user |-> u])
            /\ UNCHANGED roster
    /\ UNCHANGED <<list, interested, up, cache, requests, tasks, ready, view, bare, calls, reconnects>>

Next ==
    \/ \E t \in Slots, op \in CallsOf(list) : Call(t, op)
    \/ \E u \in Users : DenyPresenceSubRequest(u) \/ RequestPresenceSub(u)
    \/ \E t \in Slots : Run(t)
    \/ Receive \/ Reconnect \/ ClearCache \/ Serve \/ ChangeElsewhere

Spec == Init /\ [][Next]_vars

-----------------------------------------------------------------------------
(***************************************************************************)
(* Properties.                                                             *)
(***************************************************************************)

\* Nothing is on its way and no task can run.
Settled == up = <<>> /\ down = <<>> /\ ready = <<>>

\* entries says what the server says, but for a contact that was added although
\* it was there: add_contact stores Requested, and the server pushes nothing.
Agrees(entries) ==
    \A u \in Users : \/ entries[u] = Served(u)
                     \/ list = "contacts" /\ entries[u] = "Requested"

\* The type invariant.
TypeOK ==
    /\ roster \in [Users -> Items \cup {"blocked", Absent}]
    /\ {cache, view} \subseteq {NotLoaded} \cup [Users -> Entries[list]]
    /\ requests \subseteq Users
    /\ Range(ready) \subseteq {t \in Slots : tasks[t].at # "done"}
    /\ {bare, interested} \subseteq BOOLEAN

\* Once every call and push has been dealt with, a cached list is the server's:
\* no push is lost to a list that was requested before it and stored after it
\* (load_contacts_if_needed, load_block_list_if_needed), and no local change is
\* left that the server has not made.  Not so while there is no list since connect
\* failed to load it or it was cleared, as a push may then wait for the list and be
\* applied after a later one, nor after a deletion that met no cache
\* (CachingBlockListRepository::delete, delete_all).
CacheAgrees == Settled /\ ~bare => cache # NotLoaded /\ Agrees(cache)

\* The list which the application has read is still the server's, or it has been
\* told to read it again: a change that arrives with a loaded list, and is then
\* no change for the repository, is never kept from an application that has seen
\* the list without it (the `if repo.set(..) { dispatch_event }` of the services).
ReadersAreTold == Settled /\ ~bare /\ view # NotLoaded => Agrees(view)

=============================================================================
