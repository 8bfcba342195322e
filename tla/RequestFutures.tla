--------------------------- MODULE RequestFutures ---------------------------
(***************************************************************************)
(* The request layer of prose-xmpp: ClientInner and ModuleContext          *)
(* (client/client.rs, client/module_context.rs), the futures handed to the *)
(* callers (util/request_future.rs and its reducers) and the tokio         *)
(* connection that feeds them (connector/xmpp_rs.rs).                      *)
(*                                                                         *)
(* Every request is used once, so its identity stands for the IQ id, the   *)
(* query id or the message id it carries.  The vector `mod_futures` is     *)
(* kept as the position at which each request was pushed: entries are only *)
(* appended and removed, so the vector is the listed requests in the order *)
(* of their positions.                                                     *)
(***************************************************************************)
EXTENDS Naturals

CONSTANTS
    IqRequests,     \* plain IQs (RequestFuture::new_iq_request)
    PingRequests,   \* the IQs of Ping::send_ping_to_server
    MamRequests,    \* archive queries (new_mam_request)
    JoinRequests,   \* room joins (new_join_room_request)
    MucRequests,    \* groupchat messages awaiting their echo
    Rooms,          \* bare JIDs of rooms
    RoomOf,         \* the room a MAM, join or groupchat request goes to
    Nobody,         \* no message id / an occupant that is not us
    Timeout,        \* TIMEOUT_DURATION in clock ticks
    MaxConnections, \* bound: connections opened in a behaviour
    MaxArchived     \* bound: archived messages sent for one query

Requests == IqRequests \cup PingRequests \cup MamRequests
              \cup JoinRequests \cup MucRequests

RoomRequests == MamRequests \cup JoinRequests \cup MucRequests

Connections == 1 .. MaxConnections

ASSUME ConstantsAssumption ==
    /\ Timeout \in Nat \ {0}
    /\ MaxConnections \in Nat
    /\ MaxArchived \in Nat
    /\ RoomOf \in [RoomRequests -> Rooms]
    /\ Nobody \notin Requests
    /\ IqRequests \cap PingRequests = {}
    /\ (IqRequests \cup PingRequests) \cap RoomRequests = {}
    /\ MamRequests \cap (JoinRequests \cup MucRequests) = {}
    /\ JoinRequests \cap MucRequests = {}

(***************************************************************************)
(* Results.  "xmpp" is any RequestError built from an error stanza,        *)
(* "unexpected" a reply the reducer rejects, "generic" a failed write.     *)
(***************************************************************************)
Replies == {"ok", "xmpp", "unexpected"}

Results == Replies \cup {"timedout", "disconnected", "generic"}

\* The reducer's value: whether it is still there, whether a join has seen its
\* self-presence, and how many messages an archive query has collected.
Values == [present : BOOLEAN, self : BOOLEAN, collected : Nat]

(***************************************************************************)
(* Elements read from the stream, reduced to what the reducers look at.    *)
(* An archived message comes from the room of its query; a presence of     *)
(* occupant r has the nickname that join r asked for.                      *)
(***************************************************************************)
Elements ==
    [type : {"iq"}, id : Requests,
     payload : {"result", "malformed", "empty", "error", "request"}]
    \cup [type : {"archived"}, query : MamRequests]
    \cup [type : {"message"}, room : Rooms, id : MucRequests \cup {Nobody},
          subject : BOOLEAN]
    \cup [type : {"presence"}, room : Rooms,
          occupant : JoinRequests \cup {Nobody}, error : BOOLEAN]

VARIABLES
    pos,        \* mod_futures: 0, or the number of the push that listed it
    pushes,     \* number of pushes so far
    age,        \* now - timestamp of the entry, capped at Timeout
    value,      \* ReducerFutureState::value
    result,     \* ReducerFutureState::result
    waker,      \* ReducerFutureState::waker is set
    woken,      \* the awaiting task is scheduled to poll
    pc,         \* where the task that issues the request is
    out,        \* what the caller got
    taken,      \* entries taken by a running cancel_pending_futures
    timerWakes, \* wakers a running purge_expired_futures still has to wake
    connection, \* ModuleContextInner::connection, 0 for None
    opened,     \* number of connections made
    reader,     \* the read task of a connection is running
    writer,     \* the write task of a connection is running
    client,     \* where the caller of connect()/disconnect() is
    panicked,   \* Connection::disconnect unwrapped a send error
    sentOn,     \* the connection a request was written to, 0 for none
    answered,   \* history: requests whose reply was read while they waited
    archived    \* history: archived messages read for a query

futures == <<pos, pushes, age, value, result, waker, woken, pc, out>>
cancels == <<taken, timerWakes>>
streams == <<connection, opened, reader, writer, client, panicked>>
history == <<sentOn, answered, archived>>
vars == <<futures, cancels, streams, history>>

\* The caller of connect()/disconnect() and the read tasks run
\* cancel_pending_futures.
Cancellers == {0} \cup Connections

Listed == {r \in Requests : pos[r] # 0}

Init ==
    /\ pos = [r \in Requests |-> 0]
    /\ pushes = 0
    /\ age = [r \in Requests |-> 0]
    /\ value = [r \in Requests |->
                  [present |-> TRUE, self |-> FALSE, collected |-> 0]]
    /\ result = [r \in Requests |-> "none"]
    /\ waker = [r \in Requests |-> FALSE]
    /\ woken = [r \in Requests |-> FALSE]
    /\ pc = [r \in Requests |-> "idle"]
    /\ out = [r \in Requests |-> "none"]
    /\ taken = [a \in Cancellers |-> {}]
    /\ timerWakes = {}
    /\ connection = 0
    /\ opened = 0
    /\ reader = [c \in Connections |-> FALSE]
    /\ writer = [c \in Connections |-> FALSE]
    /\ client = "idle"
    /\ panicked = FALSE
    /\ sentOn = [r \in Requests |-> 0]
    /\ answered = {}
    /\ archived = [r \in Requests |-> 0]

-----------------------------------------------------------------------------
(***************************************************************************)
(* Reducers: what a pending future does with an element.  "pass" hands it  *)
(* on, "absorb" consumes it and stays pending, anything else is the result *)
(* the future resolves with.                                               *)
(***************************************************************************)
IqReducer(r, e) ==
    CASE e.type # "iq" -> "pass"
      [] e.type = "iq" /\ e.id # r -> "pass"
      [] e.type = "iq" /\ e.id = r /\ e.payload = "error" -> "xmpp"
      [] e.type = "iq" /\ e.id = r /\ e.payload = "request" -> "unexpected"
      [] OTHER -> "ok"

MamReducer(r, e) ==
    CASE e.type = "archived" /\ e.query = r -> "absorb"
      [] e.type = "iq" /\ e.id = r /\ e.payload = "error" -> "xmpp"
      [] e.type = "iq" /\ e.id = r /\ e.payload = "malformed" -> "unexpected"
      [] e.type = "iq" /\ e.id = r /\ e.payload = "result" -> "ok"
      [] OTHER -> "pass"

\* Mutant: the join consumes the archived messages of its room as well.
JoinReducerTakesArchive(r, e) ==
    CASE e.type = "presence" /\ e.room = RoomOf[r] ->
           IF e.error /\ e.occupant = r THEN "xmpp" ELSE "absorb"
      [] e.type = "message" /\ e.room = RoomOf[r] ->
           IF e.subject THEN "ok" ELSE "absorb"
      [] e.type = "archived" /\ RoomOf[e.query] = RoomOf[r] -> "absorb"
      [] OTHER -> "pass"

JoinReducer(r, e) ==
    CASE e.type = "presence" /\ e.room = RoomOf[r] ->
           IF e.error /\ e.occupant = r THEN "xmpp" ELSE "absorb"
      [] e.type = "message" /\ e.room = RoomOf[r] ->
           IF e.subject THEN "ok" ELSE "absorb"
      [] OTHER -> "pass"

MucReducer(r, e) ==
    IF e.type = "message" /\ e.id = r /\ e.room = RoomOf[r]
    THEN "ok" ELSE "pass"

Reduce(r, e) ==
    CASE r \in MamRequests -> MamReducer(r, e)
      [] r \in JoinRequests -> JoinReducer(r, e)
      [] r \in MucRequests -> MucReducer(r, e)
      [] OTHER -> IqReducer(r, e)

\* What an absorbed element leaves in the reducer's value.
Absorbed(r, e) ==
    [value[r] EXCEPT
       !.self = @ \/ (r \in JoinRequests /\ e.type = "presence"
                       /\ e.occupant = r),
       !.collected = IF r \in MamRequests THEN @ + 1 ELSE @]

\* ReducerFutureState::handle_element: a future that has its result already
\* swallows the element.
HandleElement(r, e) ==
    IF result[r] # "none" THEN result[r] ELSE Reduce(r, e)

IsReply(r, e) == Reduce(r, e) \in Replies

-----------------------------------------------------------------------------
(***************************************************************************)
(* The issuing task.                                                       *)
(***************************************************************************)

\* send_stanza_with_future, up to the push: the entry is listed before the
\* stanza is written.  Server pings are issued by the ping timer only.
SendStanzaWithFuture(r) ==
    /\ pc[r] = "idle"
    /\ r \in PingRequests => opened > 0
    /\ pc' = [pc EXCEPT ![r] = "registered"]
    /\ pos' = [pos EXCEPT ![r] = pushes + 1]
    /\ pushes' = pushes + 1
    /\ UNCHANGED <<age, value, result, waker, woken, out>>
    /\ UNCHANGED <<cancels, streams, history>>

\* ModuleContextInner::send_stanza succeeds: the packet is queued for the
\* write task, whatever has become of the stream since.
SendStanza(r) ==
    /\ pc[r] = "registered"
    /\ connection # 0
    /\ writer[connection]
    /\ pc' = [pc EXCEPT ![r] = "awaiting"]
    /\ woken' = [woken EXCEPT ![r] = TRUE]
    /\ sentOn' = [sentOn EXCEPT ![r] = connection]
    /\ UNCHANGED <<pos, pushes, age, value, result, waker, out>>
    /\ UNCHANGED <<cancels, streams, answered, archived>>

\* send_stanza fails: the entry is removed by its id and the caller gets
\* RequestFuture::failed.  The state of the dropped future may still be in
\* the hands of a cancel_pending_futures; nobody can see it any more.
SendStanzaFails(r) ==
    /\ pc[r] = "registered"
    /\ IF connection = 0 THEN TRUE ELSE ~writer[connection]
    /\ pc' = [pc EXCEPT ![r] = "awaiting"]
    /\ pos' = [pos EXCEPT ![r] = 0]
    /\ taken' = [a \in Cancellers |-> taken[a] \ {r}]
    /\ value' = [value EXCEPT ![r].present = FALSE]
    /\ result' = [result EXCEPT
                    ![r] = IF connection = 0 THEN "disconnected" ELSE "generic"]
    /\ waker' = [waker EXCEPT ![r] = FALSE]
    /\ woken' = [woken EXCEPT ![r] = TRUE]
    /\ UNCHANGED <<pushes, age, out, timerWakes>>
    /\ UNCHANGED <<streams, history>>

\* RequestFuture::poll without a result: remember the waker.
PollPending(r) ==
    /\ pc[r] = "awaiting"
    /\ result[r] = "none"
    /\ waker' = [waker EXCEPT ![r] = TRUE]
    /\ woken' = [woken EXCEPT ![r] = FALSE]
    /\ UNCHANGED <<pos, pushes, age, value, result, pc, out>>
    /\ UNCHANGED <<cancels, streams, history>>

\* RequestFuture::poll with a result: the caller gets it.
PollReady(r) ==
    /\ pc[r] = "awaiting"
    /\ result[r] # "none"
    /\ out' = [out EXCEPT ![r] = result[r]]
    /\ result' = [result EXCEPT ![r] = "none"]
    /\ value' = [value EXCEPT ![r].present = @ /\ result[r] # "ok"]
    /\ pc' = [pc EXCEPT ![r] = "done"]
    /\ woken' = [woken EXCEPT ![r] = FALSE]
    /\ UNCHANGED <<pos, pushes, age, waker>>
    /\ UNCHANGED <<cancels, streams, history>>

\* A task may be polled without having been woken by this future (it awaits
\* several at once).
Poll(r) == PollPending(r) \/ PollReady(r)

-----------------------------------------------------------------------------
(***************************************************************************)
(* The tasks of a connection.                                              *)
(***************************************************************************)

\* What the server may send over c now.  It answers what was written to c,
\* and keeps the order documented with JoinRoomState: self-presence before
\* the subject, the subject before live messages.
Expected(c, e) ==
    /\ e.type = "iq" => sentOn[e.id] = c
    /\ e.type = "archived" =>
         sentOn[e.query] = c /\ archived[e.query] < MaxArchived
    /\ (e.type = "presence" /\ e.occupant # Nobody) =>
         sentOn[e.occupant] = c /\ RoomOf[e.occupant] = e.room
    /\ (e.type = "message" /\ e.id # Nobody) =>
         /\ sentOn[e.id] = c /\ RoomOf[e.id] = e.room /\ ~e.subject
         /\ \A j \in JoinRequests \cap Listed :
              RoomOf[j] = e.room => pos[e.id] < pos[j]
    /\ (e.type = "message" /\ e.subject) =>
         \A j \in JoinRequests \cap Listed :
           RoomOf[j] = e.room => value[j].self

\* visit_futures_with_element: the futures are asked in list order, the
\* first one that does not pass the element on gets it.
Takes(r, e) ==
    /\ r \in Listed
    /\ HandleElement(r, e) # "pass"
    /\ \A q \in Listed : pos[q] < pos[r] => HandleElement(q, e) = "pass"

\* Requests that wait for the reply e, as their caller sees it.
Waiting(r) ==
    /\ pc[r] \in {"registered", "awaiting"}
    /\ result[r] = "none"
    /\ \A a \in Cancellers : r \notin taken[a]

Remember(e) ==
    /\ answered' = answered \cup {r \in Requests : Waiting(r) /\ IsReply(r, e)}
    /\ archived' = [r \in Requests |->
                      IF e.type = "archived" /\ e.query = r /\ Waiting(r)
                      THEN archived[r] + 1 ELSE archived[r]]
    /\ UNCHANGED sentOn

\* handle_stanza: the element stays with a future that keeps collecting.
StanzaAbsorbed(c, e, r) ==
    /\ reader[c]
    /\ Expected(c, e)
    /\ Takes(r, e)
    /\ HandleElement(r, e) = "absorb"
    /\ value' = [value EXCEPT ![r] = Absorbed(r, e)]
    /\ Remember(e)
    /\ UNCHANGED <<pos, pushes, age, result, waker, woken, pc, out>>
    /\ UNCHANGED <<cancels, streams>>

\* Mutant: the resolved future stays in the list.
StanzaResolvesButKeeps(c, e, r) ==
    /\ reader[c]
    /\ Expected(c, e)
    /\ Takes(r, e)
    /\ HandleElement(r, e) # "absorb"
    /\ result' = [result EXCEPT ![r] = HandleElement(r, e)]
    /\ woken' = [woken EXCEPT ![r] = @ \/ waker[r]]
    /\ waker' = [waker EXCEPT ![r] = FALSE]
    /\ Remember(e)
    /\ UNCHANGED <<pos, pushes, age, value, pc, out>>
    /\ UNCHANGED <<cancels, streams>>

\* handle_stanza: the element resolves a future, which leaves the list.
StanzaResolves(c, e, r) ==
    /\ reader[c]
    /\ Expected(c, e)
    /\ Takes(r, e)
    /\ HandleElement(r, e) # "absorb"
    /\ result' = [result EXCEPT ![r] = HandleElement(r, e)]
    /\ pos' = [pos EXCEPT ![r] = 0]
    /\ woken' = [woken EXCEPT ![r] = @ \/ waker[r]]
    /\ waker' = [waker EXCEPT ![r] = FALSE]
    /\ Remember(e)
    /\ UNCHANGED <<pushes, age, value, pc, out>>
    /\ UNCHANGED <<cancels, streams>>

\* handle_stanza: nobody waits for the element, the modules get it.
StanzaForModules(c, e) ==
    /\ reader[c]
    /\ Expected(c, e)
    /\ \A r \in Requests : ~Takes(r, e)
    /\ Remember(e)
    /\ UNCHANGED <<futures, cancels, streams>>

\* cancel_pending_futures, first part: take the whole list under its lock.
TakePendingFutures(a) ==
    /\ taken' = [taken EXCEPT ![a] = Listed]
    /\ pos' = [r \in Requests |-> 0]

\* Mutant: the cancelled future's waker is dropped.
FailWithoutWake(a, r) ==
    /\ r \in taken[a]
    /\ taken' = [taken EXCEPT ![a] = @ \ {r}]
    /\ result' = [result EXCEPT ![r] = "disconnected"]
    /\ waker' = [waker EXCEPT ![r] = FALSE]
    /\ UNCHANGED <<pos, pushes, age, value, woken, pc, out, timerWakes>>
    /\ UNCHANGED <<streams, history>>

\* cancel_pending_futures, second part: fail the taken futures one by one.
FailWithDisconnect(a, r) ==
    /\ r \in taken[a]
    /\ taken' = [taken EXCEPT ![a] = @ \ {r}]
    /\ result' = [result EXCEPT ![r] = "disconnected"]
    /\ woken' = [woken EXCEPT ![r] = @ \/ waker[r]]
    /\ waker' = [waker EXCEPT ![r] = FALSE]
    /\ UNCHANGED <<pos, pushes, age, value, pc, out, timerWakes>>
    /\ UNCHANGED <<streams, history>>

\* The read task reports Disconnected and ends.  Note that the connection of
\* the context is left alone, and may be a later one.
Disconnected(c) ==
    /\ reader[c]
    /\ reader' = [reader EXCEPT ![c] = FALSE]
    /\ TakePendingFutures(c)
    /\ UNCHANGED <<pushes, age, value, result, waker, woken, pc, out>>
    /\ UNCHANGED <<timerWakes, history>>
    /\ UNCHANGED <<connection, opened, writer, client, panicked>>

\* The stream ends without a Disconnected event.
EndOfStream(c) ==
    /\ reader[c]
    /\ reader' = [reader EXCEPT ![c] = FALSE]
    /\ UNCHANGED <<futures, cancels, history>>
    /\ UNCHANGED <<connection, opened, writer, client, panicked>>

\* The write task stops after a failed write and drops its end of the queue.
WriterFails(c) ==
    /\ writer[c]
    /\ writer' = [writer EXCEPT ![c] = FALSE]
    /\ UNCHANGED <<futures, cancels, history>>
    /\ UNCHANGED <<connection, opened, reader, client, panicked>>

\* Mutant: the timer expires whatever is listed.
AllExpired == Listed

Expired == {r \in Listed : age[r] >= Timeout}

\* The timeout task of a connection, which outlives the connection:
\* purge_expired_futures up to the release of the list's lock.
TimeoutTimer(c) ==
    /\ c <= opened
    /\ Expired # {}
    /\ pos' = [r \in Requests |-> IF r \in Expired THEN 0 ELSE pos[r]]
    /\ result' = [r \in Requests |->
                    IF r \in Expired THEN "timedout" ELSE result[r]]
    /\ timerWakes' = timerWakes \cup {r \in Expired : waker[r]}
    /\ waker' = [r \in Requests |-> waker[r] /\ r \notin Expired]
    /\ UNCHANGED <<pushes, age, value, woken, pc, out, taken>>
    /\ UNCHANGED <<streams, history>>

\* Mutant: the collected wakers are dropped.
DropExpiredWaker(r) ==
    /\ r \in timerWakes
    /\ timerWakes' = timerWakes \ {r}
    /\ UNCHANGED <<futures, taken>>
    /\ UNCHANGED <<streams, history>>

\* purge_expired_futures, after the release: wake the collected wakers.
WakeExpired(r) ==
    /\ r \in timerWakes
    /\ timerWakes' = timerWakes \ {r}
    /\ woken' = [woken EXCEPT ![r] = pc[r] = "awaiting"]
    /\ UNCHANGED <<pos, pushes, age, value, result, waker, pc, out, taken>>
    /\ UNCHANGED <<streams, history>>

\* The clock.
Tick ==
    /\ \E r \in Listed : age[r] < Timeout
    /\ age' = [r \in Requests |->
                 IF r \in Listed /\ age[r] < Timeout THEN age[r] + 1 ELSE age[r]]
    /\ UNCHANGED <<pos, pushes, value, result, waker, woken, pc, out>>
    /\ UNCHANGED <<cancels, streams, history>>

-----------------------------------------------------------------------------
(***************************************************************************)
(* Connecting and disconnecting.                                           *)
(***************************************************************************)

\* Client::connect and Client::disconnect begin by cancelling what is
\* pending.
BeginConnect ==
    /\ client = "idle"
    /\ opened < MaxConnections
    /\ client' = "reconnecting"
    /\ TakePendingFutures(0)
    /\ UNCHANGED <<pushes, age, value, result, waker, woken, pc, out>>
    /\ UNCHANGED <<timerWakes, history>>
    /\ UNCHANGED <<connection, opened, reader, writer, panicked>>

BeginDisconnect ==
    /\ client = "idle"
    /\ client' = "disconnecting"
    /\ TakePendingFutures(0)
    /\ UNCHANGED <<pushes, age, value, result, waker, woken, pc, out>>
    /\ UNCHANGED <<timerWakes, history>>
    /\ UNCHANGED <<connection, opened, reader, writer, panicked>>

\* Connection::disconnect unwraps the result of queueing the stream end.
Unwraps == IF connection = 0 THEN FALSE ELSE ~writer[connection]

\* ModuleContextInner::disconnect: take the connection and end its stream.
ContextDisconnect ==
    /\ connection' = 0
    /\ panicked' = (panicked \/ Unwraps)

ClientDisconnect ==
    /\ client \in {"reconnecting", "disconnecting"}
    /\ taken[0] = {}
    /\ client' = IF client = "reconnecting" /\ ~Unwraps
                 THEN "connecting" ELSE "idle"
    /\ ContextDisconnect
    /\ UNCHANGED <<futures, cancels, history>>
    /\ UNCHANGED <<opened, reader, writer>>

\* The connector is online; its tasks run before connect() stores it.
ConnectorConnects ==
    /\ client = "connecting"
    /\ opened < MaxConnections
    /\ opened' = opened + 1
    /\ reader' = [reader EXCEPT ![opened + 1] = TRUE]
    /\ writer' = [writer EXCEPT ![opened + 1] = TRUE]
    /\ client' = "connected"
    /\ UNCHANGED <<futures, cancels, history>>
    /\ UNCHANGED <<connection, panicked>>

ConnectorFails ==
    /\ client = "connecting"
    /\ client' = "idle"
    /\ UNCHANGED <<futures, cancels, history>>
    /\ UNCHANGED <<connection, opened, reader, writer, panicked>>

StoreConnection ==
    /\ client = "connected"
    /\ connection' = opened
    /\ client' = "idle"
    /\ UNCHANGED <<futures, cancels, history>>
    /\ UNCHANGED <<opened, reader, writer, panicked>>

\* Ping::send_ping_to_server after a timeout.
PingDisconnects(r) ==
    /\ r \in PingRequests
    /\ pc[r] = "done"
    /\ out[r] = "timedout"
    /\ pc' = [pc EXCEPT ![r] = "closed"]
    /\ ContextDisconnect
    /\ UNCHANGED <<pos, pushes, age, value, result, waker, woken, out>>
    /\ UNCHANGED <<cancels, history>>
    /\ UNCHANGED <<opened, reader, writer, client>>

-----------------------------------------------------------------------------
RequestStep(r) ==
    \/ SendStanzaWithFuture(r)
    \/ SendStanza(r)
    \/ SendStanzaFails(r)
    \/ Poll(r)
    \/ WakeExpired(r)
    \/ PingDisconnects(r)
    \/ \E a \in Cancellers : FailWithDisconnect(a, r)

ConnectionStep(c) ==
    \/ \E e \in Elements : \/ StanzaForModules(c, e)
                           \/ \E r \in Requests : \/ StanzaAbsorbed(c, e, r)
                                                  \/ StanzaResolves(c, e, r)
    \/ Disconnected(c)
    \/ EndOfStream(c)
    \/ WriterFails(c)
    \/ TimeoutTimer(c)

ClientStep ==
    \/ BeginConnect
    \/ BeginDisconnect
    \/ ClientDisconnect
    \/ ConnectorConnects
    \/ ConnectorFails
    \/ StoreConnection

Next ==
    \/ \E r \in Requests : RequestStep(r)
    \/ \E c \in Connections : ConnectionStep(c)
    \/ ClientStep
    \/ Tick

Spec == Init /\ [][Next]_vars

(***************************************************************************)
(* Tasks make progress, a woken task is polled, the clock advances and the *)
(* timeout task of some connection keeps ticking.  Nothing is assumed of   *)
(* the server, of the network or of the user.                              *)
(***************************************************************************)
Fairness ==
    /\ \A r \in Requests :
         /\ WF_vars(SendStanza(r) \/ SendStanzaFails(r))
         /\ WF_vars(woken[r] /\ Poll(r))
         /\ WF_vars(WakeExpired(r))
         /\ \A a \in Cancellers : WF_vars(FailWithDisconnect(a, r))
    /\ WF_vars(\E c \in Connections : TimeoutTimer(c))
    /\ WF_vars(Tick)

FairSpec == Spec /\ Fairness

-----------------------------------------------------------------------------
(***************************************************************************)
(* Properties.                                                             *)
(***************************************************************************)

\* Type invariant.
TypeOK ==
    /\ pos \in [Requests -> Nat]
    /\ pushes \in Nat
    /\ age \in [Requests -> 0 .. Timeout]
    /\ value \in [Requests -> Values]
    /\ result \in [Requests -> Results \cup {"none"}]
    /\ waker \in [Requests -> BOOLEAN]
    /\ woken \in [Requests -> BOOLEAN]
    /\ pc \in [Requests -> {"idle", "registered", "awaiting", "done", "closed"}]
    /\ out \in [Requests -> Results \cup {"none"}]
    /\ taken \in [Cancellers -> SUBSET Requests]
    /\ timerWakes \in SUBSET Requests
    /\ connection \in 0 .. MaxConnections
    /\ opened \in 0 .. MaxConnections
    /\ reader \in [Connections -> BOOLEAN]
    /\ writer \in [Connections -> BOOLEAN]
    /\ client \in {"idle", "reconnecting", "disconnecting", "connecting",
                   "connected"}
    /\ panicked \in BOOLEAN
    /\ sentOn \in [Requests -> 0 .. MaxConnections]
    /\ answered \in SUBSET Requests
    /\ archived \in [Requests -> Nat]

Taken == UNION {taken[a] : a \in Cancellers}

\* `expect("Promise has been fulfilled already")` in handle_element and in
\* poll, and the expect/panic of the MAM and join transformers, never fire:
\* whoever still holds an entry of the list finds the future unresolved, and
\* a future resolved with Ok has everything its transformer unwraps.
PromiseFulfilledOnce ==
    \A r \in Requests :
      /\ pos[r] # 0 \/ r \in Taken =>
           value[r].present /\ result[r] = "none" /\ out[r] = "none"
      /\ result[r] = "ok" =>
           value[r].present /\ (r \in JoinRequests => value[r].self)

\* No wake-up is lost between poll, visit_futures_with_element,
\* purge_expired_futures and cancel_pending_futures: a task parked on an
\* unresolved future has left its waker where one of them will find it, and
\* a task whose future is resolved is scheduled or about to be.
NoLostWakeup ==
    \A r \in Requests :
      pc[r] = "awaiting" /\ ~woken[r] =>
        IF result[r] = "none"
        THEN waker[r] /\ (pos[r] # 0 \/ r \in Taken)
        ELSE r \in timerWakes

\* A request whose reply was read while it waited completes with that reply,
\* never with a timeout or a disconnect that comes after it: the entry is
\* listed before the stanza is written and leaves the list with its result.
AnsweredGetsReply ==
    \A r \in answered :
      \/ out[r] \in Replies
      \/ out[r] = "none" /\ result[r] \in Replies

\* No two joins of one room at a time: the elements of a room carry nothing that
\* tells its joins apart, and the older one takes the answers of both.
OneJoinPerRoom ==
    \A j, k \in JoinRequests : RoomOf[j] = RoomOf[k] => j = k

\* An archive query that succeeds has collected every archived message that
\* was read for it, even while a join of the same room is consuming the
\* room's messages (the concern of the comment in join_room_future.rs).
MamComplete ==
    \A r \in MamRequests :
      "ok" \in {result[r], out[r]} => value[r].collected = archived[r]

\* Connection::disconnect unwraps the result of queueing the stream end,
\* asserting that the write task is still there.
StreamEndIsQueued == ~panicked

Underway(r) == pc[r] \in {"registered", "awaiting"}

\* Every request that was registered completes, whatever the server, the
\* network and the user do: the reply, the timeout, the cancellation or the
\* failed write reaches the caller.
EveryRequestCompletes ==
    \A r \in Requests : []<>~Underway(r)

\* What the caller of a request sees of it.
Phase ==
    [r \in Requests |->
       CASE pc[r] = "idle" -> "idle"
         [] pc[r] \in {"registered", "awaiting"} -> "pending"
         [] OTHER -> "done"]

\* The request layer implements the service the modules rely on.
Service == INSTANCE RequestService WITH
    Outcomes <- Results,
    phase <- Phase,
    outcome <- out,
    waited <- age

\* A request completes exactly once, its outcome never changes, and it times
\* out only after the whole TIMEOUT_DURATION.
ImplementsService == Service!Spec

=============================================================================
