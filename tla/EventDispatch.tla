---------------------------- MODULE EventDispatch ---------------------------
(***************************************************************************)
(* How the application is told: CoalescingClientEventDispatcher puts a     *)
(* client event into a bounded channel; the task of `throttled` moves it   *)
(* to a buffer and hands the buffer over at every tick of its timer; a     *)
(* third task sorts and merges the events and calls the delegate.  The end *)
(* of the connection goes straight to the delegate.                        *)
(*                                                                         *)
(* An event has a kind, a room (of a room event) and the sequence of users *)
(* or messages it is about.                                                *)
(***************************************************************************)
EXTENDS Naturals, Sequences, SequencesExt

CONSTANTS
    Rooms,      \* a sequence: the rooms in the order of their JIDs
    Ids,        \* users and messages
    Capacity,   \* of the channel (50 in the code)
    MaxEvents   \* bound: events dispatched

NoRoom == "no room"

\* order_key_for_client_event, order_key_for_room_event: kinds in their order.
ClientKinds == <<"ConnectionStatusChanged", "SidebarChanged", "ContactChanged",
                 "ContactListChanged", "PresenceSubRequestsChanged",
                 "BlockListChanged", "AvatarChanged", "AccountInfoChanged">>
\* The kinds of room events, in their order.
RoomKinds == <<"MessagesAppended", "MessagesUpdated", "MessagesDeleted",
               "MessagesNeedReload", "AttributesChanged", "ParticipantsChanged",
               "ComposingUsersChanged">>

\* ClientEvent.
WithIds == {"ContactChanged", "AvatarChanged", "MessagesAppended",
            "MessagesUpdated", "MessagesDeleted"}
Event(kind, room, ids) == [kind |-> kind, room |-> room, ids |-> ids]

VARIABLES
    channel,    \* the channel of the dispatcher
    buf,        \* the buffer of throttled
    slot,       \* the channel of throttled, which holds one buffer
    client,     \* ClientInner exists
    owed,       \* history: what has been accepted and not been reported
    told,       \* history: what has been reported
    batch,      \* history: the events reported last
    events      \* number of events dispatched so far

vars == <<channel, buf, slot, client, owed, told, batch, events>>

\* What an event tells: one thing of every id.
Facts(e) == {<<e.kind, e.room, i>> : i \in IF e.kind \in WithIds THEN Range(e.ids)
                                           ELSE {"any"}}
FactsIn(es) == UNION {Facts(e) : e \in Range(es)}

Init ==
    /\ channel = <<>> /\ buf = <<>> /\ slot = <<>>
    /\ client = TRUE
    /\ owed = {} /\ told = {} /\ batch = <<>>
    /\ events = 0

-----------------------------------------------------------------------------
(***************************************************************************)
(* coalesce_client_events.                                                 *)
(***************************************************************************)

Place(x, xs) == CHOOSE i \in DOMAIN xs : xs[i] = x

\* compare_client_events: client events by kind, then rooms by JID, the events of
\* a room by kind.
OrderKey(e) ==
    IF e.room = NoRoom THEN Place(e.kind, ClientKinds)
    ELSE 10 * Place(e.room, Rooms) + Place(e.kind, RoomKinds)

\* events.sort_by(compare_client_events), which is stable.
Sorted(es) ==
    FoldLeft(LAMBDA sorted, e :
                 SelectSeq(sorted, LAMBDA x : OrderKey(x) <= OrderKey(e)) \o <<e>>
                 \o SelectSeq(sorted, LAMBDA x : OrderKey(x) > OrderKey(e)),
             <<>>, es)

\* A bug: the ids of the later one are dropped.
DropLater(a, b) == b

\* dedup_by, should_dedup_room_events: neighbours of the same kind and room are
\* merged; the ids of the later one follow those of the earlier one.
Same(a, b) == a.kind = b.kind /\ a.room = b.room
Merge(a, b) == [b EXCEPT !.ids = b.ids \o a.ids]
Dedup(es) ==
    FoldLeft(LAMBDA kept, e : IF kept # <<>> /\ Same(e, Last(kept))
                              THEN Front(kept) \o <<Merge(e, Last(kept))>>
                              ELSE Append(kept, e),
             <<>>, es)

Coalesce(es) == Dedup(Sorted(es))

-----------------------------------------------------------------------------
(***************************************************************************)
(* The dispatcher and its tasks.                                           *)
(***************************************************************************)

\* Every message is appended, updated and deleted once, in that order.
Plausible(e) ==
    LET fact(kind) == <<kind, e.room, Head(e.ids)>>
    IN CASE e.kind = "MessagesAppended" -> fact("MessagesAppended") \notin owed \cup told
         [] e.kind = "MessagesDeleted" -> fact("MessagesAppended") \in owed \cup told
         [] OTHER -> TRUE

\* dispatch_event, dispatch_room_event: try_send gives up when the channel is full.
Dispatch(e) ==
    /\ events < MaxEvents /\ client /\ Plausible(e)
    /\ events' = events + 1
    /\ IF Len(channel) < Capacity
       THEN channel' = Append(channel, e) /\ owed' = owed \cup Facts(e)
       ELSE UNCHANGED <<channel, owed>>
    /\ UNCHANGED <<buf, slot, client, told, batch>>

\* dispatch_event of a Disconnect: the delegate is called at once.
DispatchDisconnect ==
    /\ events < MaxEvents /\ client
    /\ events' = events + 1
    /\ batch' = <<Event("Disconnect", NoRoom, <<>>)>>
    /\ UNCHANGED <<channel, buf, slot, client, owed, told>>

\* throttled: an event has come.  (Not while it waits for the slot.)
Collect ==
    /\ channel # <<>>
    /\ buf' = Append(buf, Head(channel))
    /\ channel' = Tail(channel)
    /\ UNCHANGED <<slot, client, owed, told, batch, events>>

\* A bug: the buffer is handed over once it is full.
TickWhenFull ==
    /\ Len(buf) >= Capacity /\ slot = <<>>
    /\ slot' = buf /\ buf' = <<>>
    /\ UNCHANGED <<channel, client, owed, told, batch, events>>

\* throttled: the timer has fired.
Tick ==
    /\ buf # <<>> /\ slot = <<>>
    /\ slot' = buf /\ buf' = <<>>
    /\ UNCHANGED <<channel, client, owed, told, batch, events>>

\* The task of CoalescingClientEventDispatcher::new.
Deliver ==
    /\ slot # <<>> /\ client
    /\ batch' = Coalesce(slot)
    /\ told' = told \cup FactsIn(batch')
    /\ owed' = owed \ (FactsIn(batch') \ FactsIn(channel \o buf))
    /\ slot' = <<>>
    /\ UNCHANGED <<channel, buf, client, events>>

\* The client is gone: the sender closes the channel, what is left of it goes to
\* a task that finds no client.
DropClient ==
    /\ client
    /\ client' = FALSE
    /\ channel' = <<>> /\ buf' = <<>> /\ slot' = <<>>
    /\ owed' = {}
    /\ UNCHANGED <<told, batch, events>>

\* The events the client dispatches, one id at a time; the rooms are not pending.
Dispatched ==
    {Event(k, NoRoom, <<>>) : k \in {"ConnectionStatusChanged", "SidebarChanged"}}
    \cup {Event("ContactChanged", NoRoom, <<i>>) : i \in Ids}
    \cup {Event(k, r, <<i>>) : k \in {"MessagesAppended", "MessagesDeleted"},
                               r \in Range(Rooms), i \in Ids}

Next ==
    \/ \E e \in Dispatched : Dispatch(e)
    \/ DispatchDisconnect \/ Collect \/ Tick \/ Deliver \/ DropClient

Spec == Init /\ [][Next]_vars

\* The two tasks run and the timer fires.
Fairness == WF_vars(Collect) /\ WF_vars(Tick) /\ WF_vars(Deliver)
FairSpec == Spec /\ Fairness

-----------------------------------------------------------------------------
(***************************************************************************)
(* Properties.                                                             *)
(***************************************************************************)

\* The type invariant.
TypeOK ==
    /\ Len(channel) <= Capacity
    /\ \A e \in Range(channel \o buf \o slot) :
         e.kind \in Range(ClientKinds) \cup Range(RoomKinds)
    /\ client \in BOOLEAN
    /\ events \in 0 .. MaxEvents

\* Merging loses nothing: what the channel has accepted is reported or still on
\* its way, for every message and user that an event named (dedup_by with extend).
NothingForgotten == client => owed \subseteq FactsIn(channel \o buf \o slot)

\* One call of the delegate for every kind of event and room in a batch, however
\* the events of several rooms are mixed (sort_by before dedup_by).
ToldOnce ==
    \A i, j \in DOMAIN batch : i # j => ~Same(batch[i], batch[j])

\* A message that was appended and then deleted is not reported deleted first,
\* although a batch is sorted by kind (order_key_for_room_event).
AppendedBeforeDeleted ==
    \A r \in Range(Rooms), i \in Ids :
        LET appended == <<"MessagesAppended", r, i>>
            deleted == <<"MessagesDeleted", r, i>>
        IN /\ deleted \in told => appended \notin owed
           /\ \A j \in DOMAIN batch, k \in DOMAIN batch :
                deleted \in Facts(batch[j]) /\ appended \in Facts(batch[k]) => k < j

NothingOwed == owed = {}

\* Whatever the channel has accepted is reported in the end, unless the client is
\* dropped: no event waits for another one to push it through (throttled and its
\* timer).
EverythingIsTold == []<>NothingOwed

=============================================================================
